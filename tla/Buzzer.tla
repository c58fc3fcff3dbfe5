-------------------------------- MODULE Buzzer --------------------------------
(***************************************************************************)
(* The buzzer (Drivers/Buzzer/buzzer.c): a queue of commands and the task  *)
(* that carries them out one by one, keeping to each for as long as it     *)
(* says.  A beep is two commands, ON with a time and OFF without, that are *)
(* queued one after the other by tasks which wait for a place for no more  *)
(* than 10 ticks and do not look at the result.                            *)
(***************************************************************************)
EXTENDS Naturals, Sequences

CONSTANT BuzzerQueueSize    \* 20 in the code

ASSUME BuzzerAssumption == BuzzerQueueSize \in Nat \ {0}

Commands == {"on", "off"}

VARIABLES
    BuzzerQueue,    \* commands that wait
    pin,            \* the buzzer sounds
    busy,           \* BuzzerServe is in the delay of an ON
    offLost         \* history: the last OFF that was sent found no place

buzzerVars == <<BuzzerQueue, pin, busy, offLost>>

BuzzerInit ==
    BuzzerQueue = <<>> /\ pin = FALSE /\ busy = FALSE /\ offLost = FALSE

\* xQueueSend(BuzzerQueue, &data, 10): the command is queued, or, when 10 ticks have
\* passed without a place, dropped.
Send(command) ==
    /\ BuzzerQueue' = IF Len(BuzzerQueue) < BuzzerQueueSize THEN Append(BuzzerQueue, command)
                      ELSE BuzzerQueue
    /\ offLost' = IF command = "off" THEN Len(BuzzerQueue) = BuzzerQueueSize ELSE offLost
    /\ UNCHANGED <<pin, busy>>

\* Slip: a command is left out while the one before it lasts.
ServeSkips ==
    /\ BuzzerQueue # <<>>
    /\ BuzzerQueue' = Tail(BuzzerQueue)
    /\ pin' = IF busy THEN pin ELSE Head(BuzzerQueue) = "on"
    /\ busy' = (busy \/ Head(BuzzerQueue) = "on")
    /\ UNCHANGED offLost

\* BuzzerServe takes a command ...
Serve ==
    /\ BuzzerQueue # <<>> /\ ~busy
    /\ BuzzerQueue' = Tail(BuzzerQueue)
    /\ pin' = (Head(BuzzerQueue) = "on")
    /\ busy' = (Head(BuzzerQueue) = "on")
    /\ UNCHANGED offLost

\* ... and its delay is over.
LifeOver ==
    /\ busy /\ busy' = FALSE
    /\ UNCHANGED <<BuzzerQueue, pin, offLost>>

BuzzerServe == Serve \/ LifeOver
===============================================================================

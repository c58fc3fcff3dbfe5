----------------------------- MODULE SerialDebug ------------------------------
(***************************************************************************)
(* The debug output: tasks that print a line character by character with   *)
(* SER_PutChar, and USART1_IRQHandler, which sends the character in Tx.    *)
(*                                                                         *)
(* The polling task and the packet handler print without Serial_Sem, so    *)
(* that it keeps nobody apart from the one task that takes it, and is left *)
(* out.  The printing tasks have one priority and are time-sliced; the     *)
(* interrupt comes before all of them, and again and again for as long as  *)
(* an enabled flag is set.                                                 *)
(*                                                                         *)
(* Nothing reads what comes in, but the receive interrupt is enabled and   *)
(* shares its register CR1 with the transmit interrupt.                    *)
(***************************************************************************)
EXTENDS Naturals

CONSTANTS
    Printers,       \* the tasks that print
    LineLength,     \* characters that each of them prints
    Typing          \* somebody types at the console

ASSUME PrinterAssumption == LineLength \in Nat \ {0} /\ Typing \in BOOLEAN

Chars == [from : Printers, number : 1 .. LineLength]
None == [from |-> "none", number |-> 0]
Boot == [from |-> "boot", number |-> 0]

VARIABLES
    Tx,             \* the character to send; None is -1
    Rx,             \* a character has come in and nobody has read it
    DR,             \* the character in the data register; the flag TXE says it is empty
    RXNE,           \* a character has come in
    TXEIE, RXNEIE,  \* the two interrupts are enabled: bits of CR1
    pc, number,     \* per task: next access, characters it has begun to print
    CR1,            \* per task: the bit RXNEIE that it has loaded with the register
    sent,           \* history, per task: the last of its characters sent ...
    overlapped,     \* ... two tasks were between the wait and the enable at once ...
    stale           \* ... a character came in while a task changed the register

taskVars == <<pc, number, CR1>>
vars == <<Tx, Rx, DR, RXNE, TXEIE, RXNEIE, pc, number, CR1, sent, overlapped, stale>>

\* After SER_Init: Tx is initialised to 1 and the interrupts are enabled.
Init ==
    /\ Tx = Boot /\ Rx = FALSE /\ DR = None /\ RXNE = FALSE
    /\ TXEIE = TRUE /\ RXNEIE = TRUE
    /\ pc = [t \in Printers |-> "wait"] /\ number = [t \in Printers |-> 0]
    /\ CR1 = [t \in Printers |-> FALSE]
    /\ sent = [t \in Printers |-> 0] /\ overlapped = FALSE /\ stale = FALSE

-------------------------------------------------------------------------------
(***************************************************************************)
(* The USART and its interrupt.                                            *)
(***************************************************************************)
Shift ==
    /\ DR # None /\ DR' = None
    /\ UNCHANGED <<Tx, Rx, RXNE, TXEIE, RXNEIE, taskVars, sent, overlapped, stale>>

CharComesIn ==
    /\ Typing /\ ~RXNE /\ RXNE' = TRUE
    /\ UNCHANGED <<Tx, Rx, DR, TXEIE, RXNEIE, taskVars, sent, overlapped, stale>>

TransmitPending == TXEIE /\ DR = None
ReceivePending  == RXNEIE /\ RXNE
IrqPending == TransmitPending \/ ReceivePending

\* Takes the character, if there is room for it, and disables itself.
IrqReceive ==
    IF ReceivePending /\ ~Rx
      THEN /\ Rx' = TRUE /\ RXNE' = FALSE /\ RXNEIE' = FALSE
           /\ stale' = (stale \/ \E t \in Printers : pc[t] = "store")
      ELSE UNCHANGED <<Rx, RXNE, RXNEIE, stale>>

\* Slip: the interrupt is left enabled.
IrqTransmitEnabled ==
    IF TransmitPending /\ Tx # None
      THEN /\ DR' = Tx /\ Tx' = None /\ UNCHANGED TXEIE
           /\ sent' = IF Tx = Boot THEN sent ELSE [sent EXCEPT ![Tx.from] = Tx.number]
      ELSE UNCHANGED <<DR, TXEIE, Tx, sent>>

\* Sends the character in Tx, if there is one, and disables itself.
IrqTransmit ==
    IF TransmitPending /\ Tx # None
      THEN /\ DR' = Tx /\ TXEIE' = FALSE /\ Tx' = None
           /\ sent' = IF Tx = Boot THEN sent ELSE [sent EXCEPT ![Tx.from] = Tx.number]
      ELSE UNCHANGED <<DR, TXEIE, Tx, sent>>

USART1_IRQHandler ==
    /\ IrqPending /\ IrqReceive /\ IrqTransmit
    /\ UNCHANGED <<taskVars, overlapped>>

-------------------------------------------------------------------------------
(***************************************************************************)
(* SER_PutChar, called by task t.                                          *)
(***************************************************************************)
Runs(t, at) == ~IrqPending /\ pc[t] = at
Goto(t, next) == pc' = [pc EXCEPT ![t] = next]
UsartUnchanged == UNCHANGED <<Rx, DR, RXNE, sent, stale>>

\* The wait for the character before is over.
Wait(t) ==
    /\ Runs(t, "wait") /\ Tx = None
    /\ Goto(t, "write")
    /\ UsartUnchanged
    /\ UNCHANGED <<Tx, TXEIE, RXNEIE, number, CR1, overlapped>>

Write(t) ==
    /\ Runs(t, "write")
    /\ number' = [number EXCEPT ![t] = @ + 1]
    /\ Tx' = [from |-> t, number |-> number'[t]]
    /\ Goto(t, "load")
    /\ overlapped' = (overlapped \/ \E u \in Printers \ {t} : pc[u] \in {"write", "load", "store"})
    /\ UsartUnchanged
    /\ UNCHANGED <<TXEIE, RXNEIE, CR1>>

\* USART_ITConfig loads CR1 ...
Load(t) ==
    /\ Runs(t, "load")
    /\ CR1' = [CR1 EXCEPT ![t] = RXNEIE]
    /\ Goto(t, "store")
    /\ UsartUnchanged
    /\ UNCHANGED <<Tx, TXEIE, RXNEIE, number, overlapped>>

\* ... and stores it with the bit TXEIE set.
Store(t) ==
    /\ Runs(t, "store")
    /\ TXEIE' = TRUE /\ RXNEIE' = CR1[t]
    /\ CR1' = [CR1 EXCEPT ![t] = FALSE]
    /\ Goto(t, "spin")
    /\ UsartUnchanged
    /\ UNCHANGED <<Tx, number, overlapped>>

\* Slip: the character is not waited for.
ReturnAtOnce(t) ==
    /\ Runs(t, "spin")
    /\ Goto(t, IF number[t] < LineLength THEN "wait" ELSE "done")
    /\ UsartUnchanged
    /\ UNCHANGED <<Tx, TXEIE, RXNEIE, number, CR1, overlapped>>

\* Slip: one character too many.
ReturnLate(t) ==
    /\ Runs(t, "spin") /\ Tx = None
    /\ Goto(t, IF number[t] <= LineLength THEN "wait" ELSE "done")
    /\ UsartUnchanged
    /\ UNCHANGED <<Tx, TXEIE, RXNEIE, number, CR1, overlapped>>

\* The character has been sent: the next one, or the end of the line.
Return(t) ==
    /\ Runs(t, "spin") /\ Tx = None
    /\ Goto(t, IF number[t] < LineLength THEN "wait" ELSE "done")
    /\ UsartUnchanged
    /\ UNCHANGED <<Tx, TXEIE, RXNEIE, number, CR1, overlapped>>

SER_PutChar(t) == Wait(t) \/ Write(t) \/ Load(t) \/ Store(t) \/ Return(t)

Next == Shift \/ CharComesIn \/ USART1_IRQHandler \/ \E t \in Printers : SER_PutChar(t)

Spec == Init /\ [][Next]_vars

\* The USART sends, the interrupt is served, and the scheduler serves every task that
\* the interrupt leaves time for.
FairSpec ==
    /\ Spec /\ WF_vars(Shift) /\ WF_vars(USART1_IRQHandler)
    /\ \A t \in Printers : WF_vars(SER_PutChar(t))

-------------------------------------------------------------------------------
(***************************************************************************)
(* Properties.                                                             *)
(***************************************************************************)
Flags == {Rx, RXNE, TXEIE, RXNEIE, overlapped, stale}

\* Every variable holds a value of its type.
TypeOK ==
    /\ Flags \subseteq BOOLEAN
    /\ Tx \in Chars \cup {None, Boot} /\ DR \in Chars \cup {None, Boot}
    /\ pc \in [Printers -> {"wait", "write", "load", "store", "spin", "done"}]
    /\ number \in [Printers -> 0 .. LineLength] /\ sent \in [Printers -> 0 .. LineLength]
    /\ CR1 \in [Printers -> BOOLEAN]

\* When SER_PutChar returns, its character has been given to the USART, however the
\* tasks take turns in the waits: unless two of them were between the wait and the
\* enable at once, when one overwrites the character of the other.
SentWhenReturned ==
    overlapped \/ \A t \in Printers : pc[t] \in {"wait", "write", "done"} => sent[t] = number[t]

\* The interrupt has a flag set that it does not clear: it is entered for ever and no
\* task of the system runs again.
Storm == (TransmitPending /\ Tx = None) \/ (ReceivePending /\ Rx)

\* That takes one of two races: two tasks that print overlap, and the slower one
\* enables the interrupt for a character that has been sent; or a character comes in
\* while a task changes CR1, which enables the receive interrupt again.
StormOnlyAfterRace == Storm => overlapped \/ stale

-------------------------------------------------------------------------------
(***************************************************************************)
(* What a comment says and the code does not do.                           *)
(***************************************************************************)
\* Serial_Debug.c:83 says of the wait "waiting for previous session completed": it is
\* over at some time, and the character that waits is printed.
WaitEnds == \A t \in Printers : pc[t] = "wait" ~> pc[t] = "write"
===============================================================================

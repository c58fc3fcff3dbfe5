------------------------------- MODULE Rs485Bus -------------------------------
(***************************************************************************)
(* The RS485 side of the gateway, byte by byte: the polling task selects a *)
(* port, turns the driver round and waits (Drivers/FEP/rs485.c and         *)
(* ask_value); the device on the port answers with five bytes and a break; *)
(* UART4_IRQHandler stores the bytes in data_buff and queues the buffer at *)
(* the break.                                                              *)
(*                                                                         *)
(* A break is a framing error whose data byte is 0x00: the handler shifts  *)
(* and queues the buffer, resets rx_index and then stores that byte at     *)
(* index 0, so that the packet that follows lies at 1 .. 5 and the shift   *)
(* by one at the next break puts it in place.  FepGateway knows nothing of *)
(* the line; FeedsGateway relates the two.                                 *)
(***************************************************************************)
EXTENDS Naturals, Sequences, SequencesExt

CONSTANTS
    NPorts,         \* RS485 ports
    BuffSize,       \* data_buff has 10 bytes ...
    RxWrap,         \* ... and rx_index wraps when it exceeds 10
    QueueSize,      \* packets in FEPProcess_QueueBuffer
    MaxFaults       \* bound: stray bytes and breaks, answers cut short or late

ASSUME BusAssumption ==
    /\ NPorts \in Nat \ {0} /\ QueueSize \in Nat \ {0} /\ MaxFaults \in Nat
    /\ BuffSize = 10 /\ RxWrap \in BuffSize - 1 .. BuffSize

Ports == 1 .. NPorts
AnswerLength == 5

(***************************************************************************)
(* A byte is a pair: <<p, k>> is the k-th byte of an answer on port p.     *)
(***************************************************************************)
Null  == <<0, 0>>       \* 0x00: the byte of a break, and the buffer at boot
Stray == <<0, 1>>       \* a byte that is part of no answer
Bytes == {<<p, k>> : p \in Ports, k \in 1 .. AnswerLength} \cup {Null, Stray}

VARIABLES
    sel,            \* the port whose select line is low, or 0
    dir,            \* "TRANSF" or "RECE"
    pc, i,          \* the polling task
    todo,           \* per port: the next byte of the answer to send, or 0
    data_buff,      \* 0 .. BuffSize: the array and the byte after it
    rx_index,
    queue,          \* packets, as the five bytes of each
    faults,         \* how many have happened
    line, synced    \* history: the bytes since the last break; has there been one?

vars == <<sel, dir, pc, i, todo, data_buff, rx_index, queue, faults, line, synced>>

\* Bound on the history: of longer lines only the first bytes are kept.
LineMax == AnswerLength + 7

Init ==
    /\ sel = 0 /\ dir = "RECE"
    /\ pc = "ask" /\ i = 1
    /\ todo = [p \in Ports |-> 0]
    /\ data_buff = [k \in 0 .. BuffSize |-> Null]
    /\ rx_index = 0
    /\ queue = <<>>
    /\ faults = 0 /\ line = <<>> /\ synced = FALSE

Fault == faults < MaxFaults /\ faults' = faults + 1

-------------------------------------------------------------------------------
(***************************************************************************)
(* The polling task.                                                       *)
(***************************************************************************)
RS485_sel(port) == sel' = port
RS485_Dir(d)    == dir' = d

\* ask_value up to the delay of 2 ms: the port is selected, the driver talks.
Ask ==
    /\ pc = "ask"
    /\ RS485_sel(i) /\ RS485_Dir("TRANSF")
    /\ pc' = "turn"
    /\ UNCHANGED <<i, todo, data_buff, rx_index, queue, faults, line, synced>>

\* The delay is over: the driver listens.  The device has heard the ask or not.
TurnRound ==
    /\ pc = "turn"
    /\ RS485_Dir("RECE")
    /\ \E heard \in {0, 1} : todo' = [todo EXCEPT ![i] = heard]
    /\ pc' = "wait"
    /\ UNCHANGED <<sel, i, data_buff, rx_index, queue, faults, line, synced>>

\* 4 ms later the next port is asked, whatever has come in.  An answer still on
\* its way, one of the faults, is cut short by it.
NextPort ==
    /\ pc = "wait"
    /\ pc' = "ask" /\ i' = IF i < NPorts THEN i + 1 ELSE 1
    /\ IF todo[i] > 0 THEN Fault ELSE UNCHANGED faults
    /\ UNCHANGED <<sel, dir, todo, data_buff, rx_index, queue, line, synced>>

-------------------------------------------------------------------------------
(***************************************************************************)
(* UART4_IRQHandler.                                                       *)
(***************************************************************************)
\* Slips: the index wraps at the size of a packet, or one byte further than it does.
RxNextEarly(index) == IF index + 1 > AnswerLength - 1 THEN 0 ELSE index + 1
RxNextLate(index)  == IF index > RxWrap THEN 0 ELSE index + 1

RxNext(index) == IF index + 1 > RxWrap THEN 0 ELSE index + 1

RxByte(b) ==
    /\ data_buff' = [data_buff EXCEPT ![rx_index] = b]
    /\ rx_index' = RxNext(rx_index)
    /\ line' = IF Len(line) < LineMax THEN Append(line, b) ELSE line
    /\ UNCHANGED <<queue, synced>>

\* Slip: only the first three bytes are shifted.
ShiftedShort == [k \in 0 .. BuffSize |-> IF k < 3 THEN data_buff[k + 1] ELSE data_buff[k]]

Shifted == [k \in 0 .. BuffSize |-> IF k < 6 THEN data_buff[k + 1] ELSE data_buff[k]]

RxBreak ==
    /\ LET packet == [k \in 1 .. AnswerLength |-> Shifted[k - 1]]
       IN  queue' = IF Len(queue) < QueueSize THEN Append(queue, packet) ELSE queue
    /\ data_buff' = [Shifted EXCEPT ![0] = Null]
    /\ rx_index' = RxNext(0)
    /\ line' = <<>> /\ synced' = TRUE

\* The device on port p sends the next byte, or the break.  The line of a port
\* that is not selected, or against which the driver talks, is not heard.
Send(p) ==
    /\ todo[p] > 0
    /\ todo' = [todo EXCEPT ![p] = (@ + 1) % (AnswerLength + 2)]
    /\ IF sel = p /\ dir = "RECE"
         THEN IF todo[p] <= AnswerLength THEN RxByte(<<p, todo[p]>>) ELSE RxBreak
         ELSE UNCHANGED <<data_buff, rx_index, queue, line, synced>>
    /\ UNCHANGED <<sel, dir, pc, i, faults>>

\* The device on port p is unplugged, or its line fails, in the middle of an answer.
Cut(p) ==
    /\ todo[p] > 0
    /\ Fault
    /\ todo' = [todo EXCEPT ![p] = 0]
    /\ UNCHANGED <<sel, dir, pc, i, data_buff, rx_index, queue, line, synced>>

\* A stray byte, or a stray break.
NoiseByte  == Fault /\ RxByte(Stray) /\ UNCHANGED <<sel, dir, pc, i, todo>>
NoiseBreak == Fault /\ RxBreak /\ UNCHANGED <<sel, dir, pc, i, todo>>

\* FEP_RS485_Handler takes a packet.
Receive ==
    /\ queue # <<>>
    /\ queue' = Tail(queue)
    /\ UNCHANGED <<sel, dir, pc, i, todo, data_buff, rx_index, faults, line, synced>>

Next == \/ Ask \/ TurnRound \/ NextPort \/ NoiseByte \/ NoiseBreak \/ Receive
        \/ \E p \in Ports : Send(p) \/ Cut(p)

Spec == Init /\ [][Next]_vars

-------------------------------------------------------------------------------
(***************************************************************************)
(* Properties.                                                             *)
(***************************************************************************)
\* Every variable holds a value of its type.
TypeOK ==
    /\ sel \in Ports \cup {0} /\ dir \in {"TRANSF", "RECE"}
    /\ pc \in {"ask", "turn", "wait"} /\ i \in Ports
    /\ todo \in [Ports -> 0 .. AnswerLength + 1]
    /\ data_buff \in [0 .. BuffSize -> Bytes]
    /\ rx_index \in 0 .. RxWrap /\ faults \in 0 .. MaxFaults
    /\ Len(queue) <= QueueSize /\ \A k \in 1 .. Len(queue) : queue[k] \in [1 .. AnswerLength -> Bytes]

\* At a break the packet that is queued is the first five bytes received since the
\* break before, whatever noise after them does to the buffer, until it comes round to
\* the first of them.  The first break after boot is not covered: until then the buffer
\* is not aligned.
BreakQueuesLine ==
    [][Len(queue') > Len(queue) /\ synced /\ Len(line) \in AnswerLength .. RxWrap + 1 =>
          Last(queue') = SubSeq(line, 1, AnswerLength)]_vars

\* The handler sees of a packet what FepGateway says: an answer if it begins like
\* one, the id in its third byte (0 where that is no id byte).
Gateway == INSTANCE FepGateway WITH
    NPorts <- NPorts, Ids <- Ports \cup {0}, MaxReceCount <- 10, CountMod <- 256,
    QueueSize <- QueueSize, Cells <- Bytes, Zero <- Null, NoReading <- Null,
    Flag_GetData <- 0, Flag_SendUDP <- 0, fep_dev_list <- 0, fep_dev_list_Sem <- 0,
    gvPc <- 0, gvI <- 0, rsPc <- "receive", packet <- 0, reg <- 0, udpPc <- 0, udpI <- 0,
    buff <- 0, unreported <- FALSE, overtaken <- FALSE, stored <- 0,
    data_buff <- [k \in {3, 4} |-> data_buff[k]],
    queue <- [k \in 1 .. Len(queue) |->
                IF queue[k][1][2] = 1 /\ queue[k][1][1] > 0
                  THEN [start |-> "GETVALUE_RETURN",
                        id |-> IF queue[k][3][2] = 3 THEN queue[k][3][1] ELSE 0]
                  ELSE [start |-> "other", id |-> 0]]

\* Whatever the line does, FepGateway's interrupts allow it: a step of the bus
\* changes the bytes and the queue that the tasks see as one byte that comes in, as
\* one break, or as the handler taking a packet.
FeedsGateway ==
    [][\/ Gateway!UART4_Byte \/ Gateway!UART4_Break
       \/ Receive]_<<data_buff[3], data_buff[4], queue>>
===============================================================================

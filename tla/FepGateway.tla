------------------------------ MODULE FepGateway ------------------------------
(***************************************************************************)
(* The polling gateway of Drivers/FEP: the timer interrupt, the UART       *)
(* interrupt and the three tasks of equal priority that share              *)
(* fep_dev_list, two flags, one packet queue and one receive buffer.       *)
(*                                                                         *)
(*   - TIM3_IRQHandler raises Flag_GetData;                                *)
(*   - FEP_RS485_GETVALUE_Handler (gv...) runs a round: it asks every      *)
(*     port, counts the ask, takes the devices that missed too many asks   *)
(*     off line and raises Flag_SendUDP;                                   *)
(*   - UART4_IRQHandler fills data_buff and, at a line break, queues what  *)
(*     the buffer holds;                                                   *)
(*   - FEP_RS485_Handler (rs...) takes packets from the queue and updates  *)
(*     the slot of the device that answered;                               *)
(*   - FEP_UDP_Handler (udp...) sends a frame with the slots on line.      *)
(*                                                                         *)
(* A task may be suspended between any two accesses to shared state: the   *)
(* three tasks are time-sliced and every interrupt and the tasks of lwIP   *)
(* preempt them.  Each action is therefore one access, or the accesses of  *)
(* one section that no other actor can touch meanwhile.                    *)
(*                                                                         *)
(* The RS485 line is not constrained: the interrupt handler checks         *)
(* neither the size nor the checksum of a packet, so any byte and any      *)
(* packet may come in at any time.                                         *)
(***************************************************************************)
EXTENDS Naturals, Sequences

CONSTANTS
    NPorts,         \* RS485 ports polled; 6 in the code
    Ids,            \* the ids that packets name: three bits of dev_info
    MaxReceCount,   \* unanswered asks a device may miss; 10 in the code
    CountMod,       \* rece_count is a uint8_t: 256 in the code
    QueueSize,      \* FEP_QUEUEBUFFER_SIZE; 20 in the code
    Cells,          \* the bytes of a reading that come in
    Zero,           \* the byte 0x00, what the list holds at boot
    NoReading       \* the byte 0xFF; two of them say "no reading"

ASSUME PortsAssumption == NPorts \in Nat \ {0} /\ Ids \subseteq Nat
ASSUME CountAssumption == /\ MaxReceCount \in Nat /\ CountMod \in Nat
                          /\ MaxReceCount + 1 < CountMod
ASSUME QueueAssumption == QueueSize \in Nat \ {0}
ASSUME CellsAssumption == Zero \in Cells

INACTIVE == 0
ACTIVE   == 1

Ports == 1 .. NPorts
Slots == Ports \cup Ids

(***************************************************************************)
(* What matters of a packet: the slot that the answer to an ask names.     *)
(* The handler looks at nothing else of a packet, its value included.  Of  *)
(* a device, new_data is left out: two tasks write it, no code reads it.   *)
(***************************************************************************)
Answers == [start : {"GETVALUE_RETURN"}, id : Ids]
NoAnswer == [start |-> "other", id |-> 0]
Packets == Answers \cup {NoAnswer}

Devices == [dev_id : Slots \cup {0}, status : {INACTIVE, ACTIVE},
            data : Cells, dataL : Cells, rece_count : 0 .. CountMod - 1]
NoDevice == [dev_id |-> 0, status |-> INACTIVE,
             data |-> Zero, dataL |-> Zero, rece_count |-> 0]

(***************************************************************************)
(* One entry of the frame that SendGetValue composes.                      *)
(***************************************************************************)
Entries == [slot : Ports, dev_id : Slots \cup {0}, data : Cells, dataL : Cells]

VARIABLES
    Flag_GetData,       \* a round is due
    Flag_SendUDP,       \* a round is complete and not yet reported
    fep_dev_list,       \* Slots -> Devices
    fep_dev_list_Sem,   \* the task that holds the mutex, or "none"
    data_buff,          \* the receive buffer's bytes 3 and 4
    queue,              \* FEPProcess_QueueBuffer
    gvPc, gvI,          \* FEP_RS485_GETVALUE_Handler: next access, loop index
    rsPc, packet, reg,  \* FEP_RS485_Handler: next access, tmpPacket, loaded bytes
    udpPc, udpI, buff,  \* FEP_UDP_Handler: next access, loop index, frame
    unreported,         \* history: a round completed and no frame begun since
    overtaken,          \* history: data_buff changed since the handler's first load
    stored              \* history: each slot's reading, as if stored in one step

fepVars == <<Flag_GetData, Flag_SendUDP>>
gvVars  == <<gvPc, gvI>>
rsVars  == <<rsPc, packet, reg>>
udpVars == <<udpPc, udpI, buff>>
readVars == <<overtaken, stored>>
vars == <<Flag_GetData, Flag_SendUDP, fep_dev_list, fep_dev_list_Sem, data_buff,
          queue, gvPc, gvI, rsPc, packet, reg, udpPc, udpI, buff, unreported,
          overtaken, stored>>

Init ==
    /\ Flag_GetData = INACTIVE /\ Flag_SendUDP = INACTIVE
    /\ fep_dev_list = [s \in Slots |-> NoDevice]
    /\ fep_dev_list_Sem = "none"
    /\ data_buff = [k \in {3, 4} |-> Zero]
    /\ queue = <<>>
    /\ gvPc = "delay" /\ gvI = 1
    /\ rsPc = "receive" /\ packet = NoAnswer /\ reg = [k \in {3, 4} |-> Zero]
    /\ udpPc = "test" /\ udpI = 1 /\ buff = <<>>
    /\ unreported = FALSE
    /\ overtaken = FALSE /\ stored = [s \in Slots |-> <<Zero, Zero>>]

-------------------------------------------------------------------------------
(***************************************************************************)
(* Interrupts.                                                             *)
(***************************************************************************)
TIM3_IRQHandler ==
    /\ Flag_GetData' = ACTIVE
    /\ UNCHANGED <<Flag_SendUDP, fep_dev_list, fep_dev_list_Sem, data_buff, queue,
                   gvVars, rsVars, udpVars, unreported, readVars>>

\* History: data_buff changes under a reading that is being loaded and stored.
Overtakes ==
    /\ overtaken' = \/ overtaken
                    \/ rsPc \in {"loadL", "data", "dataL"} /\ data_buff' # data_buff
    /\ UNCHANGED stored

\* A byte that lands in data_buff[3] or data_buff[4].
UART4_Byte ==
    /\ \E k \in {3, 4}, c \in Cells : data_buff' = [data_buff EXCEPT ![k] = c]
    /\ Overtakes
    /\ UNCHANGED <<fepVars, fep_dev_list, fep_dev_list_Sem, queue,
                   gvVars, rsVars, udpVars, unreported>>

\* A break: the buffer is shifted by one byte and queued, or dropped when the
\* queue is full.  Bytes 0, 2 and 5 are whatever came in.
UART4_Break ==
    /\ \E tmp \in Packets, c \in Cells :
         /\ data_buff' = [data_buff EXCEPT ![3] = data_buff[4], ![4] = c]
         /\ queue' = IF Len(queue) < QueueSize THEN Append(queue, tmp) ELSE queue
    /\ Overtakes
    /\ UNCHANGED <<fepVars, fep_dev_list, fep_dev_list_Sem,
                   gvVars, rsVars, udpVars, unreported>>

-------------------------------------------------------------------------------
(***************************************************************************)
(* FEP_RS485_GETVALUE_Handler.                                             *)
(***************************************************************************)
GvUnchanged == UNCHANGED <<data_buff, queue, rsVars, udpVars, readVars>>

\* The two loops over the ports: the next ask, or the first slot to check ...
NextAsk ==
    IF gvI < NPorts THEN gvPc' = "ask" /\ gvI' = gvI + 1
                    ELSE gvPc' = "check" /\ gvI' = 1

\* ... and the next slot to check, or the end of the round.
NextCheck ==
    IF gvI < NPorts THEN gvPc' = "check" /\ gvI' = gvI + 1
                    ELSE gvPc' = "done" /\ gvI' = 1

GvStart ==
    /\ gvPc = "delay" /\ Flag_GetData = ACTIVE
    /\ gvPc' = "ask" /\ gvI' = 1
    /\ GvUnchanged
    /\ UNCHANGED <<fepVars, fep_dev_list, fep_dev_list_Sem, unreported>>

\* ask_value(i) and the 4 ms left for the answer.
GvAsk ==
    /\ gvPc = "ask"
    /\ gvPc' = "lock"
    /\ GvUnchanged
    /\ UNCHANGED <<fepVars, fep_dev_list, fep_dev_list_Sem, gvI, unreported>>

GvTake ==
    /\ gvPc = "lock" /\ fep_dev_list_Sem = "none"
    /\ fep_dev_list_Sem' = "getvalue"
    /\ gvPc' = "count"
    /\ GvUnchanged
    /\ UNCHANGED <<fepVars, fep_dev_list, gvI, unreported>>

\* Slip: the result of the take is not tested.
GvTimeoutIgnored ==
    /\ gvPc = "lock" /\ fep_dev_list_Sem # "none"
    /\ gvPc' = "count"
    /\ GvUnchanged
    /\ UNCHANGED <<fepVars, fep_dev_list, fep_dev_list_Sem, gvI, unreported>>

\* One tick has passed and another task still holds the mutex: not counted.
GvTimeout ==
    /\ gvPc = "lock" /\ fep_dev_list_Sem # "none"
    /\ NextAsk
    /\ GvUnchanged
    /\ UNCHANGED <<fepVars, fep_dev_list, fep_dev_list_Sem, unreported>>

\* Slip: the count is an int.
GvCountWide ==
    /\ gvPc = "count"
    /\ fep_dev_list' = [fep_dev_list EXCEPT ![gvI].rece_count = @ + 1]
    /\ gvPc' = "give"
    /\ GvUnchanged
    /\ UNCHANGED <<fepVars, fep_dev_list_Sem, gvI, unreported>>

GvCount ==
    /\ gvPc = "count"
    /\ fep_dev_list' = [fep_dev_list EXCEPT ![gvI].rece_count = (@ + 1) % CountMod]
    /\ gvPc' = "give"
    /\ GvUnchanged
    /\ UNCHANGED <<fepVars, fep_dev_list_Sem, gvI, unreported>>

GvGive ==
    /\ gvPc = "give"
    /\ fep_dev_list_Sem' = "none"
    /\ NextAsk
    /\ GvUnchanged
    /\ UNCHANGED <<fepVars, fep_dev_list, unreported>>

\* Slips: a check of rece_count against a limit of its own.
GvCheckAgainst(limit) ==
    /\ gvPc = "check"
    /\ IF fep_dev_list[gvI].rece_count > limit
         THEN gvPc' = "off" /\ gvI' = gvI
         ELSE NextCheck
    /\ GvUnchanged
    /\ UNCHANGED <<fepVars, fep_dev_list, fep_dev_list_Sem, unreported>>

\* Off by one, and a limit that a uint8_t cannot exceed.
GvCheckLate  == GvCheckAgainst(MaxReceCount + 1)
GvCheckNever == GvCheckAgainst(CountMod)

\* From here on the list is read and written without the mutex.
GvCheck ==
    /\ gvPc = "check"
    /\ IF fep_dev_list[gvI].rece_count > MaxReceCount
         THEN gvPc' = "off" /\ gvI' = gvI
         ELSE NextCheck
    /\ GvUnchanged
    /\ UNCHANGED <<fepVars, fep_dev_list, fep_dev_list_Sem, unreported>>

GvOff ==
    /\ gvPc = "off"
    /\ fep_dev_list' = [fep_dev_list EXCEPT ![gvI].status = INACTIVE]
    /\ NextCheck
    /\ GvUnchanged
    /\ UNCHANGED <<fepVars, fep_dev_list_Sem, unreported>>

GvDone ==
    /\ gvPc = "done"
    /\ Flag_GetData' = INACTIVE
    /\ gvPc' = "signal"
    /\ GvUnchanged
    /\ UNCHANGED <<Flag_SendUDP, fep_dev_list, fep_dev_list_Sem, gvI, unreported>>

GvSignal ==
    /\ gvPc = "signal"
    /\ Flag_SendUDP' = ACTIVE /\ unreported' = TRUE
    /\ gvPc' = "delay"
    /\ GvUnchanged
    /\ UNCHANGED <<Flag_GetData, fep_dev_list, fep_dev_list_Sem, gvI>>

GetValue == \/ GvStart \/ GvAsk \/ GvTake \/ GvTimeout \/ GvCount \/ GvGive
            \/ GvCheck \/ GvOff \/ GvDone \/ GvSignal

-------------------------------------------------------------------------------
(***************************************************************************)
(* FEP_RS485_Handler.  It polls the queue; a packet that is not the answer *)
(* to an ask is dropped.  Locals that are dead are reset.                  *)
(***************************************************************************)
RsUnchanged == UNCHANGED <<fepVars, gvVars, udpVars, unreported>>

RsReceive ==
    /\ rsPc = "receive" /\ queue # <<>>
    /\ queue' = Tail(queue)
    /\ IF Head(queue).start = "GETVALUE_RETURN"
         THEN packet' = Head(queue) /\ rsPc' = "lock"
         ELSE UNCHANGED <<packet, rsPc>>
    /\ RsUnchanged
    /\ UNCHANGED <<fep_dev_list, fep_dev_list_Sem, data_buff, reg, readVars>>

RsTake ==
    /\ rsPc = "lock" /\ fep_dev_list_Sem = "none"
    /\ fep_dev_list_Sem' = "rs485"
    /\ rsPc' = "load"
    /\ fep_dev_list' = [fep_dev_list EXCEPT ![packet.id].dev_id = packet.id]
    /\ RsUnchanged
    /\ UNCHANGED <<data_buff, queue, packet, reg, readVars>>

\* Slip: the result of the take is not tested.
RsTimeoutIgnored ==
    /\ rsPc = "lock" /\ fep_dev_list_Sem # "none"
    /\ rsPc' = "load"
    /\ RsUnchanged
    /\ UNCHANGED <<fep_dev_list, fep_dev_list_Sem, data_buff, queue, packet, reg, readVars>>

\* The answer is lost.
RsTimeout ==
    /\ rsPc = "lock" /\ fep_dev_list_Sem # "none"
    /\ rsPc' = "receive" /\ packet' = NoAnswer
    /\ RsUnchanged
    /\ UNCHANGED <<fep_dev_list, fep_dev_list_Sem, data_buff, queue, reg, readVars>>

\* The reading is loaded from data_buff, not from the packet, a byte at a time.
RsLoad ==
    /\ rsPc = "load"
    /\ reg' = [reg EXCEPT ![3] = data_buff[3]]
    /\ rsPc' = "loadL"
    /\ RsUnchanged
    /\ UNCHANGED <<fep_dev_list, fep_dev_list_Sem, data_buff, queue, packet, readVars>>

RsLoadL ==
    /\ rsPc = "loadL"
    /\ reg' = [reg EXCEPT ![4] = data_buff[4]]
    /\ rsPc' = IF reg[3] = NoReading /\ data_buff[4] = NoReading THEN "reset" ELSE "data"
    /\ RsUnchanged
    /\ UNCHANGED <<fep_dev_list, fep_dev_list_Sem, data_buff, queue, packet, readVars>>

\* data_buff is not volatile: the compiled store may use the byte that was
\* loaded for the test or load it again.  A change of data_buff in between can
\* leave bytes of two answers in the list.
RsData ==
    /\ rsPc = "data"
    /\ \E c \in {reg[3], data_buff[3]} :
         fep_dev_list' = [fep_dev_list EXCEPT ![packet.id].data = c]
    /\ rsPc' = "dataL"
    /\ RsUnchanged
    /\ UNCHANGED <<fep_dev_list_Sem, data_buff, queue, packet, reg, readVars>>

RsDataL ==
    /\ rsPc = "dataL"
    /\ \E c \in {reg[4], data_buff[4]} :
         /\ fep_dev_list' = [fep_dev_list EXCEPT ![packet.id].dataL = c]
         /\ stored' = [stored EXCEPT ![packet.id] =
                           IF overtaken THEN <<fep_dev_list[packet.id].data, c>>
                                        ELSE <<data_buff[3], data_buff[4]>>]
    /\ rsPc' = "reset"
    /\ RsUnchanged
    /\ UNCHANGED <<fep_dev_list_Sem, data_buff, queue, packet, reg, overtaken>>

\* Slip: the count is not reset.
RsNoReset ==
    /\ rsPc = "reset"
    /\ rsPc' = "status" /\ reg' = [k \in {3, 4} |-> Zero] /\ overtaken' = FALSE
    /\ RsUnchanged
    /\ UNCHANGED <<fep_dev_list, fep_dev_list_Sem, data_buff, queue, packet, stored>>

RsReset ==
    /\ rsPc = "reset"
    /\ fep_dev_list' = [fep_dev_list EXCEPT ![packet.id].rece_count = 0]
    /\ rsPc' = "status" /\ reg' = [k \in {3, 4} |-> Zero] /\ overtaken' = FALSE
    /\ RsUnchanged
    /\ UNCHANGED <<fep_dev_list_Sem, data_buff, queue, packet, stored>>

RsStatus ==
    /\ rsPc = "status"
    /\ fep_dev_list' = [fep_dev_list EXCEPT ![packet.id].status = ACTIVE]
    /\ rsPc' = "give"
    /\ RsUnchanged
    /\ UNCHANGED <<fep_dev_list_Sem, data_buff, queue, packet, reg, readVars>>

RsGive ==
    /\ rsPc = "give"
    /\ fep_dev_list_Sem' = "none"
    /\ rsPc' = "receive" /\ packet' = NoAnswer
    /\ RsUnchanged
    /\ UNCHANGED <<fep_dev_list, data_buff, queue, reg, readVars>>

Rs485 == \/ RsReceive \/ RsTake \/ RsTimeout \/ RsLoad \/ RsLoadL
         \/ RsData \/ RsDataL \/ RsReset \/ RsStatus \/ RsGive

-------------------------------------------------------------------------------
(***************************************************************************)
(* FEP_UDP_Handler.  Who the frame goes to is the subject of FepUdp.       *)
(***************************************************************************)
UdpUnchanged ==
    UNCHANGED <<Flag_GetData, fep_dev_list, data_buff, queue, gvVars, rsVars, readVars>>

UdpTest ==
    /\ udpPc = "test" /\ Flag_SendUDP = ACTIVE
    /\ udpPc' = "clear"
    /\ UdpUnchanged
    /\ UNCHANGED <<Flag_SendUDP, fep_dev_list_Sem, udpI, buff, unreported>>

UdpClear ==
    /\ udpPc = "clear"
    /\ Flag_SendUDP' = INACTIVE
    /\ udpPc' = "lock"
    /\ UdpUnchanged
    /\ UNCHANGED <<fep_dev_list_Sem, udpI, buff, unreported>>

UdpTake ==
    /\ udpPc = "lock" /\ fep_dev_list_Sem = "none"
    /\ fep_dev_list_Sem' = "udp"
    /\ udpPc' = "copy" /\ udpI' = 1 /\ unreported' = FALSE
    /\ UdpUnchanged
    /\ UNCHANGED <<Flag_SendUDP, buff>>

\* A frame without entries is sent.
UdpTimeout ==
    /\ udpPc = "lock" /\ fep_dev_list_Sem # "none"
    /\ udpPc' = "send" /\ unreported' = FALSE
    /\ UdpUnchanged
    /\ UNCHANGED <<Flag_SendUDP, fep_dev_list_Sem, udpI, buff>>

\* Slip: only the slots that miss no ask are copied.
UdpCopyFresh ==
    /\ udpPc = "copy"
    /\ LET dev == fep_dev_list[udpI]
       IN  buff' = IF dev.status = ACTIVE /\ dev.rece_count = 0
                     THEN Append(buff, [slot |-> udpI, dev_id |-> dev.dev_id,
                                        data |-> dev.data, dataL |-> dev.dataL])
                     ELSE buff
    /\ IF udpI < NPorts THEN udpPc' = "copy" /\ udpI' = udpI + 1
                        ELSE udpPc' = "give" /\ udpI' = 1
    /\ UdpUnchanged
    /\ UNCHANGED <<Flag_SendUDP, fep_dev_list_Sem, unreported>>

UdpCopy ==
    /\ udpPc = "copy"
    /\ LET dev == fep_dev_list[udpI]
       IN  buff' = IF dev.status = ACTIVE
                     THEN Append(buff, [slot |-> udpI, dev_id |-> dev.dev_id,
                                        data |-> dev.data, dataL |-> dev.dataL])
                     ELSE buff
    /\ IF udpI < NPorts THEN udpPc' = "copy" /\ udpI' = udpI + 1
                        ELSE udpPc' = "give" /\ udpI' = 1
    /\ UdpUnchanged
    /\ UNCHANGED <<Flag_SendUDP, fep_dev_list_Sem, unreported>>

UdpGive ==
    /\ udpPc = "give"
    /\ fep_dev_list_Sem' = "none"
    /\ udpPc' = "send"
    /\ UdpUnchanged
    /\ UNCHANGED <<Flag_SendUDP, udpI, buff, unreported>>

\* Slip: the flag is cleared once the frame is sent.
UdpSendClears ==
    /\ udpPc = "send"
    /\ udpPc' = "test" /\ buff' = <<>> /\ Flag_SendUDP' = INACTIVE
    /\ UdpUnchanged
    /\ UNCHANGED <<fep_dev_list_Sem, udpI, unreported>>

\* sendto, then the rest of the loop, which touches nothing the tasks share.
UdpSend ==
    /\ udpPc = "send"
    /\ udpPc' = "test" /\ buff' = <<>>
    /\ UdpUnchanged
    /\ UNCHANGED <<Flag_SendUDP, fep_dev_list_Sem, udpI, unreported>>

Udp == \/ UdpTest \/ UdpClear \/ UdpTake \/ UdpTimeout \/ UdpCopy \/ UdpGive \/ UdpSend

-------------------------------------------------------------------------------
Next == \/ TIM3_IRQHandler \/ UART4_Byte \/ UART4_Break
        \/ GetValue \/ Rs485 \/ Udp

Spec == Init /\ [][Next]_vars

-------------------------------------------------------------------------------
(***************************************************************************)
(* Properties.                                                             *)
(***************************************************************************)
\* Every variable holds a value of its C type.
TypeOK ==
    /\ Flag_GetData \in {INACTIVE, ACTIVE} /\ Flag_SendUDP \in {INACTIVE, ACTIVE}
    /\ fep_dev_list \in [Slots -> Devices]
    /\ fep_dev_list_Sem \in {"none", "getvalue", "rs485", "udp"}
    /\ data_buff \in [{3, 4} -> Cells]
    /\ queue \in Seq(Packets) /\ Len(queue) <= QueueSize
    /\ gvPc \in {"delay", "ask", "lock", "count", "give", "check", "off", "done", "signal"}
    /\ gvI \in Ports
    /\ rsPc \in {"receive", "lock", "load", "loadL", "data", "dataL",
                 "reset", "status", "give"}
    /\ packet \in Packets
    /\ reg \in [{3, 4} -> Cells]
    /\ udpPc \in {"test", "clear", "lock", "copy", "give", "send"}
    /\ udpI \in Ports
    /\ buff \in Seq(Entries)
    /\ unreported \in BOOLEAN
    /\ overtaken \in BOOLEAN /\ stored \in [Slots -> Cells \X Cells]

\* A task is between its take and its give exactly when it holds the mutex: a
\* take that times out skips the section and its give.
MutexHeldInSection ==
    /\ (fep_dev_list_Sem = "getvalue") <=> gvPc \in {"count", "give"}
    /\ (fep_dev_list_Sem = "rs485") <=> rsPc \notin {"receive", "lock"}
    /\ (fep_dev_list_Sem = "udp") <=> udpPc \in {"copy", "give"}

\* The verdict on slot s is still to come in the round that is running.
VerdictPending(s) ==
    \/ gvPc \in {"ask", "lock", "count"} /\ s < gvI
    \/ gvPc = "give" /\ s <= gvI
    \/ gvPc \in {"check", "off"} /\ s >= gvI

\* A device on line has missed at most MaxReceCount asks in a row; one more is
\* possible only in the round that is about to take it off line.  A device that
\* comes back is on line with its count already reset, although the count of a
\* device off line runs on, wraps and is reset in a separate access.
OnlineIsFresh ==
    \A s \in Ports : fep_dev_list[s].status = ACTIVE =>
        \/ fep_dev_list[s].rece_count <= MaxReceCount
        \/ fep_dev_list[s].rece_count = MaxReceCount + 1 /\ VerdictPending(s)

\* While SendGetValue composes a frame, the two bytes it has copied of a device are
\* those of the last answer stored to the end, never one of it and one of an answer
\* still being stored.  If no interrupt changed data_buff between the handler's first
\* load and last store, they stood in data_buff together; if one did, nothing in the
\* code keeps them from being bytes of two answers, and the list is taken as it is.
FrameReadingsWhole ==
    fep_dev_list_Sem = "udp" =>
        \A k \in 1 .. Len(buff) : <<buff[k].data, buff[k].dataL>> = stored[buff[k].slot]

\* The frame is complete for the slots it has passed, and names each device by the
\* number of its slot: an on-line device is never missing from the list being sent.
FrameComplete ==
    fep_dev_list_Sem = "udp" =>
        \A s \in Ports :
            (s < udpI \/ udpPc = "give") /\ fep_dev_list[s].status = ACTIVE =>
                \E k \in 1 .. Len(buff) : buff[k].slot = s /\ buff[k].dev_id = s

\* A completed round is never forgotten: until a frame is begun after it, the flag
\* is up or the UDP task is already on its way to the list.
NoRoundForgotten ==
    unreported => Flag_SendUDP = ACTIVE \/ udpPc \in {"clear", "lock"}

\* The devices as LinkMonitor sees them.  What it promises of every link is what the
\* tasks do: up only when heard, down only after a verdict for missed asks.
Monitor == INSTANCE LinkMonitor WITH
    Links     <- Ports,
    MaxMissed <- MaxReceCount,
    online    <- [s \in Ports |-> fep_dev_list[s].status = ACTIVE],
    missed    <- [s \in Ports |-> IF fep_dev_list[s].status = ACTIVE
                                    THEN fep_dev_list[s].rece_count ELSE 0],
    verdict   <- IF gvPc = "off" THEN gvI ELSE 0

LinksMonitored == Monitor!MSpec

\* A timer tick is answered: a round is run and a frame is sent after it, whatever
\* takes of the mutex time out on the way.
TickLeadsToFrame == (Flag_GetData = ACTIVE) ~> (udpPc = "send")

\* A device that is no longer heard goes off line for good.
SilentGoesOffline ==
    \A s \in Ports : \/ []<><<RsReset /\ packet.id = s>>_vars
                     \/ <>[](fep_dev_list[s].status = INACTIVE)
-------------------------------------------------------------------------------
(***************************************************************************)
(* What a comment says and the code does not do.                           *)
(***************************************************************************)
\* fep_rs485_getvalue.c:99 says a device is disconnected if it exceeds the allowed
\* number of packets: at that moment its count is over the limit.
DisconnectOnlyIfExceeded ==
    [][\A s \in Ports :
          fep_dev_list[s].status = ACTIVE /\ fep_dev_list'[s].status = INACTIVE =>
              fep_dev_list[s].rece_count > MaxReceCount]_vars
===============================================================================

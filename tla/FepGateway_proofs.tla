--------------------------- MODULE FepGateway_proofs ---------------------------
(***************************************************************************)
(* Theorems about FepGateway, for every number of ports, every set of ids  *)
(* and every limit.                                                        *)
(***************************************************************************)
EXTENDS FepGateway, SequenceTheorems, TLAPS

\* The handler is working on an answer, so the slot it writes is in the list.
AnswerInHand == rsPc # "receive" => packet \in Answers

\* Between the reset of the count and the write of the status no ask is counted.
CountStaysReset == rsPc = "status" => fep_dev_list[packet.id].rece_count = 0

\* The inductive invariant.
IInv == /\ TypeOK
        /\ MutexHeldInSection
        /\ AnswerInHand
        /\ CountStaysReset
        /\ OnlineIsFresh
        /\ NoRoundForgotten

-------------------------------------------------------------------------------
(***************************************************************************)
(* Types.                                                                  *)
(***************************************************************************)
LEMMA PortsInSlots == Ports \subseteq Slots /\ Ids \subseteq Slots /\ 1 \in Ports
BY PortsAssumption DEF Ports, Slots

LEMMA NextPort == ASSUME NEW i \in Ports, i < NPorts PROVE i + 1 \in Ports
BY PortsAssumption DEF Ports

\* Writing a field, or two, of a slot leaves the list well typed.
LEMMA WriteSlot ==
    ASSUME NEW f \in [Slots -> Devices], NEW s \in Slots
    PROVE  /\ \A x \in Slots : [f EXCEPT ![s].dev_id = x] \in [Slots -> Devices]
           /\ \A x \in {INACTIVE, ACTIVE} : [f EXCEPT ![s].status = x] \in [Slots -> Devices]
           /\ \A x \in Cells : [f EXCEPT ![s].dataL = x] \in [Slots -> Devices]
           /\ \A x \in 0 .. CountMod - 1 : [f EXCEPT ![s].rece_count = x] \in [Slots -> Devices]
           /\ \A x \in Cells : [f EXCEPT ![s].data = x] \in [Slots -> Devices]
<1>1. f[s] \in Devices
  OBVIOUS
<1>2. /\ \A x \in Slots : [f[s] EXCEPT !.dev_id = x] \in Devices
      /\ \A x \in {INACTIVE, ACTIVE} : [f[s] EXCEPT !.status = x] \in Devices
      /\ \A x \in Cells : [f[s] EXCEPT !.dataL = x] \in Devices
      /\ \A x \in 0 .. CountMod - 1 : [f[s] EXCEPT !.rece_count = x] \in Devices
  BY <1>1 DEF Devices
<1>3. \A x \in Cells : [f[s] EXCEPT !.data = x] \in Devices
  BY <1>1 DEF Devices
<1>4. \A d \in Devices : [f EXCEPT ![s] = d] \in [Slots -> Devices]
  OBVIOUS
<1> QED
  BY <1>2, <1>3, <1>4

LEMMA InitTypeOK == Init => TypeOK
<1> SUFFICES ASSUME Init PROVE TypeOK
  OBVIOUS
<1>1. NoDevice \in Devices
  BY CountAssumption, CellsAssumption DEF NoDevice, Devices, INACTIVE
<1>2. queue \in Seq(Packets) /\ Len(queue) <= QueueSize /\ buff \in Seq(Entries)
  BY EmptySeq, QueueAssumption DEF Init
<1>3. NoAnswer \in Packets
  BY DEF Packets
<1> QED
  BY <1>1, <1>2, <1>3, PortsInSlots, CellsAssumption DEF Init, TypeOK, INACTIVE, ACTIVE

\* The environment and the packet queue.
LEMMA TypeInterrupts ==
    ASSUME TypeOK, TIM3_IRQHandler \/ UART4_Byte \/ UART4_Break PROVE TypeOK'
<1>1. CASE TIM3_IRQHandler
  BY <1>1 DEF TypeOK, TIM3_IRQHandler, gvVars, rsVars, udpVars, readVars
<1>2. CASE UART4_Byte
  BY <1>2 DEF TypeOK, UART4_Byte, Overtakes, gvVars, rsVars, udpVars, fepVars
<1>3. CASE UART4_Break
  <2>1. PICK tmp \in Packets, c \in Cells :
          /\ data_buff' = [data_buff EXCEPT ![3] = data_buff[4], ![4] = c]
          /\ queue' = IF Len(queue) < QueueSize THEN Append(queue, tmp) ELSE queue
    BY <1>3 DEF UART4_Break
  <2>2. data_buff' \in [{3, 4} -> Cells]
    BY <2>1 DEF TypeOK
  <2>3. queue' \in Seq(Packets) /\ Len(queue') <= QueueSize
    BY <2>1, AppendProperties, LenProperties, QueueAssumption DEF TypeOK
  <2> QED
    BY <1>3, <2>2, <2>3 DEF TypeOK, UART4_Break, Overtakes, gvVars, rsVars, udpVars, fepVars
<1> QED BY <1>1, <1>2, <1>3

LEMMA TypeGetValue == ASSUME TypeOK, GetValue PROVE TypeOK'
<1> USE PortsInSlots, NextPort DEF TypeOK, GvUnchanged, rsVars, udpVars, readVars, fepVars, NextAsk, NextCheck
<1>1. CASE GvStart BY <1>1 DEF GvStart
<1>2. CASE GvAsk BY <1>2 DEF GvAsk
<1>3. CASE GvTake BY <1>3 DEF GvTake
<1>4. CASE GvTimeout BY <1>4 DEF GvTimeout
<1>5. CASE GvCount
  <2>1. (fep_dev_list[gvI].rece_count + 1) % CountMod \in 0 .. CountMod - 1
    BY CountAssumption DEF Devices
  <2>2. fep_dev_list' \in [Slots -> Devices]
    BY <1>5, <2>1, WriteSlot DEF GvCount
  <2> QED BY <1>5, <2>2 DEF GvCount
<1>6. CASE GvGive BY <1>6 DEF GvGive
<1>7. CASE GvCheck
  <2>1. fep_dev_list' \in [Slots -> Devices]
    BY <1>7, WriteSlot DEF GvCheck
  <2> QED BY <1>7, <2>1 DEF GvCheck
<1>8. CASE GvOff
  <2>1. fep_dev_list' \in [Slots -> Devices]
    BY <1>8, WriteSlot DEF GvOff
  <2> QED BY <1>8, <2>1 DEF GvOff
<1>9. CASE GvDone BY <1>9 DEF GvDone
<1>10. CASE GvSignal BY <1>10 DEF GvSignal
<1> QED BY <1>1, <1>2, <1>3, <1>4, <1>5, <1>6, <1>7, <1>8, <1>9, <1>10 DEF GetValue

LEMMA TypeRs485 == ASSUME TypeOK, AnswerInHand, Rs485 PROVE TypeOK'
<1> USE PortsInSlots DEF TypeOK, RsUnchanged, gvVars, udpVars, readVars, fepVars
<1>a. rsPc # "receive" => packet.id \in Slots
  BY DEF AnswerInHand, Answers
<1>1. CASE RsReceive
  <2>1. Head(queue) \in Packets /\ Tail(queue) \in Seq(Packets)
    BY <1>1, HeadTailProperties DEF RsReceive
  <2>2. Len(Tail(queue)) <= QueueSize
    BY <1>1, HeadTailProperties, QueueAssumption DEF RsReceive
  <2> QED BY <1>1, <2>1, <2>2 DEF RsReceive
<1>2. CASE RsTake
  <2>1. fep_dev_list' \in [Slots -> Devices]
    BY <1>2, <1>a, WriteSlot DEF RsTake
  <2> QED BY <1>2, <2>1 DEF RsTake
<1>3. CASE RsTimeout BY <1>3 DEF RsTimeout, Packets
<1>4. CASE RsLoad BY <1>4 DEF RsLoad
<1>5. CASE RsLoadL BY <1>5 DEF RsLoadL
<1>6. CASE RsData
  <2>1. PICK c \in Cells : fep_dev_list' = [fep_dev_list EXCEPT ![packet.id].data = c]
    BY <1>6 DEF RsData
  <2>2. packet.id \in Slots
    BY <1>6, <1>a DEF RsData
  <2>3. fep_dev_list' \in [Slots -> Devices]
    BY ONLY <2>1, <2>2, WriteSlot, fep_dev_list \in [Slots -> Devices]
  <2> QED BY <1>6, <2>3 DEF RsData
<1>7. CASE RsDataL
  <2>1. PICK c \in Cells :
          /\ fep_dev_list' = [fep_dev_list EXCEPT ![packet.id].dataL = c]
          /\ stored' = [stored EXCEPT ![packet.id] =
                            IF overtaken THEN <<fep_dev_list[packet.id].data, c>>
                                         ELSE <<data_buff[3], data_buff[4]>>]
    BY <1>7 DEF RsDataL
  <2>2. packet.id \in Slots
    BY <1>7, <1>a DEF RsDataL
  <2>3. fep_dev_list' \in [Slots -> Devices]
    BY ONLY <2>1, <2>2, WriteSlot, fep_dev_list \in [Slots -> Devices]
  <2>4. stored' \in [Slots -> Cells \X Cells]
    <3>1. fep_dev_list[packet.id].data \in Cells
      BY <2>2 DEF Devices
    <3> QED BY <2>1, <2>2, <3>1
  <2> QED BY <1>7, <2>3, <2>4 DEF RsDataL
<1>8. CASE RsReset
  <2>1. packet.id \in Slots /\ 0 \in 0 .. CountMod - 1
    BY <1>8, <1>a, CountAssumption DEF RsReset
  <2>2. fep_dev_list' \in [Slots -> Devices]
    BY <1>8, <2>1, WriteSlot DEF RsReset
  <2> QED BY <1>8, <2>2, CellsAssumption DEF RsReset
<1>9. CASE RsStatus
  <2>1. fep_dev_list' \in [Slots -> Devices]
    BY <1>9, <1>a, WriteSlot DEF RsStatus
  <2> QED BY <1>9, <2>1 DEF RsStatus
<1>10. CASE RsGive BY <1>10 DEF RsGive, Packets
<1> QED BY <1>1, <1>2, <1>3, <1>4, <1>5, <1>6, <1>7, <1>8, <1>9, <1>10 DEF Rs485

LEMMA TypeUdp == ASSUME TypeOK, Udp PROVE TypeOK'
<1> USE PortsInSlots, NextPort DEF TypeOK, UdpUnchanged, gvVars, rsVars, readVars, fepVars
<1>1. CASE UdpTest BY <1>1 DEF UdpTest
<1>2. CASE UdpClear BY <1>2 DEF UdpClear
<1>3. CASE UdpTake BY <1>3 DEF UdpTake
<1>4. CASE UdpTimeout BY <1>4 DEF UdpTimeout
<1>5. CASE UdpCopy
  <2> DEFINE dev == fep_dev_list[udpI]
             e == [slot |-> udpI, dev_id |-> dev.dev_id, data |-> dev.data, dataL |-> dev.dataL]
  <2>1. e \in Entries
    BY DEF Entries, Devices
  <2>2. buff' \in Seq(Entries)
    BY <1>5, <2>1, AppendProperties DEF UdpCopy
  <2> QED BY <1>5, <2>2 DEF UdpCopy
<1>6. CASE UdpGive BY <1>6 DEF UdpGive
<1>7. CASE UdpSend BY <1>7 DEF UdpSend
<1> QED BY <1>1, <1>2, <1>3, <1>4, <1>5, <1>6, <1>7 DEF Udp

LEMMA TypeStep == ASSUME TypeOK, AnswerInHand, [Next]_vars PROVE TypeOK'
<1>1. CASE UNCHANGED vars
  BY <1>1 DEF TypeOK, vars
<1> QED
  BY <1>1, TypeInterrupts, TypeGetValue, TypeRs485, TypeUdp DEF Next

LEMMA AnswerStep == ASSUME TypeOK, AnswerInHand, [Next]_vars PROVE AnswerInHand'
<1>1. CASE RsReceive
  <2>1. Head(queue) \in Packets
    BY <1>1, HeadTailProperties DEF RsReceive, TypeOK
  <2> QED BY <1>1, <2>1 DEF RsReceive, AnswerInHand, Packets, NoAnswer
<1>2. CASE Rs485 /\ ~RsReceive
  BY <1>2 DEF AnswerInHand, Rs485, RsTake, RsTimeout, RsLoad, RsLoadL, RsData, RsDataL,
              RsReset, RsStatus, RsGive
<1>3. CASE UNCHANGED <<rsPc, packet>>
  BY <1>3 DEF AnswerInHand
<1> QED
  BY <1>1, <1>2, <1>3
     DEF Next, GetValue, Udp, TIM3_IRQHandler, UART4_Byte, UART4_Break, vars, rsVars,
         GvUnchanged, GvStart, GvAsk, GvTake, GvTimeout, GvCount, GvGive, GvCheck, GvOff,
         GvDone, GvSignal, UdpUnchanged, UdpTest, UdpClear, UdpTake, UdpTimeout, UdpCopy,
         UdpGive, UdpSend

-------------------------------------------------------------------------------
(***************************************************************************)
(* The mutex.                                                              *)
(***************************************************************************)
LEMMA MutexStep ==
    ASSUME TypeOK, MutexHeldInSection, [Next]_vars PROVE MutexHeldInSection'
<1> USE DEF MutexHeldInSection
<1>1. CASE UNCHANGED <<fep_dev_list_Sem, gvPc, rsPc, udpPc>>
  BY <1>1
<1>2. CASE GetValue
  BY <1>2 DEF GetValue, GvUnchanged, NextAsk, NextCheck, GvStart, GvAsk, GvTake, GvTimeout,
              GvCount, GvGive, GvCheck, GvOff, GvDone, GvSignal, rsVars, udpVars
<1>3. CASE Rs485
  BY <1>3 DEF Rs485, RsUnchanged, RsReceive, RsTake, RsTimeout, RsLoad, RsLoadL, RsData,
              RsDataL, RsReset, RsStatus, RsGive, gvVars, udpVars
<1>4. CASE Udp
  BY <1>4 DEF Udp, UdpUnchanged, UdpTest, UdpClear, UdpTake, UdpTimeout, UdpCopy, UdpGive,
              UdpSend, gvVars, rsVars
<1> QED
  BY <1>1, <1>2, <1>3, <1>4
     DEF Next, TIM3_IRQHandler, UART4_Byte, UART4_Break, gvVars, rsVars, udpVars, vars

-------------------------------------------------------------------------------
(***************************************************************************)
(* Rounds.                                                                 *)
(***************************************************************************)
LEMMA RoundStep ==
    ASSUME NoRoundForgotten, [Next]_vars PROVE NoRoundForgotten'
<1> USE DEF NoRoundForgotten, ACTIVE
<1>1. CASE UNCHANGED <<Flag_SendUDP, udpPc, unreported>>
  BY <1>1
<1>2. CASE GvSignal
  BY <1>2 DEF GvSignal
<1>3. CASE Udp
  BY <1>3 DEF Udp, UdpTest, UdpClear, UdpTake, UdpTimeout, UdpCopy, UdpGive, UdpSend
<1> QED
  BY <1>1, <1>2, <1>3
     DEF Next, TIM3_IRQHandler, UART4_Byte, UART4_Break, vars, fepVars, udpVars, GetValue,
         GvUnchanged, GvStart, GvAsk, GvTake, GvTimeout, GvCount, GvGive, GvCheck, GvOff, GvDone,
         Rs485, RsUnchanged, RsReceive, RsTake, RsTimeout, RsLoad, RsLoadL, RsData, RsDataL,
         RsReset, RsStatus, RsGive

-------------------------------------------------------------------------------
(***************************************************************************)
(* Counts.                                                                 *)
(***************************************************************************)
\* What the writes of the handler do to the count and the status of a slot.
LEMMA Rs485Writes ==
    ASSUME TypeOK, AnswerInHand, Rs485, NEW s \in Slots
    PROVE  LET dev == fep_dev_list[s]
           IN  /\ dev'.rece_count # dev.rece_count => RsReset /\ s = packet.id /\ dev'.rece_count = 0
               /\ dev'.status # dev.status => RsStatus /\ s = packet.id
<1> USE DEF TypeOK, Devices
<1>0. rsPc # "receive" => packet.id \in Slots
  BY PortsInSlots DEF AnswerInHand, Answers
<1>1. CASE RsReceive \/ RsTimeout \/ RsLoad \/ RsLoadL \/ RsGive
  BY <1>1 DEF RsReceive, RsTimeout, RsLoad, RsLoadL, RsGive
<1>2. CASE RsTake   BY <1>0, <1>2 DEF RsTake
<1>3. CASE RsData   BY <1>0, <1>3 DEF RsData
<1>4. CASE RsDataL  BY <1>0, <1>4 DEF RsDataL
<1>5. CASE RsReset  BY <1>0, <1>5 DEF RsReset
<1>6. CASE RsStatus BY <1>0, <1>6 DEF RsStatus
<1> QED
  BY <1>1, <1>2, <1>3, <1>4, <1>5, <1>6 DEF Rs485

\* What the writes of the polling task do to them.
LEMMA GetValueWrites ==
    ASSUME TypeOK, GetValue, NEW s \in Slots
    PROVE  LET dev == fep_dev_list[s]
           IN  /\ dev'.rece_count # dev.rece_count =>
                     /\ GvCount /\ s = gvI
                     /\ dev'.rece_count = (dev.rece_count + 1) % CountMod
               /\ dev'.status # dev.status => GvOff /\ s = gvI /\ dev'.status = INACTIVE
<1> USE PortsInSlots DEF TypeOK, Devices
<1>1. CASE GvStart \/ GvAsk \/ GvTake \/ GvTimeout \/ GvGive \/ GvDone \/ GvSignal
  BY <1>1 DEF GvStart, GvAsk, GvTake, GvTimeout, GvGive, GvDone, GvSignal
<1>2. CASE GvCount BY <1>2 DEF GvCount
<1>3. CASE GvCheck BY <1>3 DEF GvCheck
<1>4. CASE GvOff   BY <1>4 DEF GvOff
<1> QED
  BY <1>1, <1>2, <1>3, <1>4 DEF GetValue

LEMMA ResetStep ==
    ASSUME TypeOK, MutexHeldInSection, AnswerInHand, CountStaysReset, [Next]_vars
    PROVE  CountStaysReset'
<1> SUFFICES ASSUME rsPc' = "status" PROVE (fep_dev_list[packet.id].rece_count)' = 0
  BY DEF CountStaysReset
<1>1. CASE RsReset
  <2>1. packet.id \in Slots
    BY <1>1, PortsInSlots DEF RsReset, AnswerInHand, Answers
  <2> QED BY <1>1, <2>1 DEF RsReset, TypeOK, Devices
<1>2. CASE rsPc = "status" /\ GetValue
  <2>1. packet.id \in Slots
    BY <1>2, PortsInSlots DEF AnswerInHand, Answers
  <2>2. ~GvCount
    BY <1>2 DEF MutexHeldInSection, GvCount
  <2>3. packet' = packet
    BY <1>2 DEF GetValue, GvUnchanged, GvStart, GvAsk, GvTake, GvTimeout, GvCount, GvGive,
                GvCheck, GvOff, GvDone, GvSignal, rsVars
  <2> QED BY <1>2, <2>1, <2>2, <2>3, GetValueWrites DEF CountStaysReset
<1>3. CASE rsPc = "status" /\ UNCHANGED <<fep_dev_list, packet>>
  BY <1>3 DEF CountStaysReset
<1>4. Rs485 => RsReset
  BY DEF Rs485, RsReceive, RsTake, RsTimeout, RsLoad, RsLoadL, RsData, RsDataL, RsReset,
         RsStatus, RsGive
<1>5. ~Rs485 => rsPc' = rsPc /\ packet' = packet
  BY DEF Next, GetValue, Udp, TIM3_IRQHandler, UART4_Byte, UART4_Break, vars, rsVars,
         GvUnchanged, GvStart, GvAsk, GvTake, GvTimeout, GvCount, GvGive, GvCheck, GvOff,
         GvDone, GvSignal, UdpUnchanged, UdpTest, UdpClear, UdpTake, UdpTimeout, UdpCopy,
         UdpGive, UdpSend
<1>6. ~Rs485 /\ ~GetValue => fep_dev_list' = fep_dev_list
  BY DEF Next, Udp, TIM3_IRQHandler, UART4_Byte, UART4_Break, vars, UdpUnchanged, UdpTest,
         UdpClear, UdpTake, UdpTimeout, UdpCopy, UdpGive, UdpSend
<1> QED
  BY <1>1, <1>2, <1>3, <1>4, <1>5, <1>6

\* The polling task moves on to a slot only when the slots before it are counted,
\* or judged.
LEMMA VerdictStep ==
    ASSUME TypeOK, GetValue, NEW s \in Ports, VerdictPending(s)
    PROVE  \/ VerdictPending(s)'
           \/ GvOff /\ s = gvI
           \/ GvCheck /\ s = gvI /\ fep_dev_list[s].rece_count <= MaxReceCount
<1>0. s \in Nat /\ gvI \in Nat /\ NPorts \in Nat /\ 1 <= s /\ s <= NPorts
  BY PortsAssumption DEF Ports, TypeOK
<1>1. fep_dev_list[s].rece_count \in Nat
  BY PortsInSlots, CountAssumption DEF TypeOK, Devices
<1> QED
  BY <1>0, <1>1, CountAssumption
     DEF VerdictPending, GetValue, NextAsk, NextCheck, GvStart, GvAsk, GvTake, GvTimeout,
         GvCount, GvGive, GvCheck, GvOff, GvDone, GvSignal

LEMMA FreshStep ==
    ASSUME TypeOK, AnswerInHand, CountStaysReset, OnlineIsFresh, [Next]_vars
    PROVE  OnlineIsFresh'
<1> SUFFICES ASSUME NEW s \in Ports, (fep_dev_list[s].status)' = ACTIVE
             PROVE  \/ (fep_dev_list[s].rece_count)' <= MaxReceCount
                    \/ /\ (fep_dev_list[s].rece_count)' = MaxReceCount + 1
                       /\ VerdictPending(s)'
  BY DEF OnlineIsFresh
<1> DEFINE dev == fep_dev_list[s]
<1>0. s \in Slots /\ dev.rece_count \in 0 .. CountMod - 1 /\ MaxReceCount \in Nat
  BY PortsInSlots, CountAssumption DEF TypeOK, Devices
<1>1. CASE GetValue
  <2>1. dev.status = ACTIVE
    BY <1>0, <1>1, GetValueWrites DEF INACTIVE, ACTIVE
  <2>2. dev.rece_count <= MaxReceCount \/ (dev.rece_count = MaxReceCount + 1 /\ VerdictPending(s))
    BY <2>1 DEF OnlineIsFresh
  <2>3. CASE dev'.rece_count # dev.rece_count
    <3>1. GvCount /\ s = gvI /\ dev'.rece_count = (dev.rece_count + 1) % CountMod
      BY <1>0, <1>1, <2>3, GetValueWrites
    <3>2. ~VerdictPending(s) /\ VerdictPending(s)'
      BY <3>1, PortsAssumption DEF GvCount, VerdictPending, Ports
    <3>3. dev.rece_count <= MaxReceCount /\ dev'.rece_count = dev.rece_count + 1
      BY <1>0, <2>2, <3>1, <3>2, CountAssumption
    <3> QED BY <1>0, <3>2, <3>3
  <2>4. CASE dev'.rece_count = dev.rece_count /\ dev.rece_count > MaxReceCount
    <3>1. VerdictPending(s)
      BY <1>0, <2>2, <2>4
    <3>2. ~(GvOff /\ s = gvI)
      BY <1>0 DEF GvOff, TypeOK, Devices, INACTIVE, ACTIVE
    <3>3. VerdictPending(s)'
      BY <1>0, <1>1, <2>4, <3>1, <3>2, VerdictStep
    <3> QED BY <1>0, <2>2, <2>4, <3>3
  <2> QED BY <1>0, <2>3, <2>4
<1>2. CASE Rs485
  <2>1. UNCHANGED <<gvPc, gvI>>
    BY <1>2 DEF Rs485, RsUnchanged, RsReceive, RsTake, RsTimeout, RsLoad, RsLoadL, RsData,
                RsDataL, RsReset, RsStatus, RsGive, gvVars
  <2>2. VerdictPending(s)' <=> VerdictPending(s)
    BY <2>1 DEF VerdictPending
  <2>3. dev'.rece_count = 0 \/ dev'.rece_count = dev.rece_count
    BY <1>0, <1>2, Rs485Writes
  <2>4. CASE dev.status = ACTIVE
    BY <1>0, <2>2, <2>3, <2>4 DEF OnlineIsFresh
  <2>5. CASE dev.status # ACTIVE
    <3>1. RsStatus /\ s = packet.id
      BY <1>0, <1>2, <2>5, Rs485Writes
    <3>2. dev.rece_count = 0
      BY <3>1 DEF RsStatus, CountStaysReset
    <3> QED BY <1>0, <2>3, <3>2
  <2> QED BY <2>4, <2>5
<1>3. CASE ~GetValue /\ ~Rs485
  <2>1. UNCHANGED <<fep_dev_list, gvPc, gvI>>
    BY <1>3 DEF Next, Udp, TIM3_IRQHandler, UART4_Byte, UART4_Break, vars, gvVars,
                UdpUnchanged, UdpTest, UdpClear, UdpTake, UdpTimeout, UdpCopy, UdpGive, UdpSend
  <2> QED BY <2>1 DEF OnlineIsFresh, VerdictPending
<1> QED
  BY <1>1, <1>2, <1>3

-------------------------------------------------------------------------------
(***************************************************************************)
(* Frames.                                                                 *)
(***************************************************************************)
\* The frame is empty when its composition begins.
FrameStartsEmpty == udpPc \in {"test", "clear", "lock"} => buff = <<>>

\* A device on line has the number of its slot, which is written when the handler
\* enters the section and before it sets the status.
NumberedBySlot ==
    /\ \A s \in Ports : fep_dev_list[s].status = ACTIVE => fep_dev_list[s].dev_id = s
    /\ rsPc \notin {"receive", "lock"} => fep_dev_list[packet.id].dev_id = packet.id

\* What the frame has copied of a device is still what the list says.
FrameReadingsCurrent ==
    fep_dev_list_Sem = "udp" =>
        \A k \in 1 .. Len(buff) :
            LET dev == fep_dev_list[buff[k].slot]
            IN  buff[k].dev_id = dev.dev_id /\ buff[k].data = dev.data /\ buff[k].dataL = dev.dataL

\* While the frame is composed nobody writes a reading or a number, and nobody comes
\* on line.
LEMMA ListFrozen ==
    ASSUME TypeOK, MutexHeldInSection, [Next]_vars, NEW s \in Slots,
           fep_dev_list_Sem = "udp"
    PROVE  LET dev == fep_dev_list[s]
           IN  /\ dev'.dev_id = dev.dev_id /\ dev'.data = dev.data /\ dev'.dataL = dev.dataL
               /\ dev'.status = ACTIVE => dev.status = ACTIVE
<1> USE PortsInSlots DEF TypeOK, Devices
<1>1. CASE GvCheck BY <1>1 DEF GvCheck
<1>2. CASE GvOff   BY <1>2 DEF GvOff, ACTIVE, INACTIVE
<1>3. ~GvCount
  BY DEF MutexHeldInSection, GvCount
<1>4. GetValue => GvCheck \/ GvOff \/ UNCHANGED fep_dev_list
  BY <1>3 DEF GetValue, GvStart, GvAsk, GvTake, GvTimeout, GvGive, GvDone, GvSignal
<1>5. Rs485 => UNCHANGED fep_dev_list
  BY DEF MutexHeldInSection, Rs485, RsReceive, RsTake, RsTimeout, RsLoad, RsLoadL, RsData,
         RsDataL, RsReset, RsStatus, RsGive
<1>6. ~GetValue /\ ~Rs485 => UNCHANGED fep_dev_list
  BY DEF Next, Udp, TIM3_IRQHandler, UART4_Byte, UART4_Break, vars, UdpUnchanged, UdpTest,
         UdpClear, UdpTake, UdpTimeout, UdpCopy, UdpGive, UdpSend
<1> QED
  BY <1>1, <1>2, <1>4, <1>5, <1>6

\* The steps that are not the UDP task's leave the frame alone.
LEMMA FrameOfUdp ==
    ASSUME [Next]_vars, ~Udp PROVE UNCHANGED udpVars
BY DEF Next, udpVars, TIM3_IRQHandler, UART4_Byte, UART4_Break, vars, GetValue, GvUnchanged,
       GvStart, GvAsk, GvTake, GvTimeout, GvCount, GvGive, GvCheck, GvOff, GvDone, GvSignal,
       Rs485, RsUnchanged, RsReceive, RsTake, RsTimeout, RsLoad, RsLoadL, RsData, RsDataL,
       RsReset, RsStatus, RsGive

LEMMA EmptyStep == ASSUME FrameStartsEmpty, [Next]_vars PROVE FrameStartsEmpty'
<1>1. CASE Udp
  BY <1>1 DEF FrameStartsEmpty, Udp, UdpTest, UdpClear, UdpTake, UdpTimeout, UdpCopy, UdpGive,
              UdpSend
<1>2. CASE ~Udp
  BY <1>2, FrameOfUdp DEF FrameStartsEmpty, udpVars
<1> QED BY <1>1, <1>2

\* What the handler and the polling task do to the number and the status of a slot.
LEMMA NumberWrites ==
    ASSUME TypeOK, AnswerInHand, [Next]_vars, NEW s \in Slots
    PROVE  LET dev == fep_dev_list[s]
           IN  /\ dev'.dev_id # dev.dev_id => RsTake /\ s = packet.id
               /\ RsTake /\ s = packet.id => dev'.dev_id = packet.id
               /\ dev'.status = ACTIVE /\ dev.status # ACTIVE => RsStatus /\ s = packet.id
<1> USE PortsInSlots DEF TypeOK, Devices
<1>0. rsPc # "receive" => packet.id \in Slots
  BY DEF AnswerInHand, Answers
<1>1. CASE Rs485
  <2>1. CASE RsReceive \/ RsTimeout \/ RsLoad \/ RsLoadL \/ RsGive
    BY <2>1 DEF RsReceive, RsTimeout, RsLoad, RsLoadL, RsGive, RsTake
  <2>2. CASE RsTake   BY <1>0, <2>2 DEF RsTake
  <2>3. CASE RsData   BY <1>0, <2>3 DEF RsData, RsTake
  <2>4. CASE RsDataL  BY <1>0, <2>4 DEF RsDataL, RsTake
  <2>5. CASE RsReset  BY <1>0, <2>5 DEF RsReset, RsTake
  <2>6. CASE RsStatus BY <1>0, <2>6 DEF RsStatus, RsTake
  <2> QED BY <1>1, <2>1, <2>2, <2>3, <2>4, <2>5, <2>6 DEF Rs485
<1>2. CASE GetValue
  <2>1. ~RsTake
    BY <1>2 DEF RsTake, GetValue, GvUnchanged, rsVars, GvStart, GvAsk, GvTake, GvTimeout,
                GvCount, GvGive, GvCheck, GvOff, GvDone, GvSignal
  <2>2. CASE GvCount BY <2>1, <2>2 DEF GvCount
  <2>3. CASE GvCheck BY <2>1, <2>3 DEF GvCheck
  <2>4. CASE GvOff   BY <2>1, <2>4 DEF GvOff, INACTIVE, ACTIVE
  <2>5. CASE UNCHANGED fep_dev_list
    BY <2>1, <2>5
  <2> QED
    BY <1>2, <2>2, <2>3, <2>4, <2>5
       DEF GetValue, GvStart, GvAsk, GvTake, GvTimeout, GvGive, GvDone, GvSignal
<1>3. CASE ~GetValue /\ ~Rs485
  <2>1. fep_dev_list' = fep_dev_list /\ ~RsTake
    BY <1>3 DEF Next, Udp, Rs485, TIM3_IRQHandler, UART4_Byte, UART4_Break, vars, UdpUnchanged,
                UdpTest, UdpClear, UdpTake, UdpTimeout, UdpCopy, UdpGive, UdpSend
  <2> QED BY <2>1
<1> QED BY <1>1, <1>2, <1>3

LEMMA NumberStep ==
    ASSUME TypeOK, AnswerInHand, NumberedBySlot, [Next]_vars PROVE NumberedBySlot'
<1>1. ASSUME NEW s \in Ports, (fep_dev_list[s].status)' = ACTIVE
      PROVE  (fep_dev_list[s].dev_id)' = s
  <2>1. s \in Slots BY PortsInSlots
  <2>2. fep_dev_list[s].dev_id = s \/ (RsTake /\ s = packet.id)
    BY <1>1, <2>1, NumberWrites DEF NumberedBySlot, RsStatus
  <2> QED BY <2>1, <2>2, NumberWrites
<1>2. ASSUME rsPc' \notin {"receive", "lock"}
      PROVE  (fep_dev_list[packet.id].dev_id)' = packet'.id
  <2>1. packet' = packet /\ rsPc # "receive" /\ (rsPc # "lock" \/ RsTake)
    BY <1>2 DEF Next, GetValue, Udp, TIM3_IRQHandler, UART4_Byte, UART4_Break, vars, rsVars,
         GvUnchanged, GvStart, GvAsk, GvTake, GvTimeout, GvCount, GvGive, GvCheck, GvOff,
         GvDone, GvSignal, UdpUnchanged, UdpTest, UdpClear, UdpTake, UdpTimeout, UdpCopy,
         UdpGive, UdpSend, Rs485, RsReceive, RsTake, RsTimeout, RsLoad, RsLoadL, RsData, RsDataL,
         RsReset, RsStatus, RsGive
  <2>2. packet.id \in Slots
    BY <2>1, PortsInSlots DEF AnswerInHand, Answers
  <2> QED BY <2>1, <2>2, NumberWrites DEF NumberedBySlot
<1> QED BY <1>1, <1>2 DEF NumberedBySlot

\* No other task's step takes the mutex for the UDP task.
LEMMA TakenByUdp ==
    ASSUME [Next]_vars, ~Udp, fep_dev_list_Sem' = "udp" PROVE fep_dev_list_Sem = "udp"
BY DEF Next, TIM3_IRQHandler, UART4_Byte, UART4_Break, vars, GetValue, GvStart, GvAsk, GvTake,
       GvTimeout, GvCount, GvGive, GvCheck, GvOff, GvDone, GvSignal, Rs485, RsReceive, RsTake,
       RsTimeout, RsLoad, RsLoadL, RsData, RsDataL, RsReset, RsStatus, RsGive

\* Of its own steps only the copy adds to the frame while the mutex is held.
LEMMA UdpInSection ==
    ASSUME MutexHeldInSection, Udp, fep_dev_list_Sem' = "udp"
    PROVE  /\ fep_dev_list' = fep_dev_list
           /\ \/ UdpTake
              \/ UdpCopy /\ fep_dev_list_Sem = "udp"
BY DEF MutexHeldInSection, Udp, UdpUnchanged, UdpTest, UdpClear, UdpTake, UdpTimeout, UdpCopy,
       UdpGive, UdpSend

\* What the copy of slot udpI does to the frame.
LEMMA CopyAppends ==
    ASSUME TypeOK, UdpCopy
    PROVE  LET dev == fep_dev_list[udpI]
               e == [slot |-> udpI, dev_id |-> dev.dev_id, data |-> dev.data, dataL |-> dev.dataL]
           IN  /\ Len(buff) \in Nat /\ Len(buff') \in Nat
               /\ dev.status # ACTIVE => buff' = buff
               /\ dev.status = ACTIVE =>
                     /\ Len(buff') = Len(buff) + 1 /\ buff'[Len(buff) + 1] = e
                     /\ \A k \in 1 .. Len(buff) : buff'[k] = buff[k]
<1> DEFINE dev == fep_dev_list[udpI]
           e == [slot |-> udpI, dev_id |-> dev.dev_id, data |-> dev.data, dataL |-> dev.dataL]
<1>1. e \in Entries /\ buff \in Seq(Entries)
  BY PortsInSlots DEF TypeOK, Entries, Devices
<1>2. Len(buff) \in Nat
  BY <1>1, LenProperties
<1>3. CASE dev.status # ACTIVE
  BY <1>2, <1>3 DEF UdpCopy
<1>4. CASE dev.status = ACTIVE
  <2>1. buff' = Append(buff, e)
    BY <1>4 DEF UdpCopy
  <2> QED BY <1>1, <1>2, <1>4, <2>1, AppendProperties
<1> QED BY <1>3, <1>4

LEMMA ReadingsStep ==
    ASSUME TypeOK, MutexHeldInSection, FrameStartsEmpty, FrameReadingsCurrent, [Next]_vars
    PROVE  FrameReadingsCurrent'
<1> SUFFICES ASSUME fep_dev_list_Sem' = "udp", NEW k \in 1 .. Len(buff')
             PROVE  LET dev == fep_dev_list'[buff'[k].slot]
                    IN  /\ buff'[k].dev_id = dev.dev_id /\ buff'[k].data = dev.data
                        /\ buff'[k].dataL = dev.dataL
  BY DEF FrameReadingsCurrent
<1>1. CASE UdpTake
  BY <1>1, EmptySeq DEF UdpTake, FrameStartsEmpty
<1>2. CASE UdpCopy /\ fep_dev_list_Sem = "udp" /\ fep_dev_list' = fep_dev_list
  <2>1. CASE fep_dev_list[udpI].status # ACTIVE
    BY <1>2, <2>1, CopyAppends DEF FrameReadingsCurrent
  <2>2. CASE fep_dev_list[udpI].status = ACTIVE
    <3>1. Len(buff) \in Nat /\ Len(buff') = Len(buff) + 1
      BY <1>2, <2>2, CopyAppends
    <3>2. CASE k = Len(buff) + 1
      BY <1>2, <2>2, <3>2, CopyAppends
    <3>3. CASE k # Len(buff) + 1
      <4>1. k \in 1 .. Len(buff)
        BY <3>1, <3>3
      <4>2. buff'[k] = buff[k]
        BY <1>2, <2>2, <4>1, CopyAppends
      <4> QED BY <1>2, <4>1, <4>2 DEF FrameReadingsCurrent
    <3> QED BY <3>2, <3>3
  <2> QED BY <2>1, <2>2
<1>3. CASE ~Udp
  <2>1. fep_dev_list_Sem = "udp" /\ buff' = buff
    BY <1>3, TakenByUdp, FrameOfUdp DEF udpVars
  <2>2. buff[k].slot \in Slots
    <3>1. buff \in Seq(Entries) /\ k \in 1 .. Len(buff)
      BY <2>1 DEF TypeOK
    <3>2. buff[k] \in Entries
      BY <3>1
    <3>3. buff[k].slot \in Ports
      BY <3>2 DEF Entries
    <3> QED BY <3>3, PortsInSlots
  <2> QED BY <2>1, <2>2, ListFrozen DEF FrameReadingsCurrent
<1> QED BY <1>1, <1>2, <1>3, UdpInSection

LEMMA CompleteStep ==
    ASSUME TypeOK, MutexHeldInSection, NumberedBySlot, FrameComplete, [Next]_vars
    PROVE  FrameComplete'
<1> SUFFICES ASSUME fep_dev_list_Sem' = "udp", NEW s \in Ports,
                    s < udpI' \/ udpPc' = "give", (fep_dev_list[s].status)' = ACTIVE
             PROVE  \E k \in 1 .. Len(buff') : buff'[k].slot = s /\ buff'[k].dev_id = s
  BY DEF FrameComplete
<1>0. s \in Nat /\ 1 <= s /\ s <= NPorts /\ udpI \in Nat /\ NPorts \in Nat /\ s \in Slots
  BY PortsAssumption, PortsInSlots DEF TypeOK, Ports
<1>1. CASE UdpTake
  BY <1>0, <1>1 DEF UdpTake
<1>2. CASE UdpCopy /\ fep_dev_list_Sem = "udp" /\ fep_dev_list' = fep_dev_list
  <2>1. s <= udpI
    BY <1>0, <1>2 DEF UdpCopy
  <2>2. CASE s = udpI
    <3>1. fep_dev_list[udpI].status = ACTIVE /\ fep_dev_list[udpI].dev_id = s
      BY <1>2, <2>2 DEF NumberedBySlot
    <3> QED BY <1>2, <2>2, <3>1, CopyAppends
  <2>3. CASE s < udpI
    <3>1. PICK k \in 1 .. Len(buff) : buff[k].slot = s /\ buff[k].dev_id = s
      BY <1>2, <2>3 DEF FrameComplete
    <3>2. k \in 1 .. Len(buff') /\ buff'[k] = buff[k]
      BY <1>2, CopyAppends
    <3> QED BY <3>1, <3>2
  <2> QED BY <1>0, <2>1, <2>2, <2>3
<1>3. CASE ~Udp
  <2>1. fep_dev_list_Sem = "udp" /\ UNCHANGED udpVars
    BY <1>3, TakenByUdp, FrameOfUdp
  <2>2. fep_dev_list[s].status = ACTIVE
    BY <1>0, <2>1, ListFrozen
  <2> QED BY <2>1, <2>2 DEF FrameComplete, udpVars
<1> QED BY <1>1, <1>2, <1>3, UdpInSection

-------------------------------------------------------------------------------
(***************************************************************************)
(* Readings.                                                               *)
(***************************************************************************)
\* A reading can only be overtaken while it is loaded and stored.
OvertakenMeanwhile == overtaken => rsPc \in {"loadL", "data", "dataL", "reset"}

\* As long as it is not, what has been loaded and stored of it is in data_buff.
LoadedWhole ==
    ~overtaken =>
        /\ rsPc \in {"loadL", "data"} => reg[3] = data_buff[3]
        /\ rsPc \in {"data", "dataL"} => reg[4] = data_buff[4]
        /\ rsPc = "dataL" => fep_dev_list[packet.id].data = data_buff[3]

\* The list differs from what is stored between the two stores of a reading only.
ListStored ==
    \A s \in Slots :
        \/ rsPc = "dataL" /\ s = packet.id
        \/ stored[s] = <<fep_dev_list[s].data, fep_dev_list[s].dataL>>

\* The two stores of the handler are the only writes of a reading.
LEMMA ReadingWrites ==
    ASSUME TypeOK, AnswerInHand, [Next]_vars, NEW s \in Slots
    PROVE  LET dev == fep_dev_list[s]
           IN  /\ dev'.data # dev.data => RsData /\ s = packet.id
               /\ dev'.dataL # dev.dataL => RsDataL /\ s = packet.id
<1> USE PortsInSlots DEF TypeOK, Devices
<1>0. rsPc # "receive" => packet.id \in Slots
  BY DEF AnswerInHand, Answers
<1>1. CASE Rs485
  <2>1. CASE RsReceive \/ RsTimeout \/ RsLoad \/ RsLoadL \/ RsGive
    BY <2>1 DEF RsReceive, RsTimeout, RsLoad, RsLoadL, RsGive
  <2>2. CASE RsTake   BY <1>0, <2>2 DEF RsTake
  <2>3. CASE RsData
    <3>1. PICK c : fep_dev_list' = [fep_dev_list EXCEPT ![packet.id].data = c]
      BY <2>3 DEF RsData
    <3>2. fep_dev_list'[s].dataL = fep_dev_list[s].dataL
      BY <3>1
    <3>3. s # packet.id => fep_dev_list'[s] = fep_dev_list[s]
      BY <3>1
    <3> QED BY <2>3, <3>2, <3>3
  <2>4. CASE RsDataL
    <3>1. PICK c : fep_dev_list' = [fep_dev_list EXCEPT ![packet.id].dataL = c]
      BY <2>4 DEF RsDataL
    <3>2. fep_dev_list'[s].data = fep_dev_list[s].data
      BY <3>1
    <3>3. s # packet.id => fep_dev_list'[s] = fep_dev_list[s]
      BY <3>1
    <3> QED BY <2>4, <3>2, <3>3
  <2>5. CASE RsReset  BY <1>0, <2>5 DEF RsReset
  <2>6. CASE RsStatus BY <1>0, <2>6 DEF RsStatus
  <2> QED BY <1>1, <2>1, <2>2, <2>3, <2>4, <2>5, <2>6 DEF Rs485
<1>2. CASE GetValue
  <2>1. CASE GvCount BY <2>1 DEF GvCount
  <2>2. CASE GvCheck BY <2>2 DEF GvCheck
  <2>3. CASE GvOff   BY <2>3 DEF GvOff
  <2>4. CASE UNCHANGED fep_dev_list
    BY <2>4
  <2> QED
    BY <1>2, <2>1, <2>2, <2>3, <2>4
       DEF GetValue, GvStart, GvAsk, GvTake, GvTimeout, GvGive, GvDone, GvSignal
<1>3. CASE ~GetValue /\ ~Rs485
  <2>1. fep_dev_list' = fep_dev_list
    BY <1>3 DEF Next, Udp, TIM3_IRQHandler, UART4_Byte, UART4_Break, vars, UdpUnchanged,
                UdpTest, UdpClear, UdpTake, UdpTimeout, UdpCopy, UdpGive, UdpSend
  <2> QED BY <2>1
<1> QED BY <1>1, <1>2, <1>3

\* Only the handler moves the handler and files a reading as stored.
LEMMA HandlerAlone ==
    ASSUME [Next]_vars, ~Rs485
    PROVE  /\ UNCHANGED <<rsPc, packet, reg, stored>>
           /\ \/ UNCHANGED <<data_buff, overtaken>>
              \/ Overtakes
BY DEF Next, TIM3_IRQHandler, UART4_Byte, UART4_Break, vars, rsVars, readVars, Overtakes,
       GetValue, GvUnchanged, GvStart, GvAsk, GvTake, GvTimeout, GvCount, GvGive, GvCheck,
       GvOff, GvDone, GvSignal, Udp, UdpUnchanged, UdpTest, UdpClear, UdpTake, UdpTimeout,
       UdpCopy, UdpGive, UdpSend

LEMMA OvertakenStep == ASSUME OvertakenMeanwhile, [Next]_vars PROVE OvertakenMeanwhile'
<1> USE DEF OvertakenMeanwhile
<1>1. CASE Rs485
  BY <1>1 DEF Rs485, readVars, RsReceive, RsTake, RsTimeout, RsLoad, RsLoadL, RsData, RsDataL,
              RsReset, RsStatus, RsGive
<1>2. CASE ~Rs485
  BY <1>2, HandlerAlone DEF Overtakes
<1> QED BY <1>1, <1>2

LEMMA LoadedStep ==
    ASSUME TypeOK, AnswerInHand, OvertakenMeanwhile, LoadedWhole, [Next]_vars
    PROVE  LoadedWhole'
<1> SUFFICES ASSUME ~overtaken'
             PROVE  /\ rsPc' \in {"loadL", "data"} => reg'[3] = data_buff'[3]
                    /\ rsPc' \in {"data", "dataL"} => reg'[4] = data_buff'[4]
                    /\ rsPc' = "dataL" => (fep_dev_list[packet.id].data)' = data_buff'[3]
  BY DEF LoadedWhole
<1>0. reg \in [{3, 4} -> Cells] /\ data_buff \in [{3, 4} -> Cells]
  BY DEF TypeOK
<1>1. CASE RsLoad  BY <1>0, <1>1 DEF RsLoad
<1>2. CASE RsLoadL BY <1>0, <1>1, <1>2 DEF RsLoadL, readVars, LoadedWhole
<1>3. CASE RsData
  <2>1. ~overtaken /\ rsPc = "data" /\ rsPc' = "dataL" /\ UNCHANGED <<data_buff, packet, reg>>
    BY <1>3 DEF RsData, readVars
  <2>2. reg[3] = data_buff[3] /\ reg[4] = data_buff[4]
    BY <2>1 DEF LoadedWhole
  <2>3. fep_dev_list' = [fep_dev_list EXCEPT ![packet.id].data = data_buff[3]]
    BY <1>3, <2>2 DEF RsData
  <2>4. packet.id \in Slots
    BY <2>1, PortsInSlots DEF AnswerInHand, Answers
  <2>5. (fep_dev_list[packet.id].data)' = data_buff[3]
    BY <2>1, <2>3, <2>4 DEF TypeOK, Devices
  <2> QED BY <2>1, <2>2, <2>5
<1>4. CASE Rs485 /\ ~RsLoad /\ ~RsLoadL /\ ~RsData
  BY <1>4 DEF Rs485, RsReceive, RsTake, RsTimeout, RsDataL, RsReset, RsStatus, RsGive
<1>5. CASE ~Rs485 /\ rsPc \in {"loadL", "data", "dataL"}
  <2>0. overtaken \in BOOLEAN
    BY DEF TypeOK
  <2>1. ~overtaken /\ UNCHANGED <<rsPc, packet, reg, data_buff>>
    BY <1>5, <2>0, HandlerAlone, Zenon DEF Overtakes
  <2>2. packet.id \in Slots
    BY <1>5, PortsInSlots DEF AnswerInHand, Answers
  <2>3. (fep_dev_list[packet.id].data)' = fep_dev_list[packet.id].data
    BY <1>5, <2>1, <2>2, ReadingWrites DEF Rs485
  <2> QED BY <2>1, <2>3 DEF LoadedWhole
<1>6. CASE ~Rs485 /\ rsPc \notin {"loadL", "data", "dataL"}
  BY <1>6, HandlerAlone
<1> QED BY <1>1, <1>2, <1>3, <1>4, <1>5, <1>6

LEMMA StoredStep ==
    ASSUME TypeOK, AnswerInHand, LoadedWhole, ListStored, [Next]_vars PROVE ListStored'
<1> SUFFICES ASSUME NEW s \in Slots, ~(rsPc' = "dataL" /\ s = packet'.id)
             PROVE  stored'[s] = <<fep_dev_list'[s].data, fep_dev_list'[s].dataL>>
  BY DEF ListStored
<1>1. CASE RsDataL /\ s = packet.id
  <2>1. PICK c \in {reg[4], data_buff[4]} :
          /\ fep_dev_list' = [fep_dev_list EXCEPT ![packet.id].dataL = c]
          /\ stored' = [stored EXCEPT ![packet.id] =
                            IF overtaken THEN <<fep_dev_list[packet.id].data, c>>
                                         ELSE <<data_buff[3], data_buff[4]>>]
    BY <1>1 DEF RsDataL
  <2>2. fep_dev_list'[s].data = fep_dev_list[s].data /\ fep_dev_list'[s].dataL = c
    BY <1>1, <2>1 DEF TypeOK, Devices
  <2>3. stored'[s] = IF overtaken THEN <<fep_dev_list[s].data, c>>
                                  ELSE <<data_buff[3], data_buff[4]>>
    BY <1>1, <2>1 DEF TypeOK
  <2>4. ~overtaken => fep_dev_list[s].data = data_buff[3] /\ c = data_buff[4]
    BY <1>1, <2>1 DEF RsDataL, LoadedWhole
  <2> QED BY <2>2, <2>3, <2>4
<1>2. CASE RsDataL /\ s # packet.id
  <2>1. stored'[s] = stored[s]
    BY <1>2 DEF RsDataL, TypeOK
  <2>2. fep_dev_list'[s] = fep_dev_list[s]
    BY <1>2 DEF RsDataL, TypeOK
  <2> QED BY <1>2, <2>1, <2>2 DEF ListStored
<1>3. CASE ~RsDataL
  <2>1. stored' = stored
    BY <1>3, HandlerAlone DEF Rs485, readVars, RsReceive, RsTake, RsTimeout, RsLoad, RsLoadL,
                              RsData, RsReset, RsStatus, RsGive
  <2>2. ~(RsData /\ s = packet.id)
    BY DEF RsData
  <2>3. fep_dev_list'[s].data = fep_dev_list[s].data /\ fep_dev_list'[s].dataL = fep_dev_list[s].dataL
    BY <1>3, <2>2, ReadingWrites
  <2>4. ~(rsPc = "dataL" /\ s = packet.id)
    BY <1>3, HandlerAlone DEF Rs485, RsReceive, RsTake, RsTimeout, RsLoad, RsLoadL, RsData,
                              RsReset, RsStatus, RsGive
  <2> QED BY <2>1, <2>3, <2>4 DEF ListStored
<1> QED BY <1>1, <1>2, <1>3

\* While the UDP task has the mutex the handler is not between its two stores, so the
\* frame, which agrees with the list, agrees with what is stored.
LEMMA FrameStored ==
    ASSUME TypeOK, MutexHeldInSection, FrameReadingsCurrent, ListStored
    PROVE  FrameReadingsWhole
<1> SUFFICES ASSUME fep_dev_list_Sem = "udp", NEW k \in 1 .. Len(buff)
             PROVE  <<buff[k].data, buff[k].dataL>> = stored[buff[k].slot]
  BY DEF FrameReadingsWhole
<1>1. rsPc # "dataL"
  BY DEF MutexHeldInSection
<1>2. buff[k].slot \in Slots
  <2>1. buff \in Seq(Entries)
    BY DEF TypeOK
  <2>2. buff[k] \in Entries
    BY <2>1
  <2>3. buff[k].slot \in Ports
    BY <2>2 DEF Entries
  <2> QED BY <2>3, PortsInSlots
<1>3. stored[buff[k].slot] = <<fep_dev_list[buff[k].slot].data, fep_dev_list[buff[k].slot].dataL>>
  BY <1>1, <1>2 DEF ListStored
<1> QED BY <1>3 DEF FrameReadingsCurrent

-------------------------------------------------------------------------------
(***************************************************************************)
(* The theorems.                                                           *)
(***************************************************************************)
LEMMA InitIInv == Init => IInv
<1> SUFFICES ASSUME Init PROVE IInv
  OBVIOUS
<1>1. \A s \in Ports : fep_dev_list[s].status # ACTIVE
  BY PortsInSlots DEF Init, NoDevice, INACTIVE, ACTIVE
<1> QED
  BY <1>1, InitTypeOK
     DEF Init, IInv, MutexHeldInSection, AnswerInHand, CountStaysReset, OnlineIsFresh,
         NoRoundForgotten

LEMMA StepIInv == IInv /\ [Next]_vars => IInv'
BY TypeStep, MutexStep, AnswerStep, ResetStep, FreshStep, RoundStep DEF IInv

LEMMA SpecIInv == Spec => []IInv
BY InitIInv, StepIInv, PTL DEF Spec

\* Every variable keeps a value of its C type: the queue keeps to its size, the
\* counts to eight bits, the loop indices to the ports.
THEOREM TypeCorrect == Spec => []TypeOK
<1>1. IInv => TypeOK BY DEF IInv
<1> QED BY <1>1, SpecIInv, PTL

\* A task is in its section on the list exactly while it holds fep_dev_list_Sem.
THEOREM MutexCorrect == Spec => []MutexHeldInSection
<1>1. IInv => MutexHeldInSection BY DEF IInv
<1> QED BY <1>1, SpecIInv, PTL

\* A device on line has missed at most MaxReceCount asks, or one more in the round
\* that is about to take it off line.
THEOREM OnlineFresh == Spec => []OnlineIsFresh
<1>1. IInv => OnlineIsFresh BY DEF IInv
<1> QED BY <1>1, SpecIInv, PTL

\* A completed round is never forgotten.
THEOREM NoRoundLost == Spec => []NoRoundForgotten
<1>1. IInv => NoRoundForgotten BY DEF IInv
<1> QED BY <1>1, SpecIInv, PTL

\* The inductive invariants of the frame and of the readings.
FInv == FrameStartsEmpty /\ NumberedBySlot /\ FrameReadingsCurrent /\ FrameComplete
RInv == OvertakenMeanwhile /\ LoadedWhole /\ ListStored

LEMMA InitFInv == Init => FInv
<1> SUFFICES ASSUME Init PROVE FInv
  OBVIOUS
<1>1. \A s \in Ports : fep_dev_list[s].status # ACTIVE
  BY PortsInSlots DEF Init, NoDevice, INACTIVE, ACTIVE
<1> QED
  BY <1>1 DEF Init, FInv, FrameStartsEmpty, NumberedBySlot, FrameReadingsCurrent, FrameComplete

LEMMA StepFInv == IInv /\ FInv /\ [Next]_vars => FInv'
BY EmptyStep, NumberStep, ReadingsStep, CompleteStep DEF IInv, FInv

LEMMA SpecFInv == Spec => []FInv
BY InitFInv, StepFInv, SpecIInv, PTL DEF Spec

LEMMA InitRInv == Init => RInv
BY DEF Init, RInv, OvertakenMeanwhile, LoadedWhole, ListStored, NoDevice

LEMMA StepRInv == IInv /\ RInv /\ [Next]_vars => RInv'
BY OvertakenStep, LoadedStep, StoredStep DEF IInv, RInv

LEMMA SpecRInv == Spec => []RInv
BY InitRInv, StepRInv, SpecIInv, PTL DEF Spec

\* The two bytes of a device in the frame that is being composed are those of the last
\* answer of it that has been stored to the end; they stood in data_buff together
\* unless an interrupt changed data_buff while the handler loaded and stored them.
THEOREM ReadingsWhole == Spec => []FrameReadingsWhole
<1>1. IInv /\ FInv /\ RInv => FrameReadingsWhole
  BY FrameStored DEF IInv, FInv, RInv
<1> QED BY <1>1, SpecIInv, SpecFInv, SpecRInv, PTL

\* The frame has an entry for every device on line among the slots it has passed.
THEOREM FramesComplete == Spec => []FrameComplete
<1>1. FInv => FrameComplete BY DEF FInv
<1> QED BY <1>1, SpecFInv, PTL

-------------------------------------------------------------------------------
(***************************************************************************)
(* FepGateway implements LinkMonitor, for every number of ports and every  *)
(* limit.                                                                  *)
(***************************************************************************)
online  == [s \in Ports |-> fep_dev_list[s].status = ACTIVE]
missed  == [s \in Ports |-> IF fep_dev_list[s].status = ACTIVE
                              THEN fep_dev_list[s].rece_count ELSE 0]
verdict == IF gvPc = "off" THEN gvI ELSE 0

\* A step that changes neither what the monitor sees of the list nor the verdict.
LEMMA LinksUnchanged ==
    ASSUME online' = online, missed' = missed, verdict' = verdict
    PROVE  UNCHANGED Monitor!mvars
BY DEF online, missed, verdict, Monitor!mvars

LEMMA LinkHear ==
    ASSUME NEW l \in Ports, verdict' = verdict,
           (fep_dev_list[l].status)' = ACTIVE, (fep_dev_list[l].rece_count)' = 0,
           \A s \in Ports : s # l => UNCHANGED <<fep_dev_list[s].status, fep_dev_list[s].rece_count>>
    PROVE  Monitor!Hear(l)
<1>1. online' = [online EXCEPT ![l] = TRUE]
  BY DEF online
<1>2. missed' = [missed EXCEPT ![l] = 0]
  BY DEF missed
<1> QED BY <1>1, <1>2 DEF Monitor!Hear, online, missed, verdict

LEMMA LinkMiss ==
    ASSUME NEW l \in Ports, verdict = 0, verdict' = 0,
           fep_dev_list[l].status = ACTIVE, (fep_dev_list[l].status)' = ACTIVE,
           fep_dev_list[l].rece_count <= MaxReceCount,
           (fep_dev_list[l].rece_count)' = fep_dev_list[l].rece_count + 1,
           \A s \in Ports : s # l => UNCHANGED <<fep_dev_list[s].status, fep_dev_list[s].rece_count>>
    PROVE  Monitor!Miss(l)
<1>1. online[l] /\ online' = online
  BY DEF online
<1>2. missed[l] <= MaxReceCount /\ missed' = [missed EXCEPT ![l] = @ + 1]
  BY DEF missed
<1> QED BY <1>1, <1>2 DEF Monitor!Miss, online, missed, verdict

LEMMA LinkCondemn ==
    ASSUME NEW l \in Ports, verdict = 0, verdict' = l, fep_dev_list' = fep_dev_list,
           fep_dev_list[l].status = ACTIVE => fep_dev_list[l].rece_count = MaxReceCount + 1
    PROVE  Monitor!Condemn(l)
<1>1. UNCHANGED <<online, missed>>
  BY DEF online, missed
<1>2. online[l] => missed[l] = MaxReceCount + 1
  BY DEF online, missed
<1> QED BY <1>1, <1>2 DEF Monitor!Condemn, online, missed, verdict

LEMMA LinkDrop ==
    ASSUME NEW l \in Ports, verdict = l, verdict' = 0, (fep_dev_list[l].status)' # ACTIVE,
           \A s \in Ports : s # l => UNCHANGED <<fep_dev_list[s].status, fep_dev_list[s].rece_count>>
    PROVE  Monitor!Drop(l)
<1>1. online' = [online EXCEPT ![l] = FALSE]
  BY DEF online
<1>2. missed' = [missed EXCEPT ![l] = 0]
  BY DEF missed
<1> QED BY <1>1, <1>2 DEF Monitor!Drop, online, missed, verdict

-------------------------------------------------------------------------------
(***************************************************************************)
(* The steps of the three tasks.                                           *)
(***************************************************************************)
\* The interrupts and the UDP task touch nothing that the monitor sees.
LEMMA OtherSteps ==
    ASSUME [Next]_vars, ~GetValue, ~Rs485 PROVE UNCHANGED Monitor!mvars
<1>1. UNCHANGED <<fep_dev_list, gvPc, gvI>>
  BY DEF Next, Udp, TIM3_IRQHandler, UART4_Byte, UART4_Break, vars, gvVars, UdpUnchanged,
         UdpTest, UdpClear, UdpTake, UdpTimeout, UdpCopy, UdpGive, UdpSend
<1> QED BY <1>1, LinksUnchanged DEF online, missed, verdict

LEMMA GetValueMonitored ==
    ASSUME IInv, GetValue PROVE [Monitor!MNext]_(Monitor!mvars)
<1> USE DEF IInv
<1>0. gvI \in Ports /\ gvI \in Slots /\ gvI # 0 /\ fep_dev_list[gvI] \in Devices
      /\ fep_dev_list \in [Slots -> Devices]
  BY PortsInSlots, PortsAssumption DEF TypeOK, Ports
<1>l. PICK l \in Ports : l = gvI
  BY <1>0
<1>1. CASE GvCount
  <2>1. /\ verdict = 0 /\ verdict' = 0
        /\ \A s \in Ports : s # gvI => fep_dev_list'[s] = fep_dev_list[s]
        /\ fep_dev_list'[gvI].status = fep_dev_list[gvI].status
        /\ fep_dev_list'[gvI].rece_count = (fep_dev_list[gvI].rece_count + 1) % CountMod
    BY <1>0, <1>1, PortsInSlots DEF GvCount, verdict, Devices
  <2>2. CASE fep_dev_list[gvI].status = ACTIVE
    <3>1. fep_dev_list[gvI].rece_count <= MaxReceCount
      BY <1>0, <1>1, <2>2 DEF OnlineIsFresh, VerdictPending, GvCount, Ports
    <3>2. fep_dev_list'[gvI].rece_count = fep_dev_list[gvI].rece_count + 1
      BY <1>0, <2>1, <3>1, CountAssumption DEF Devices
    <3>3. Monitor!Miss(l)
      BY <1>l, <1>0, <2>1, <2>2, <3>1, <3>2, LinkMiss
    <3> QED BY <3>3 DEF Monitor!MNext
  <2>3. CASE fep_dev_list[gvI].status # ACTIVE
    <3>1. online' = online /\ missed' = missed
      BY <2>1, <2>3 DEF online, missed
    <3> QED BY <2>1, <3>1, LinksUnchanged
  <2> QED BY <2>2, <2>3
<1>2. CASE GvCheck
  <2>1. fep_dev_list' = fep_dev_list /\ verdict = 0
    BY <1>2 DEF GvCheck, verdict
  <2>2. CASE fep_dev_list[gvI].rece_count > MaxReceCount
    <3>1. verdict' = gvI
      BY <1>2, <2>2 DEF GvCheck, verdict
    <3>2. fep_dev_list[gvI].status = ACTIVE => fep_dev_list[gvI].rece_count = MaxReceCount + 1
      BY <1>0, <2>2, CountAssumption DEF OnlineIsFresh, Devices
    <3>3. Monitor!Condemn(l)
      BY <1>l, <1>0, <2>1, <3>1, <3>2, LinkCondemn
    <3> QED BY <3>3 DEF Monitor!MNext
  <2>3. CASE ~(fep_dev_list[gvI].rece_count > MaxReceCount)
    <3>1. verdict' = 0
      BY <1>2, <2>3 DEF GvCheck, NextCheck, verdict
    <3> QED BY <2>1, <3>1, LinksUnchanged DEF online, missed
  <2> QED BY <2>2, <2>3
<1>3. CASE GvOff
  <2>1. /\ verdict = gvI /\ verdict' = 0
        /\ \A s \in Ports : s # gvI => fep_dev_list'[s] = fep_dev_list[s]
        /\ fep_dev_list'[gvI].status = INACTIVE
    BY <1>0, <1>3, PortsInSlots DEF GvOff, NextCheck, verdict, Devices
  <2>2. Monitor!Drop(l)
    BY <1>l, <1>0, <2>1, LinkDrop DEF INACTIVE, ACTIVE
  <2> QED BY <2>2 DEF Monitor!MNext
<1>4. CASE GvStart \/ GvAsk \/ GvTake \/ GvTimeout \/ GvGive \/ GvDone \/ GvSignal
  <2>1. fep_dev_list' = fep_dev_list /\ verdict = 0 /\ verdict' = 0
    BY <1>4 DEF GvStart, GvAsk, GvTake, GvTimeout, GvGive, GvDone, GvSignal, NextAsk, verdict
  <2> QED BY <2>1, LinksUnchanged DEF online, missed
<1> QED BY <1>1, <1>2, <1>3, <1>4 DEF GetValue

LEMMA Rs485Monitored ==
    ASSUME IInv, Rs485 PROVE [Monitor!MNext]_(Monitor!mvars)
<1> USE DEF IInv
<1>0. verdict' = verdict /\ Ports \subseteq Slots
  BY PortsInSlots
     DEF verdict, Rs485, RsUnchanged, gvVars, RsReceive, RsTake, RsTimeout, RsLoad, RsLoadL,
         RsData, RsDataL, RsReset, RsStatus, RsGive
<1>1. rsPc # "receive" => packet.id \in Slots
  BY PortsInSlots DEF AnswerInHand, Answers
<1>2. CASE RsReset
  <2>1. /\ \A s \in Ports : s # packet.id => fep_dev_list'[s] = fep_dev_list[s]
        /\ fep_dev_list'[packet.id].rece_count = 0
        /\ fep_dev_list'[packet.id].status = fep_dev_list[packet.id].status
    BY <1>0, <1>1, <1>2 DEF RsReset, TypeOK, Devices
  <2>2. CASE packet.id \in Ports /\ fep_dev_list[packet.id].status = ACTIVE
    <3>1. PICK l \in Ports : l = packet.id
      BY <2>2
    <3>2. Monitor!Hear(l)
      BY <1>0, <2>1, <2>2, <3>1, LinkHear
    <3> QED BY <3>2 DEF Monitor!MNext
  <2>3. CASE ~(packet.id \in Ports /\ fep_dev_list[packet.id].status = ACTIVE)
    <3>1. online' = online /\ missed' = missed
      BY <2>1, <2>3 DEF online, missed
    <3> QED BY <1>0, <3>1, LinksUnchanged
  <2> QED BY <2>2, <2>3
<1>3. CASE RsStatus
  <2>1. /\ \A s \in Ports : s # packet.id => fep_dev_list'[s] = fep_dev_list[s]
        /\ fep_dev_list'[packet.id].rece_count = 0
        /\ fep_dev_list'[packet.id].status = ACTIVE
    BY <1>0, <1>1, <1>3 DEF RsStatus, CountStaysReset, TypeOK, Devices
  <2>2. CASE packet.id \in Ports
    <3>1. PICK l \in Ports : l = packet.id
      BY <2>2
    <3>2. Monitor!Hear(l)
      BY <1>0, <2>1, <2>2, <3>1, LinkHear
    <3> QED BY <3>2 DEF Monitor!MNext
  <2>3. CASE packet.id \notin Ports
    <3>1. online' = online /\ missed' = missed
      BY <2>1, <2>3 DEF online, missed
    <3> QED BY <1>0, <3>1, LinksUnchanged
  <2> QED BY <2>2, <2>3
<1>4. CASE ~RsReset /\ ~RsStatus
  <2>1. \A s \in Ports : UNCHANGED <<fep_dev_list[s].status, fep_dev_list[s].rece_count>>
    BY <1>0, <1>4, Rs485Writes
  <2>2. online' = online /\ missed' = missed
    BY <2>1 DEF online, missed
  <2> QED BY <1>0, <2>2, LinksUnchanged
<1> QED BY <1>2, <1>3, <1>4

-------------------------------------------------------------------------------
LEMMA InitMonitored == Init => Monitor!MInit
<1> SUFFICES ASSUME Init PROVE Monitor!MInit
  OBVIOUS
<1>1. \A s \in Ports : fep_dev_list[s].status # ACTIVE
  BY PortsInSlots DEF Init, NoDevice, INACTIVE, ACTIVE
<1>2. gvPc # "off"
  BY DEF Init
<1> QED BY <1>1, <1>2 DEF Monitor!MInit

\* The list implements LinkMonitor: a link comes up only when its device is heard and
\* goes down only after a verdict for MaxReceCount + 1 missed asks, whatever the
\* interleaving of the three tasks.
THEOREM LinksAreMonitored == Spec => LinksMonitored
<1>1. IInv /\ [Next]_vars => [Monitor!MNext]_(Monitor!mvars)
  BY GetValueMonitored, Rs485Monitored, OtherSteps
<1> QED BY <1>1, InitMonitored, SpecIInv, PTL DEF Spec, LinksMonitored, Monitor!MSpec
===============================================================================

----------------------------- MODULE FepUdp_proofs -----------------------------
(***************************************************************************)
(* recvfrom never waits, and the gateway with its socket implements        *)
(* FepGateway and so has what FepGateway has, for every size of the        *)
(* mailbox, whoever sends.                                                 *)
(***************************************************************************)
EXTENDS FepUdp, SequenceTheorems, TLAPS

Fetched == IF udpPc = "minus" THEN 1 ELSE 0
Posted  == IF tcpipPc = "event" THEN 1 ELSE 0

\* The count lags behind the mailbox: by a datagram that is posted and not yet
\* counted, and by one that is taken and still counted.  A task that has seen a
\* datagram counted, and has not taken it off the count, is covered by the count.
CountLags ==
    /\ recvmbox \in Seq(Datagrams) /\ rcvevent \in Nat
    /\ tcpipPc \in {"idle", "event"}
    /\ rcvevent + Posted = Len(recvmbox) + Fetched
    /\ udpPc \in {"fetch", "minus"} => rcvevent > 0

-------------------------------------------------------------------------------
LEMMA InitCountLags == UInit => CountLags
BY DEF UInit, Init, CountLags, Fetched, Posted

\* Nobody but the task itself moves the task.
LEMMA OthersKeepTask == Others => UNCHANGED udpPc
BY DEF Others, TIM3_IRQHandler, UART4_Byte, UART4_Break, udpVars,
       GetValue, GvUnchanged, GvStart, GvAsk, GvTake, GvTimeout, GvCount, GvGive, GvCheck,
       GvOff, GvDone, GvSignal,
       Rs485, RsUnchanged, RsReceive, RsTake, RsTimeout, RsLoad, RsLoadL, RsData, RsDataL,
       RsReset, RsStatus, RsGive

\* What the task does for a frame is far from recvfrom.
LEMMA SendKeepsCount ==
    Send => udpPc \notin {"fetch", "minus"} /\ udpPc' \notin {"fetch", "minus"}
BY DEF Send, UdpTest, UdpClear, UdpTake, UdpTimeout, UdpCopy, UdpGive

LEMMA StepCountLags == ASSUME CountLags, [UNext]_uvars PROVE CountLags'
<1> USE DEF CountLags, Fetched, Posted
<1>1. CASE Others /\ UNCHANGED sockVars
  BY <1>1, OthersKeepTask DEF sockVars
<1>2. CASE Send /\ UNCHANGED sockVars
  BY <1>2, SendKeepsCount DEF sockVars
<1>3. CASE NothingToSend \/ SendFrame \/ Recv \/ SendFindMasterReturn
  BY <1>3 DEF NothingToSend, SendFrame, Recv, SendFindMasterReturn, TaskGoes, sockVars
<1>4. CASE Fetch
  <2>1. /\ recvmbox # <<>> /\ recvmbox' = Tail(recvmbox)
        /\ udpPc = "fetch" /\ udpPc' = "minus" /\ UNCHANGED <<rcvevent, tcpipPc>>
    BY <1>4 DEF Fetch, TaskGoes
  <2>2. recvmbox' \in Seq(Datagrams) /\ Len(recvmbox') = Len(recvmbox) - 1
    BY <2>1, HeadTailProperties
  <2>3. Len(recvmbox) \in Nat /\ Posted \in Nat /\ Posted' = Posted /\ Fetched = 0 /\ Fetched' = 1
    BY <2>1, LenProperties
  <2> HIDE DEF Fetched, Posted
  <2>4. rcvevent' + Posted' = Len(recvmbox') + Fetched'
    BY <2>1, <2>2, <2>3
  <2> QED BY <2>1, <2>2, <2>4
<1>5. CASE RcvMinus
  BY <1>5 DEF RcvMinus, TaskGoes
<1>6. CASE RecvUdp
  <2>1. PICK d \in Datagrams : recvmbox' = Append(recvmbox, d)
    BY <1>6 DEF RecvUdp
  <2>2. recvmbox' \in Seq(Datagrams) /\ Len(recvmbox') = Len(recvmbox) + 1
    BY <2>1, AppendProperties
  <2>3. tcpipPc = "idle" /\ tcpipPc' = "event" /\ UNCHANGED <<rcvevent, udpPc>>
    BY <1>6 DEF RecvUdp, vars
  <2> QED BY <2>2, <2>3
<1>7. CASE RcvPlus
  BY <1>7 DEF RcvPlus, vars
<1>8. CASE UNCHANGED uvars
  BY <1>8 DEF uvars, vars, sockVars
<1> QED BY <1>1, <1>2, <1>3, <1>4, <1>5, <1>6, <1>7, <1>8 DEF UNext, Task

\* When recvfrom goes to the mailbox there is a datagram in it, whatever the tcpip
\* thread does between the look at the count and the wait: FEP_UDP_Handler is never
\* held up by a network on which nobody speaks.
THEOREM RecvNeverWaits == USpec => []NeverWaits
<1>1. CountLags => NeverWaits
  BY DEF CountLags, NeverWaits, Fetched, Posted
<1> QED BY <1>1, InitCountLags, StepCountLags, PTL DEF USpec

-------------------------------------------------------------------------------
(***************************************************************************)
(* The refinement.  A step of the socket is a stutter of FepGateway, every *)
(* other step is the step of the same name.                                *)
(***************************************************************************)
LEMMA InitImplements == UInit => Abstract!Init
BY DEF UInit, Init, Abstract!Init, RecvSteps, NoDevice, Abstract!NoDevice, Slots, Abstract!Slots,
       Ports, Abstract!Ports, INACTIVE, Abstract!INACTIVE, NoAnswer, Abstract!NoAnswer

LEMMA InterruptsImplement ==
    /\ TIM3_IRQHandler => Abstract!TIM3_IRQHandler
    /\ UART4_Byte => Abstract!UART4_Byte
    /\ UART4_Break => Abstract!UART4_Break
<1> USE DEF fepVars, gvVars, rsVars, udpVars, readVars, Overtakes, Abstract!fepVars,
            Abstract!gvVars, Abstract!rsVars, Abstract!udpVars, Abstract!readVars, Abstract!Overtakes
<1>1. TIM3_IRQHandler => Abstract!TIM3_IRQHandler
  BY DEF TIM3_IRQHandler, Abstract!TIM3_IRQHandler, ACTIVE, Abstract!ACTIVE
<1>2. UART4_Byte => Abstract!UART4_Byte
  BY DEF UART4_Byte, Abstract!UART4_Byte
<1>3. UART4_Break => Abstract!UART4_Break
  BY DEF UART4_Break, Abstract!UART4_Break, Packets, Answers, NoAnswer,
         Abstract!Packets, Abstract!Answers, Abstract!NoAnswer
<1> QED BY <1>1, <1>2, <1>3

LEMMA GetValueImplements == GetValue => Abstract!GetValue
<1> USE DEF GvUnchanged, Abstract!GvUnchanged, NextAsk, Abstract!NextAsk,
            NextCheck, Abstract!NextCheck, INACTIVE, Abstract!INACTIVE, ACTIVE, Abstract!ACTIVE,
            fepVars, rsVars, udpVars, readVars,
            Abstract!fepVars, Abstract!rsVars, Abstract!udpVars, Abstract!readVars
<1>1. GvStart => Abstract!GvStart BY DEF GvStart, Abstract!GvStart
<1>2. GvAsk => Abstract!GvAsk BY DEF GvAsk, Abstract!GvAsk
<1>3. GvTake => Abstract!GvTake BY DEF GvTake, Abstract!GvTake
<1>4. GvTimeout => Abstract!GvTimeout BY DEF GvTimeout, Abstract!GvTimeout
<1>5. GvCount => Abstract!GvCount BY DEF GvCount, Abstract!GvCount
<1>6. GvGive => Abstract!GvGive BY DEF GvGive, Abstract!GvGive
<1>7. GvCheck => Abstract!GvCheck BY DEF GvCheck, Abstract!GvCheck
<1>8. GvOff => Abstract!GvOff BY DEF GvOff, Abstract!GvOff
<1>9. GvDone => Abstract!GvDone BY DEF GvDone, Abstract!GvDone
<1>10. GvSignal => Abstract!GvSignal BY DEF GvSignal, Abstract!GvSignal
<1> QED BY <1>1, <1>2, <1>3, <1>4, <1>5, <1>6, <1>7, <1>8, <1>9, <1>10
        DEF GetValue, Abstract!GetValue

LEMMA Rs485Implements == Rs485 => Abstract!Rs485
<1> USE DEF RsUnchanged, Abstract!RsUnchanged, INACTIVE, Abstract!INACTIVE,
            ACTIVE, Abstract!ACTIVE, NoAnswer, Abstract!NoAnswer,
            fepVars, gvVars, udpVars, readVars,
            Abstract!fepVars, Abstract!gvVars, Abstract!udpVars, Abstract!readVars
<1>1. RsReceive => Abstract!RsReceive BY DEF RsReceive, Abstract!RsReceive
<1>2. RsTake => Abstract!RsTake BY DEF RsTake, Abstract!RsTake
<1>3. RsTimeout => Abstract!RsTimeout BY DEF RsTimeout, Abstract!RsTimeout
<1>4. RsLoad => Abstract!RsLoad BY DEF RsLoad, Abstract!RsLoad
<1>5. RsLoadL => Abstract!RsLoadL BY DEF RsLoadL, Abstract!RsLoadL
<1>6. RsData => Abstract!RsData BY DEF RsData, Abstract!RsData
<1>7. RsDataL => Abstract!RsDataL BY DEF RsDataL, Abstract!RsDataL
<1>8. RsReset => Abstract!RsReset BY DEF RsReset, Abstract!RsReset
<1>9. RsStatus => Abstract!RsStatus BY DEF RsStatus, Abstract!RsStatus
<1>10. RsGive => Abstract!RsGive BY DEF RsGive, Abstract!RsGive
<1> QED BY <1>1, <1>2, <1>3, <1>4, <1>5, <1>6, <1>7, <1>8, <1>9, <1>10
        DEF Rs485, Abstract!Rs485

LEMMA SendImplements == Send => Abstract!Udp
<1> USE DEF UdpUnchanged, Abstract!UdpUnchanged, INACTIVE, Abstract!INACTIVE,
            ACTIVE, Abstract!ACTIVE, gvVars, rsVars, readVars,
            Abstract!gvVars, Abstract!rsVars, Abstract!readVars, RecvSteps
<1>1. UdpTest => Abstract!UdpTest BY DEF UdpTest, Abstract!UdpTest
<1>2. UdpClear => Abstract!UdpClear BY DEF UdpClear, Abstract!UdpClear
<1>3. UdpTake => Abstract!UdpTake BY DEF UdpTake, Abstract!UdpTake
<1>4. UdpTimeout => Abstract!UdpTimeout BY DEF UdpTimeout, Abstract!UdpTimeout
<1>5. UdpCopy => Abstract!UdpCopy BY DEF UdpCopy, Abstract!UdpCopy
<1>6. UdpGive => Abstract!UdpGive BY DEF UdpGive, Abstract!UdpGive
<1> QED BY <1>1, <1>2, <1>3, <1>4, <1>5, <1>6 DEF Send, Abstract!Udp

LEMMA SendFrameImplements == SendFrame => Abstract!UdpSend
BY DEF SendFrame, TaskGoes, UdpUnchanged, gvVars, rsVars, readVars, RecvSteps, Abstract!UdpSend,
       Abstract!UdpUnchanged, Abstract!gvVars, Abstract!rsVars, Abstract!readVars

LEMMA SocketStutters ==
    NothingToSend \/ Recv \/ Fetch \/ RcvMinus \/ SendFindMasterReturn
        => UNCHANGED Abstract!vars
BY DEF NothingToSend, Recv, Fetch, RcvMinus, SendFindMasterReturn, TaskGoes, UdpUnchanged,
       gvVars, rsVars, readVars, RecvSteps, Abstract!vars

LEMMA TcpipStutters ==
    RecvUdp \/ RcvPlus \/ UNCHANGED uvars => UNCHANGED Abstract!vars
BY DEF RecvUdp, RcvPlus, uvars, vars, Abstract!vars

LEMMA StepImplements == [UNext]_uvars => [Abstract!Next]_(Abstract!vars)
BY InterruptsImplement, GetValueImplements, Rs485Implements, SendImplements,
   SendFrameImplements, SocketStutters, TcpipStutters
   DEF UNext, Others, Task, Abstract!Next, Abstract!Udp

\* FEP_UDP_Handler with its socket, its datagrams and the tcpip thread is still the
\* task of FepGateway, and so everything proved of FepGateway holds of it.
THEOREM SocketImplements == USpec => ImplementsGateway
BY InitImplements, StepImplements, PTL DEF USpec, ImplementsGateway, Abstract!Spec

-------------------------------------------------------------------------------
(***************************************************************************)
(* What is proved of FepGateway, for the gateway with its socket.  Proved  *)
(* is Abstract once more, with the theorems about it.                      *)
(***************************************************************************)
Proved == INSTANCE FepGateway_proofs WITH
    udpPc <- IF udpPc \in RecvSteps THEN "test" ELSE udpPc

LEMMA SameType == Abstract!TypeOK <=> Proved!TypeOK
BY Zenon DEF Abstract!TypeOK, Proved!TypeOK, Abstract!Devices, Proved!Devices,
             Abstract!Packets, Proved!Packets, Abstract!Answers, Proved!Answers,
             Abstract!NoAnswer, Proved!NoAnswer, Abstract!Entries, Proved!Entries,
             Abstract!Slots, Proved!Slots, Abstract!Ports, Proved!Ports,
             Abstract!ACTIVE, Proved!ACTIVE, Abstract!INACTIVE, Proved!INACTIVE

LEMMA SameInit == Abstract!Init <=> Proved!Init
BY Zenon DEF Abstract!Init, Proved!Init, Abstract!NoDevice, Proved!NoDevice,
             Abstract!NoAnswer, Proved!NoAnswer, Abstract!Slots, Proved!Slots,
             Abstract!Ports, Proved!Ports, Abstract!INACTIVE, Proved!INACTIVE

LEMMA SameNext == Abstract!Next <=> Proved!Next
<1>1. Abstract!GetValue <=> Proved!GetValue
  BY Zenon DEF Abstract!GetValue, Proved!GetValue, Abstract!GvUnchanged, Proved!GvUnchanged,
               Abstract!NextAsk, Proved!NextAsk, Abstract!NextCheck, Proved!NextCheck,
               Abstract!GvStart, Proved!GvStart, Abstract!GvAsk, Proved!GvAsk,
               Abstract!GvTake, Proved!GvTake, Abstract!GvTimeout, Proved!GvTimeout,
               Abstract!GvCount, Proved!GvCount, Abstract!GvGive, Proved!GvGive,
               Abstract!GvCheck, Proved!GvCheck, Abstract!GvOff, Proved!GvOff,
               Abstract!GvDone, Proved!GvDone, Abstract!GvSignal, Proved!GvSignal,
               Abstract!fepVars, Proved!fepVars, Abstract!rsVars, Proved!rsVars,
               Abstract!udpVars, Proved!udpVars, Abstract!readVars, Proved!readVars,
               Abstract!ACTIVE, Proved!ACTIVE, Abstract!INACTIVE, Proved!INACTIVE
<1>2. Abstract!Rs485 <=> Proved!Rs485
  BY Zenon DEF Abstract!Rs485, Proved!Rs485, Abstract!RsUnchanged, Proved!RsUnchanged,
               Abstract!RsReceive, Proved!RsReceive, Abstract!RsTake, Proved!RsTake,
               Abstract!RsTimeout, Proved!RsTimeout, Abstract!RsLoad, Proved!RsLoad,
               Abstract!RsLoadL, Proved!RsLoadL, Abstract!RsData, Proved!RsData,
               Abstract!RsDataL, Proved!RsDataL, Abstract!RsReset, Proved!RsReset,
               Abstract!RsStatus, Proved!RsStatus, Abstract!RsGive, Proved!RsGive,
               Abstract!fepVars, Proved!fepVars, Abstract!gvVars, Proved!gvVars,
               Abstract!udpVars, Proved!udpVars, Abstract!readVars, Proved!readVars,
               Abstract!ACTIVE, Proved!ACTIVE, Abstract!INACTIVE, Proved!INACTIVE, Abstract!NoAnswer, Proved!NoAnswer
<1>3. Abstract!Udp <=> Proved!Udp
  BY Zenon DEF Abstract!Udp, Proved!Udp, Abstract!UdpUnchanged, Proved!UdpUnchanged,
               Abstract!UdpTest, Proved!UdpTest, Abstract!UdpClear, Proved!UdpClear,
               Abstract!UdpTake, Proved!UdpTake, Abstract!UdpTimeout, Proved!UdpTimeout,
               Abstract!UdpCopy, Proved!UdpCopy, Abstract!UdpGive, Proved!UdpGive,
               Abstract!UdpSend, Proved!UdpSend, Abstract!gvVars, Proved!gvVars,
               Abstract!rsVars, Proved!rsVars, Abstract!readVars, Proved!readVars,
               Abstract!ACTIVE, Proved!ACTIVE, Abstract!INACTIVE, Proved!INACTIVE
<1>4. /\ Abstract!TIM3_IRQHandler <=> Proved!TIM3_IRQHandler
      /\ Abstract!UART4_Byte <=> Proved!UART4_Byte
      /\ Abstract!UART4_Break <=> Proved!UART4_Break
  BY Zenon DEF Abstract!TIM3_IRQHandler, Proved!TIM3_IRQHandler,
               Abstract!UART4_Byte, Proved!UART4_Byte, Abstract!UART4_Break, Proved!UART4_Break,
               Abstract!fepVars, Proved!fepVars, Abstract!gvVars, Proved!gvVars,
               Abstract!rsVars, Proved!rsVars, Abstract!udpVars, Proved!udpVars,
               Abstract!readVars, Proved!readVars, Abstract!Overtakes, Proved!Overtakes,
               Abstract!ACTIVE, Proved!ACTIVE, Abstract!Packets, Proved!Packets,
               Abstract!Answers, Proved!Answers, Abstract!NoAnswer, Proved!NoAnswer
<1> QED BY <1>1, <1>2, <1>3, <1>4, Zenon DEF Abstract!Next, Proved!Next

LEMMA SocketProved == USpec => Proved!Spec
<1>1. [Abstract!Next]_(Abstract!vars) => [Proved!Next]_(Proved!vars)
  BY SameNext DEF Abstract!vars, Proved!vars
<1> QED BY SocketImplements, SameInit, <1>1, PTL DEF ImplementsGateway, Abstract!Spec, Proved!Spec

\* The assumptions of FepGateway are its own: the socket adds none to them.
LEMMA SocketGateway == USpec => [](Proved!IInv /\ Proved!FrameComplete /\ Proved!FrameReadingsWhole)
BY SocketProved, Proved!SpecIInv, Proved!FramesComplete, Proved!ReadingsWhole, PortsAssumption, CountAssumption,
   QueueAssumption, CellsAssumption, PTL

\* A datagram is taken from the mailbox whole, and its sender is a host.
SocketVarsOK ==
    /\ server_addr \in Hosts /\ buf \in Datagrams \cup {NoBuf}
    /\ recvmbox \in Seq(Datagrams) /\ Len(recvmbox) <= MboxSize

LEMMA StepSocketVars == ASSUME SocketVarsOK, [UNext]_uvars PROVE SocketVarsOK'
<1> USE DEF SocketVarsOK
<1>1. CASE UNCHANGED sockVars
  BY <1>1 DEF sockVars
<1>2. CASE Fetch
  <2>1. /\ recvmbox # <<>> /\ buf' = Head(recvmbox) /\ recvmbox' = Tail(recvmbox)
        /\ server_addr' = server_addr
    BY <1>2 DEF Fetch
  <2>2. /\ Head(recvmbox) \in Datagrams /\ Tail(recvmbox) \in Seq(Datagrams)
        /\ Len(Tail(recvmbox)) = Len(recvmbox) - 1 /\ Len(recvmbox) \in Nat
    BY <2>1, HeadTailProperties, LenProperties
  <2> QED BY <2>1, <2>2, SocketAssumption
<1>3. CASE RcvMinus
  <2>1. buf.from \in Hosts
    BY SocketAssumption DEF NoBuf
  <2> QED BY <1>3, <2>1 DEF RcvMinus
<1>4. CASE RecvUdp
  <2>1. PICK d \in Datagrams : recvmbox' = Append(recvmbox, d)
    BY <1>4 DEF RecvUdp
  <2>2. /\ recvmbox' \in Seq(Datagrams) /\ Len(recvmbox') = Len(recvmbox) + 1
        /\ Len(recvmbox) \in Nat
    BY <2>1, AppendProperties, LenProperties
  <2>3. Len(recvmbox) < MboxSize /\ UNCHANGED <<server_addr, buf>>
    BY <1>4 DEF RecvUdp
  <2> QED BY <2>2, <2>3, SocketAssumption
<1>5. CASE RcvPlus
  BY <1>5 DEF RcvPlus
<1> QED BY <1>1, <1>2, <1>3, <1>4, <1>5
        DEF UNext, Task, NothingToSend, SendFrame, Recv, SendFindMasterReturn, uvars

\* The gateway, its socket and the mailbox keep their types, whatever comes in: a
\* frame only ever goes to a host, and the mailbox never holds more than it has room for.
THEOREM SocketTypeCorrect == USpec => []SocketTypeOK
<1>1. UInit => SocketVarsOK
  BY SocketAssumption, EmptySeq DEF UInit, SocketVarsOK
<1>2. USpec => []SocketVarsOK
  BY <1>1, StepSocketVars, PTL DEF USpec
<1>3. USpec => []CountLags
  BY InitCountLags, StepCountLags, PTL DEF USpec
<1>4. Proved!IInv /\ CountLags /\ SocketVarsOK => SocketTypeOK
  <2> SUFFICES ASSUME Proved!IInv, CountLags, SocketVarsOK PROVE SocketTypeOK
    OBVIOUS
  <2>1. Abstract!TypeOK
    BY SameType DEF Proved!IInv
  <2>2. udpPc \in {"test", "clear", "lock", "copy", "give", "send"} \cup RecvSteps
    BY <2>1 DEF Abstract!TypeOK
  <2> QED BY <2>1, <2>2 DEF CountLags, SocketVarsOK, SocketTypeOK
<1> QED BY SocketGateway, <1>2, <1>3, <1>4, PTL

\* With its socket the gateway keeps what it keeps without: the mutex belongs to who is
\* in its section, a device on line is fresh, no round is forgotten, and the frame that
\* is being composed under the mutex lacks no device of the slots it has passed and has
\* of each the reading that was last stored to the end (of which FrameReadingsWhole says
\* when it is one answer's).
THEOREM SocketKeepsGateway ==
    USpec => [](MutexHeldInSection /\ OnlineIsFresh /\ NoRoundForgotten
                  /\ FrameReadingsWhole /\ FrameComplete)
<1> USE DEF RecvSteps
<1>1. Proved!MutexHeldInSection => MutexHeldInSection
  BY DEF MutexHeldInSection, Proved!MutexHeldInSection
<1>2. Proved!OnlineIsFresh => OnlineIsFresh
  BY DEF OnlineIsFresh, Proved!OnlineIsFresh, VerdictPending, Proved!VerdictPending,
         Ports, Proved!Ports, ACTIVE, Proved!ACTIVE
<1>3. Proved!NoRoundForgotten => NoRoundForgotten
  BY DEF NoRoundForgotten, Proved!NoRoundForgotten, ACTIVE, Proved!ACTIVE
<1>4. Proved!FrameReadingsWhole => FrameReadingsWhole
  BY Zenon DEF FrameReadingsWhole, Proved!FrameReadingsWhole
<1>5. Proved!FrameComplete => FrameComplete
  BY DEF FrameComplete, Proved!FrameComplete, Ports, Proved!Ports, ACTIVE, Proved!ACTIVE
<1>6. Proved!IInv /\ Proved!FrameComplete /\ Proved!FrameReadingsWhole =>
         /\ MutexHeldInSection /\ OnlineIsFresh /\ NoRoundForgotten
         /\ FrameReadingsWhole /\ FrameComplete
  BY <1>1, <1>2, <1>3, <1>4, <1>5 DEF Proved!IInv
<1> QED BY SocketGateway, <1>6, PTL
===============================================================================

---------------------------- MODULE EthLink_proofs ----------------------------
(***************************************************************************)
(* The safety properties of EthLink, for every size of the buzzer's queue  *)
(* and however often the link changes.                                     *)
(***************************************************************************)
EXTENDS EthLink, SequenceTheorems, TLAPS

\* The interrupt of the PHY is enabled one step before its line.
LineFollows == intEn => extiEn \/ mainPc = "exti"

\* The link task is created at the end of ETH_BSP_Config.
NoTaskYet ==
    mainPc \in {"linked", "negotiated", "status", "phyit", "exti", "sem"} => taskPc = "none"

\* The command carried out last when nobody sends another one is an OFF, unless the
\* last OFF was lost or somebody is still to send one.
EndsOn == IF BuzzerQueue = <<>> THEN pin ELSE BuzzerQueue[Len(BuzzerQueue)] = "on"
EndsSilent == EndsOn => offLost \/ mainPc = "beepOff" \/ taskPc = "beepOff"

\* A start-up during which the link does not change: what the main task has found out
\* by then is still so, and the link task finds nothing to do.
Started ==
    /\ mainPc \in {"linked", "negotiated"} => ~initOk
    /\ mainPc = "negotiated" => link
    /\ mainPc \notin {"linked", "negotiated"} => (initOk <=> link)
    /\ mainPc \notin {"linked", "negotiated", "status"} => (linkFlag <=> link)
    /\ mainPc \notin {"linked", "negotiated", "status", "phyit"} => ~misr
    /\ taskPc \in {"none", "wait", "misr"}
    /\ mainPc \in {"flags", "callback"} => started
    /\ mainPc = "flags" => ~linkUp
    /\ mainPc = "callback" => (linkUp <=> link) /\ (ifUp <=> link)

\* After it the interface follows the flag of the link, but for the steps of the
\* callback ...
Coherent ==
    /\ callback
    /\ taskPc \in {"read", "maccr", "start"} => linkUp
    /\ taskPc = "stop" => ~linkUp
    /\ taskPc \notin {"read", "maccr", "start", "stop"} => (ifUp <=> linkUp) /\ (linkUp => started)

\* ... and the flag, or what the task is about to make of it, is the state of the link,
\* unless the latch is set or the task is still to read the state.
Current ==
    ~misr => /\ taskPc = "up" => link
             /\ taskPc = "down" => ~link
             /\ taskPc \notin {"up", "down", "sr"} => (linkUp <=> link)

Starting == mainPc \notin {"beep", "beepOff", "done"}
Following == steady => IF Starting THEN Started ELSE Coherent /\ Current

IInv == TypeOK /\ LineFollows /\ NoLinkEventLost /\ NoTaskYet /\ EndsSilent /\ Following

-------------------------------------------------------------------------------
(***************************************************************************)
(* The buzzer.                                                             *)
(***************************************************************************)
LEMMA BuzzerQueueOK ==
    ASSUME TypeOK,
           BuzzerServe \/ (\E command \in Commands : Send(command)) \/ UNCHANGED BuzzerQueue
    PROVE  BuzzerQueue' \in Seq(Commands) /\ Len(BuzzerQueue') <= BuzzerQueueSize
BY BuzzerAssumption DEF TypeOK, BuzzerServe, Serve, LifeOver, Send

LEMMA SendOn == ASSUME TypeOK, Send("on") PROVE UNCHANGED <<pin, busy, offLost>>
BY DEF Send

\* A command that is carried out does not change how the queue ends.
LEMMA ServeEnds == ASSUME TypeOK, BuzzerServe PROVE (EndsOn' <=> EndsOn) /\ offLost' = offLost
<1>1. CASE Serve
  <2>1. BuzzerQueue # <<>> /\ BuzzerQueue' = Tail(BuzzerQueue) /\ BuzzerQueue \in Seq(Commands)
    BY <1>1 DEF TypeOK, Serve
  <2>2. CASE Len(BuzzerQueue) = 1
    <3>1. BuzzerQueue' = <<>> /\ Head(BuzzerQueue) = BuzzerQueue[Len(BuzzerQueue)]
      BY <2>1, <2>2
    <3> QED BY <1>1, <2>1, <3>1 DEF Serve, EndsOn
  <2>3. CASE Len(BuzzerQueue) # 1
    <3>1. BuzzerQueue' # <<>> /\ BuzzerQueue'[Len(BuzzerQueue')] = BuzzerQueue[Len(BuzzerQueue)]
      <4>1. Len(BuzzerQueue) \in Nat /\ Len(BuzzerQueue) > 1
        <5>1. Len(BuzzerQueue) \in Nat \ {0}
          BY <2>1, EmptySeq, Zenon
        <5> QED BY <5>1, <2>3
      <4>2. /\ BuzzerQueue' \in Seq(Commands) /\ Len(BuzzerQueue') = Len(BuzzerQueue) - 1
            /\ \A i \in 1 .. Len(BuzzerQueue') : BuzzerQueue'[i] = BuzzerQueue[i + 1]
        BY <2>1, HeadTailProperties
      <4> QED BY <4>1, <4>2
    <3> QED BY <1>1, <2>1, <3>1 DEF Serve, EndsOn
  <2> QED BY <2>2, <2>3
<1>2. CASE LifeOver
  BY <1>2 DEF LifeOver, EndsOn
<1> QED BY <1>1, <1>2 DEF BuzzerServe

\* An OFF ends the queue, or is lost.
LEMMA SendOffEnds == ASSUME TypeOK, Send("off") PROVE EndsOn' => offLost'
<1>1. CASE Len(BuzzerQueue) < BuzzerQueueSize
  <2>1. BuzzerQueue' = Append(BuzzerQueue, "off") /\ BuzzerQueue \in Seq(Commands) /\ "off" \in Commands
    BY <1>1 DEF TypeOK, Send, Commands
  <2>2. BuzzerQueue' # <<>> /\ BuzzerQueue'[Len(BuzzerQueue')] = "off"
    BY <2>1
  <2> QED BY <2>2 DEF EndsOn
<1>2. CASE ~(Len(BuzzerQueue) < BuzzerQueueSize)
  <2>1. Len(BuzzerQueue) = BuzzerQueueSize
    BY <1>2, BuzzerAssumption DEF TypeOK
  <2> QED BY <2>1, Zenon DEF Send
<1> QED BY <1>1, <1>2

-------------------------------------------------------------------------------
LEMMA FlagsAreBoolean == ASSUME TypeOK, Next PROVE (Flags \subseteq BOOLEAN)'
<1>0. Flags \subseteq BOOLEAN
  BY DEF TypeOK
<1> USE DEF phyVars, macVars, netVars, buzzerVars, initVars
<1>1. CASE LinkChanges
  <2>1. link' \in BOOLEAN /\ misr' \in BOOLEAN /\ pending' \in BOOLEAN /\ steady' \in BOOLEAN
    BY <1>0, <1>1, Zenon DEF LinkChanges, Flags
  <2>2. UNCHANGED <<intEn, extiEn, halted, initOk, linkFlag, configured, FES, DM, started,
                    linkUp, ifUp, callback, pin, busy, offLost>>
    BY <1>1 DEF LinkChanges
  <2> QED BY <1>0, <2>1, <2>2 DEF Flags
<1>2. CASE EXTI9_5_IRQHandler
  <2>1. halted' \in BOOLEAN /\ pending' \in BOOLEAN
    BY <1>0, <1>2, Zenon DEF EXTI9_5_IRQHandler, Flags
  <2>2. UNCHANGED <<link, misr, intEn, extiEn, initOk, linkFlag, configured, FES, DM, started,
                    linkUp, ifUp, callback, steady, pin, busy, offLost>>
    BY <1>2 DEF EXTI9_5_IRQHandler
  <2> QED BY <1>0, <2>1, <2>2 DEF Flags
<1>3. CASE Main
  <2> USE DEF MainRuns, NetUnchanged
  <2>1. CASE WaitLinked
    <3>1. UNCHANGED <<link, misr, intEn, extiEn, pending, halted, initOk, linkFlag,
                      configured, FES, DM, started, linkUp, ifUp, callback, steady, pin, busy,
                      offLost>>
      BY <2>1 DEF WaitLinked
    <3> QED BY <1>0, <3>1 DEF Flags
  <2>2. CASE Negotiated
    <3>1. FES' \in BOOLEAN /\ DM' \in BOOLEAN /\ configured' \in BOOLEAN /\ initOk' \in BOOLEAN
      BY <1>0, <2>2, Zenon DEF Negotiated, Flags
    <3>2. UNCHANGED <<link, misr, intEn, extiEn, pending, halted, linkFlag, started, linkUp,
                      ifUp, callback, steady, pin, busy, offLost>>
      BY <2>2 DEF Negotiated
    <3> QED BY <1>0, <3>1, <3>2 DEF Flags
  <2>3. CASE NotNegotiated
    <3>1. steady' \in BOOLEAN
      BY <1>0, <2>3, Zenon DEF NotNegotiated, Flags
    <3>2. UNCHANGED <<link, misr, intEn, extiEn, pending, halted, initOk, linkFlag,
                      configured, FES, DM, started, linkUp, ifUp, callback, pin, busy,
                      offLost>>
      BY <2>3 DEF NotNegotiated
    <3> QED BY <1>0, <3>1, <3>2 DEF Flags
  <2>4. CASE GetLinkStatus
    <3>1. linkFlag' \in BOOLEAN
      BY <1>0, <2>4, Zenon DEF GetLinkStatus, Flags
    <3>2. UNCHANGED <<link, misr, intEn, extiEn, pending, halted, initOk, configured, FES, DM,
                      started, linkUp, ifUp, callback, steady, pin, busy, offLost>>
      BY <2>4 DEF GetLinkStatus
    <3> QED BY <1>0, <3>1, <3>2 DEF Flags
  <2>5. CASE Eth_Link_PHYITConfig
    <3>1. misr' \in BOOLEAN /\ intEn' \in BOOLEAN
      BY <1>0, <2>5, Zenon DEF Eth_Link_PHYITConfig, Flags
    <3>2. UNCHANGED <<link, extiEn, pending, halted, initOk, linkFlag, configured, FES, DM,
                      started, linkUp, ifUp, callback, steady, pin, busy, offLost>>
      BY <2>5 DEF Eth_Link_PHYITConfig
    <3> QED BY <1>0, <3>1, <3>2 DEF Flags
  <2>6. CASE Eth_Link_EXTIConfig
    <3>1. extiEn' \in BOOLEAN
      BY <1>0, <2>6, Zenon DEF Eth_Link_EXTIConfig, Flags
    <3>2. UNCHANGED <<link, misr, intEn, pending, halted, initOk, linkFlag, configured, FES,
                      DM, started, linkUp, ifUp, callback, steady, pin, busy, offLost>>
      BY <2>6 DEF Eth_Link_EXTIConfig
    <3> QED BY <1>0, <3>1, <3>2 DEF Flags
  <2>7. CASE CreateLinkTask
    <3>1. UNCHANGED <<link, misr, intEn, extiEn, pending, halted, initOk, linkFlag,
                      configured, FES, DM, started, linkUp, ifUp, callback, steady, pin, busy,
                      offLost>>
      BY <2>7 DEF CreateLinkTask
    <3> QED BY <1>0, <3>1 DEF Flags
  <2>8. CASE NetifAdd
    <3>1. linkUp' \in BOOLEAN /\ ifUp' \in BOOLEAN /\ callback' \in BOOLEAN /\ started' \in BOOLEAN
      BY <1>0, <2>8, Zenon DEF NetifAdd, Flags
    <3>2. UNCHANGED <<link, misr, intEn, extiEn, pending, halted, initOk, linkFlag,
                      configured, FES, DM, steady, pin, busy, offLost>>
      BY <2>8 DEF NetifAdd
    <3> QED BY <1>0, <3>1, <3>2 DEF Flags
  <2>9. CASE NetifFlags
    <3>1. linkUp' \in BOOLEAN /\ ifUp' \in BOOLEAN
      BY <1>0, <2>9, Zenon DEF NetifFlags, Flags
    <3>2. UNCHANGED <<link, misr, intEn, extiEn, pending, halted, initOk, linkFlag,
                      configured, FES, DM, started, callback, steady, pin, busy, offLost>>
      BY <2>9 DEF NetifFlags
    <3> QED BY <1>0, <3>1, <3>2 DEF Flags
  <2>10. CASE SetLinkCallback
    <3>1. callback' \in BOOLEAN
      BY <1>0, <2>10, Zenon DEF SetLinkCallback, Flags
    <3>2. UNCHANGED <<link, misr, intEn, extiEn, pending, halted, initOk, linkFlag,
                      configured, FES, DM, started, linkUp, ifUp, steady, pin, busy, offLost>>
      BY <2>10 DEF SetLinkCallback
    <3> QED BY <1>0, <3>1, <3>2 DEF Flags
  <2>11. CASE BuzzerTick
    <3>1. offLost' \in BOOLEAN
      BY <1>0, <2>11, Zenon DEF BuzzerTick, Send, Flags
    <3>2. UNCHANGED <<link, misr, intEn, extiEn, pending, halted, initOk, linkFlag,
                      configured, FES, DM, started, linkUp, ifUp, callback, steady, pin,
                      busy>>
      BY <2>11 DEF BuzzerTick, Send
    <3> QED BY <1>0, <3>1, <3>2 DEF Flags
  <2> QED BY <1>3, <2>1, <2>2, <2>3, <2>4, <2>5, <2>6, <2>7, <2>8, <2>9, <2>10, <2>11 DEF Main
<1>4. CASE Task
  <2> USE DEF TaskRuns, TaskUnchanged
  <2>1. CASE TakeLink
    <3>1. UNCHANGED <<link, misr, intEn, extiEn, pending, halted, initOk, linkFlag,
                      configured, FES, DM, started, linkUp, ifUp, callback, steady, pin, busy,
                      offLost>>
      BY <2>1 DEF TakeLink
    <3> QED BY <1>0, <3>1 DEF Flags
  <2>2. CASE ReadMISR
    <3>1. misr' \in BOOLEAN
      BY <1>0, <2>2, Zenon DEF ReadMISR, Flags
    <3>2. UNCHANGED <<link, intEn, extiEn, pending, halted, initOk, linkFlag, configured, FES,
                      DM, started, linkUp, ifUp, callback, steady, pin, busy, offLost>>
      BY <2>2 DEF ReadMISR
    <3> QED BY <1>0, <3>1, <3>2 DEF Flags
  <2>3. CASE ReadSR
    <3>1. UNCHANGED <<link, misr, intEn, extiEn, pending, halted, initOk, linkFlag,
                      configured, FES, DM, started, linkUp, ifUp, callback, steady, pin, busy,
                      offLost>>
      BY <2>3 DEF ReadSR
    <3> QED BY <1>0, <3>1 DEF Flags
  <2>4. CASE NetifSetLink
    <3>1. linkUp' \in BOOLEAN
      BY <1>0, <2>4, Zenon DEF NetifSetLink, Flags
    <3>2. UNCHANGED <<link, misr, intEn, extiEn, pending, halted, initOk, linkFlag,
                      configured, FES, DM, started, ifUp, callback, steady, pin, busy,
                      offLost>>
      BY <2>4 DEF NetifSetLink
    <3> QED BY <1>0, <3>1, <3>2 DEF Flags
  <2>5. CASE CallbackRead
    <3>1. UNCHANGED <<link, misr, intEn, extiEn, pending, halted, initOk, linkFlag,
                      configured, FES, DM, started, linkUp, ifUp, callback, steady, pin, busy,
                      offLost>>
      BY <2>5 DEF CallbackRead
    <3> QED BY <1>0, <3>1 DEF Flags
  <2>6. CASE CallbackMACCR
    <3>1. FES' \in BOOLEAN /\ DM' \in BOOLEAN
      BY <1>0, <2>6, Zenon DEF CallbackMACCR, Flags
    <3>2. UNCHANGED <<link, misr, intEn, extiEn, pending, halted, initOk, linkFlag,
                      configured, started, linkUp, ifUp, callback, steady, pin, busy,
                      offLost>>
      BY <2>6 DEF CallbackMACCR
    <3> QED BY <1>0, <3>1, <3>2 DEF Flags
  <2>7. CASE CallbackStart
    <3>1. started' \in BOOLEAN /\ ifUp' \in BOOLEAN
      BY <1>0, <2>7, Zenon DEF CallbackStart, Flags
    <3>2. UNCHANGED <<link, misr, intEn, extiEn, pending, halted, initOk, linkFlag,
                      configured, FES, DM, linkUp, callback, steady, pin, busy, offLost>>
      BY <2>7 DEF CallbackStart
    <3> QED BY <1>0, <3>1, <3>2 DEF Flags
  <2>8. CASE CallbackStop
    <3>1. started' \in BOOLEAN /\ ifUp' \in BOOLEAN
      BY <1>0, <2>8, Zenon DEF CallbackStop, Flags
    <3>2. UNCHANGED <<link, misr, intEn, extiEn, pending, halted, initOk, linkFlag,
                      configured, FES, DM, linkUp, callback, steady, pin, busy, offLost>>
      BY <2>8 DEF CallbackStop
    <3> QED BY <1>0, <3>1, <3>2 DEF Flags
  <2>9. CASE CallbackBeep
    <3>1. offLost' \in BOOLEAN
      BY <1>0, <2>9, Zenon DEF CallbackBeep, Send, Flags
    <3>2. UNCHANGED <<link, misr, intEn, extiEn, pending, halted, initOk, linkFlag,
                      configured, FES, DM, started, linkUp, ifUp, callback, steady, pin,
                      busy>>
      BY <2>9 DEF CallbackBeep, Send
    <3> QED BY <1>0, <3>1, <3>2 DEF Flags
  <2> QED BY <1>4, <2>1, <2>2, <2>3, <2>4, <2>5, <2>6, <2>7, <2>8, <2>9 DEF Task
<1>5. CASE Beeper
  <2>1. pin' \in BOOLEAN /\ busy' \in BOOLEAN /\ offLost' \in BOOLEAN
    BY <1>0, <1>5, Zenon DEF Beeper, BuzzerServe, Serve, LifeOver, Flags
  <2>2. UNCHANGED <<link, misr, intEn, extiEn, pending, halted, initOk, linkFlag, configured,
                    FES, DM, started, linkUp, ifUp, callback, steady>>
    BY <1>5 DEF Beeper, BuzzerServe, Serve, LifeOver
  <2> QED BY <1>0, <2>1, <2>2 DEF Flags
<1> QED BY <1>1, <1>2, <1>3, <1>4, <1>5 DEF Next

LEMMA TypeInv == ASSUME TypeOK, Next PROVE TypeOK'
<1> USE DEF phyVars, macVars, netVars, buzzerVars, initVars
<1>1. BuzzerQueue' \in Seq(Commands) /\ Len(BuzzerQueue') <= BuzzerQueueSize
  <2>1. BuzzerServe \/ (\E command \in Commands : Send(command)) \/ UNCHANGED BuzzerQueue
    BY DEF Commands, Next, LinkChanges, EXTI9_5_IRQHandler, Beeper, Main, Task, WaitLinked, Negotiated, NotNegotiated, GetLinkStatus, Eth_Link_PHYITConfig,
         Eth_Link_EXTIConfig, CreateLinkTask, NetifAdd, NetifFlags, SetLinkCallback, BuzzerTick, MainRuns,
         NetUnchanged, TakeLink, ReadMISR, ReadSR, NetifSetLink, CallbackRead, CallbackMACCR,
         CallbackStart, CallbackStop, CallbackBeep, TaskRuns, TaskUnchanged
  <2> QED BY <2>1, BuzzerQueueOK
<1>2. /\ phySpeed' \in Speeds /\ speed' \in Speeds /\ phyMode' \in Modes /\ mode' \in Modes
      /\ sem' \in {-1, 0, 1}
  BY DEF TypeOK, Next, LinkChanges, EXTI9_5_IRQHandler, Beeper, Main, Task, WaitLinked, Negotiated, NotNegotiated, GetLinkStatus, Eth_Link_PHYITConfig,
         Eth_Link_EXTIConfig, CreateLinkTask, NetifAdd, NetifFlags, SetLinkCallback, BuzzerTick, MainRuns,
         NetUnchanged, TakeLink, ReadMISR, ReadSR, NetifSetLink, CallbackRead, CallbackMACCR,
         CallbackStart, CallbackStop, CallbackBeep, TaskRuns, TaskUnchanged
<1>3. /\ mainPc' \in {"linked", "negotiated", "status", "phyit", "exti", "sem", "add", "flags",
                      "callback", "beep", "beepOff", "done"}
      /\ taskPc' \in {"none", "wait", "misr", "sr", "up", "down", "read", "maccr", "start",
                      "stop", "beep", "beepOff"}
  BY DEF TypeOK, Next, LinkChanges, EXTI9_5_IRQHandler, Beeper, Main, Task, WaitLinked, Negotiated, NotNegotiated, GetLinkStatus, Eth_Link_PHYITConfig,
         Eth_Link_EXTIConfig, CreateLinkTask, NetifAdd, NetifFlags, SetLinkCallback, BuzzerTick, MainRuns,
         NetUnchanged, TakeLink, ReadMISR, ReadSR, NetifSetLink, CallbackRead, CallbackMACCR,
         CallbackStart, CallbackStop, CallbackBeep, TaskRuns, TaskUnchanged
<1> QED BY <1>1, <1>2, <1>3, FlagsAreBoolean DEF TypeOK

\* The latch, the interrupt, the semaphore and the task.
LEMMA EventsInv ==
    ASSUME TypeOK, LineFollows, NoLinkEventLost, NoTaskYet, Next
    PROVE  LineFollows' /\ NoLinkEventLost' /\ NoTaskYet'
<1> USE DEF phyVars, macVars, netVars, buzzerVars, initVars, LineFollows, NoLinkEventLost, NoTaskYet, PinLow
<1>1. CASE LinkChanges
  BY <1>1 DEF LinkChanges
<1>2. CASE EXTI9_5_IRQHandler
  BY <1>2 DEF EXTI9_5_IRQHandler
<1>3. CASE Main
  BY <1>3
     DEF Main, WaitLinked, Negotiated, NotNegotiated, GetLinkStatus, Eth_Link_PHYITConfig,
         Eth_Link_EXTIConfig, CreateLinkTask, NetifAdd, NetifFlags, SetLinkCallback, BuzzerTick, MainRuns,
         NetUnchanged
<1>4. CASE Task
  BY <1>4
     DEF Task, TakeLink, ReadMISR, ReadSR, NetifSetLink, CallbackRead, CallbackMACCR,
         CallbackStart, CallbackStop, CallbackBeep, TaskRuns, TaskUnchanged
<1>5. CASE Beeper
  BY <1>5 DEF Beeper
<1> QED BY <1>1, <1>2, <1>3, <1>4, <1>5 DEF Next

\* The commands of the two tasks.
LEMMA EndsInv == ASSUME TypeOK, NoTaskYet, EndsSilent, Next PROVE EndsSilent'
<1> USE DEF phyVars, macVars, netVars, buzzerVars, initVars
<1>1. CASE UNCHANGED <<BuzzerQueue, pin, offLost, mainPc, taskPc>>
  BY <1>1 DEF EndsSilent, EndsOn
<1>2. CASE BuzzerServe /\ UNCHANGED <<mainPc, taskPc>>
  BY <1>2, ServeEnds DEF EndsSilent
<1>3. CASE Send("off")
  BY <1>3, SendOffEnds DEF EndsSilent
<1>4. CASE Send("on") /\ (mainPc' = "beepOff" \/ taskPc' = "beepOff")
  BY <1>4 DEF EndsSilent
<1>5. CASE /\ BuzzerQueue' = BuzzerQueue /\ pin' = pin /\ offLost' = offLost
           /\ mainPc' = mainPc \/ (mainPc # "beepOff" /\ mainPc' # "beepOff")
           /\ taskPc' = taskPc \/ (taskPc # "beepOff" /\ taskPc' # "beepOff")
  BY <1>5 DEF EndsSilent, EndsOn
<1>6. CASE Main
  <2>1. CASE BuzzerTick
    BY <1>3, <1>4, <2>1 DEF BuzzerTick, MainRuns
  <2>2. CASE ~BuzzerTick
    <3>1. /\ UNCHANGED <<BuzzerQueue, pin, offLost>> /\ mainPc # "beepOff" /\ mainPc' # "beepOff"
          /\ taskPc' = taskPc \/ (taskPc # "beepOff" /\ taskPc' # "beepOff")
      BY <1>6, <2>2
         DEF NoTaskYet, Main, WaitLinked, Negotiated, NotNegotiated, GetLinkStatus,
             Eth_Link_PHYITConfig, Eth_Link_EXTIConfig, CreateLinkTask, NetifAdd, NetifFlags,
             SetLinkCallback, MainRuns, NetUnchanged
    <3> QED BY <1>5, <3>1
  <2> QED BY <2>1, <2>2
<1>7. CASE Task
  <2>1. CASE CallbackBeep
    BY <1>3, <1>4, <2>1 DEF CallbackBeep
  <2>2. CASE ~CallbackBeep
    <3>1. UNCHANGED <<BuzzerQueue, pin, offLost, mainPc>> /\ taskPc # "beepOff" /\ taskPc' # "beepOff"
      BY <1>7, <2>2
         DEF Task, TakeLink, ReadMISR, ReadSR, NetifSetLink, CallbackRead, CallbackMACCR,
             CallbackStart, CallbackStop, TaskRuns, TaskUnchanged
    <3> QED BY <1>5, <3>1
  <2> QED BY <2>1, <2>2
<1> QED BY <1>1, <1>2, <1>6, <1>7 DEF Next, LinkChanges, EXTI9_5_IRQHandler, Beeper

-------------------------------------------------------------------------------
\* The start-up, and the task that follows the link.
LEMMA FollowingInv == ASSUME TypeOK, NoTaskYet, Following, Next PROVE Following'
<1> USE DEF phyVars, macVars, netVars, buzzerVars, initVars, NoTaskYet, Following, Starting
<1> SUFFICES ASSUME steady' PROVE IF Starting' THEN Started' ELSE Coherent' /\ Current'
  OBVIOUS
<1>1. CASE LinkChanges
  BY <1>1 DEF LinkChanges, Coherent, Current
<1>2. CASE EXTI9_5_IRQHandler
  BY <1>2 DEF EXTI9_5_IRQHandler, Started, Coherent, Current
<1>3. CASE Main
  <2> USE DEF MainRuns, NetUnchanged
  <2>1. CASE WaitLinked
    BY <2>1 DEF Started, Coherent, Current, WaitLinked
  <2>2. CASE Negotiated
    BY <2>2 DEF Started, Coherent, Current, Negotiated
  <2>3. CASE NotNegotiated
    BY <2>3 DEF Started, Coherent, Current, NotNegotiated
  <2>4. CASE GetLinkStatus
    BY <2>4 DEF Started, Coherent, Current, GetLinkStatus
  <2>5. CASE Eth_Link_PHYITConfig
    BY <2>5 DEF Started, Coherent, Current, Eth_Link_PHYITConfig
  <2>6. CASE Eth_Link_EXTIConfig
    BY <2>6 DEF Started, Coherent, Current, Eth_Link_EXTIConfig
  <2>7. CASE CreateLinkTask
    BY <2>7 DEF Started, Coherent, Current, CreateLinkTask
  <2>8. CASE NetifAdd
    BY <2>8 DEF Started, Coherent, Current, NetifAdd
  <2>9. CASE NetifFlags
    BY <2>9 DEF Started, Coherent, Current, NetifFlags
  <2>10. CASE SetLinkCallback
    BY <2>10 DEF Started, Coherent, Current, SetLinkCallback
  <2>11. CASE BuzzerTick
    BY <2>11 DEF Started, Coherent, Current, BuzzerTick
  <2> QED BY <1>3, <2>1, <2>2, <2>3, <2>4, <2>5, <2>6, <2>7, <2>8, <2>9, <2>10, <2>11 DEF Main
<1>4. CASE Task
  <2> USE DEF TaskRuns, TaskUnchanged
  <2>1. CASE TakeLink
    BY <2>1 DEF Started, Coherent, Current, TakeLink
  <2>2. CASE ReadMISR
    BY <2>2 DEF Started, Coherent, Current, ReadMISR
  <2>3. CASE ReadSR
    BY <2>3 DEF Started, Coherent, Current, ReadSR
  <2>4. CASE NetifSetLink
    BY <2>4 DEF Started, Coherent, Current, NetifSetLink
  <2>5. CASE CallbackRead
    BY <2>5 DEF Started, Coherent, Current, CallbackRead
  <2>6. CASE CallbackMACCR
    BY <2>6 DEF Started, Coherent, Current, CallbackMACCR
  <2>7. CASE CallbackStart
    BY <2>7 DEF Started, Coherent, Current, CallbackStart
  <2>8. CASE CallbackStop
    BY <2>8 DEF Started, Coherent, Current, CallbackStop
  <2>9. CASE CallbackBeep
    BY <2>9 DEF Started, Coherent, Current, CallbackBeep
  <2> QED BY <1>4, <2>1, <2>2, <2>3, <2>4, <2>5, <2>6, <2>7, <2>8, <2>9 DEF Task
<1>5. CASE Beeper
  BY <1>5 DEF Beeper, Started, Coherent, Current
<1> QED BY <1>1, <1>2, <1>3, <1>4, <1>5 DEF Next

LEMMA InitInv == Init => IInv
<1> SUFFICES ASSUME Init PROVE IInv
  OBVIOUS
<1>1. Flags \subseteq BOOLEAN
  BY Zenon DEF Init, BuzzerInit, Flags
<1>2. TypeOK
  BY <1>1, PhyAssumption, BuzzerAssumption DEF Init, BuzzerInit, TypeOK
<1>3. LineFollows /\ NoLinkEventLost /\ NoTaskYet /\ EndsSilent /\ Following
  BY DEF Init, BuzzerInit, LineFollows, NoLinkEventLost, NoTaskYet, PinLow, EndsSilent, EndsOn, Following,
         Starting, Started
<1> QED BY <1>2, <1>3 DEF IInv

THEOREM Inductive == Spec => []IInv
<1>1. IInv /\ UNCHANGED vars => IInv'
  <2> SUFFICES ASSUME IInv, UNCHANGED vars PROVE IInv'
    OBVIOUS
  <2>1. TypeOK'
    BY DEF vars, IInv, TypeOK, Flags
  <2>2. (LineFollows /\ NoLinkEventLost /\ NoTaskYet /\ EndsSilent /\ Following)'
    BY DEF vars, IInv, LineFollows, NoLinkEventLost, NoTaskYet, PinLow, EndsSilent, EndsOn, Following,
           Starting, Started, Coherent, Current
  <2> QED BY <2>1, <2>2 DEF IInv
<1>2. IInv /\ [Next]_vars => IInv'
  BY <1>1, TypeInv, EventsInv, EndsInv, FollowingInv DEF IInv
<1> QED BY InitInv, <1>2, PTL DEF Spec

\* Every variable of the link keeps its type, and the buzzer's queue its size.
THEOREM TypeCorrect == Spec => []TypeOK
BY Inductive, PTL DEF IInv

\* A change of the link that the PHY has latched always has something on its way to it.
THEOREM ChangeIsNoticed == Spec => []NoLinkEventLost
BY Inductive, PTL DEF IInv

\* The buzzer stops sounding unless its OFF was lost.
THEOREM BuzzerFallsSilent == Spec => []FallsSilent
<1>1. IInv => FallsSilent
  BY DEF IInv, EndsSilent, EndsOn, FallsSilent
<1> QED BY <1>1, Inductive, PTL

\* When all is quiet the interface is up exactly when the link is.
THEOREM InterfaceFollowsLink == Spec => []FollowsLink
<1>1. IInv => FollowsLink
  <2> SUFFICES ASSUME IInv, steady, Quiet PROVE linkUp = link /\ ifUp = link /\ (link => started)
    BY DEF FollowsLink
  <2>1. (linkUp <=> link) /\ (ifUp <=> link) /\ (link => started)
    BY DEF IInv, Following, Starting, Coherent, Current, Quiet
  <2>2. linkUp \in BOOLEAN /\ ifUp \in BOOLEAN /\ link \in BOOLEAN
    BY DEF IInv, TypeOK, Flags
  <2> QED BY <2>1, <2>2, Zenon
<1> QED BY <1>1, Inductive, PTL
===============================================================================

------------------------------- MODULE EthLink --------------------------------
(***************************************************************************)
(* The Ethernet link: its configuration at start-up by the main task       *)
(* (ETH_BSP_Config, LwIP_Init), the interrupt by which the PHY announces a *)
(* change (EXTI9_5_IRQHandler), the task that follows it                   *)
(* (Eth_Link_IT_task, ETH_link_callback), and the buzzer, by which both    *)
(* tasks give notice.                                                      *)
(*                                                                         *)
(* The PHY latches a change in MISR and pulls its INT pin low; reading     *)
(* MISR clears the latch and releases the pin.  The read goes over the     *)
(* serial management bus, so that the latch is cleared at some moment      *)
(* while the task waits for the answer.  The interrupt is raised by the    *)
(* falling edge of the pin.  The main task and the link task have the same *)
(* priority and an interrupt that is pending comes before both.            *)
(***************************************************************************)
EXTENDS Integers, Buzzer

CONSTANTS Speeds, Modes     \* what the PHY may negotiate

ASSUME PhyAssumption == Speeds = {10, 100} /\ Modes = {"half", "full"}

VARIABLES
    link, phySpeed, phyMode,    \* the PHY: what has been negotiated
    misr, intEn,                \* its latch; its interrupt is enabled
    extiEn, pending,            \* EXTI line 7
    sem,                        \* ETH_link_xSemaphore: 0, 1, or -1 for NULL
    halted,                     \* a configASSERT has failed
    initOk, linkFlag,           \* the two bits of EthStatus
    configured, FES, DM,        \* ETH_Init has written MACCR, DMAOMR ...; two bits of MACCR
    started,                    \* ETH_Start rather than ETH_Stop came last
    linkUp, ifUp, callback,     \* xnetif: NETIF_FLAG_LINK_UP, _UP; is link_callback set?
    mainPc, taskPc, speed, mode,\* ETH_InitStructure's ETH_Speed and ETH_Mode
    steady                      \* history: a start-up like any other, see below

phyVars   == <<link, phySpeed, phyMode>>
macVars   == <<configured, FES, DM>>
netVars   == <<linkUp, ifUp, callback>>
initVars  == <<speed, mode>>
vars == <<link, phySpeed, phyMode, misr, intEn, extiEn, pending, sem, halted, initOk,
          linkFlag, configured, FES, DM, started, linkUp, ifUp, callback, mainPc, taskPc,
          speed, mode, steady, BuzzerQueue, pin, busy, offLost>>

PinLow == misr /\ intEn

Init ==
    /\ link \in BOOLEAN /\ phySpeed \in Speeds /\ phyMode \in Modes
    /\ misr \in BOOLEAN /\ intEn = FALSE
    /\ extiEn = FALSE /\ pending = FALSE /\ sem = -1 /\ halted = FALSE
    /\ initOk = FALSE /\ linkFlag = FALSE
    /\ configured = FALSE /\ FES = FALSE /\ DM = FALSE /\ started = FALSE
    /\ linkUp = FALSE /\ ifUp = FALSE /\ callback = FALSE
    /\ mainPc = "linked" /\ taskPc = "none" /\ speed = 100 /\ mode = "full"
    /\ steady = TRUE /\ BuzzerInit

-------------------------------------------------------------------------------
(***************************************************************************)
(* The cable and the interrupt.                                            *)
(***************************************************************************)
\* The link goes down, or comes up with whatever the new peer can do.
LinkChanges ==
    /\ link' = ~link
    /\ IF link' THEN phySpeed' \in Speeds /\ phyMode' \in Modes
                ELSE UNCHANGED <<phySpeed, phyMode>>
    /\ misr' = TRUE
    /\ pending' = (pending \/ (extiEn /\ intEn /\ ~misr))
    /\ steady' = (steady /\ mainPc = "done")
    /\ UNCHANGED <<intEn, extiEn, sem, halted, initOk, linkFlag, macVars, started, netVars,
                   mainPc, taskPc, initVars, buzzerVars>>

\* Slip: the semaphore counts.
ExtiCounts ==
    /\ pending /\ PinLow /\ ~halted
    /\ IF sem = -1 THEN halted' = TRUE /\ UNCHANGED <<sem, pending>>
                   ELSE sem' = sem + 1 /\ pending' = FALSE /\ UNCHANGED halted
    /\ UNCHANGED <<phyVars, misr, intEn, extiEn, initOk, linkFlag, macVars, started, netVars,
                   mainPc, taskPc, initVars, steady, buzzerVars>>

\* The handler does its work, and clears the pending bit, only if the pin is low;
\* otherwise it returns at once and is entered again.
EXTI9_5_IRQHandler ==
    /\ pending /\ PinLow /\ ~halted
    /\ IF sem = -1 THEN halted' = TRUE /\ UNCHANGED <<sem, pending>>
                   ELSE sem' = 1 /\ pending' = FALSE /\ UNCHANGED halted
    /\ UNCHANGED <<phyVars, misr, intEn, extiEn, initOk, linkFlag, macVars, started, netVars,
                   mainPc, taskPc, initVars, steady, buzzerVars>>

-------------------------------------------------------------------------------
(***************************************************************************)
(* The main task.                                                          *)
(***************************************************************************)
TasksRun == ~pending /\ ~halted
MainRuns(at, next) == TasksRun /\ mainPc = at /\ mainPc' = next
NetUnchanged == UNCHANGED <<phyVars, pending, halted, taskPc, buzzerVars>>

\* ETH_Init waits for the link, and for the negotiation; a wait that takes too long
\* leaves the MAC and the DMA unconfigured.
WaitLinked ==
    /\ IF link THEN MainRuns("linked", "negotiated") ELSE MainRuns("linked", "status")
    /\ NetUnchanged
    /\ UNCHANGED <<misr, intEn, extiEn, sem, initOk, linkFlag, macVars, started, netVars, initVars, steady>>

Negotiated ==
    /\ MainRuns("negotiated", "status") /\ link
    /\ speed' = phySpeed /\ mode' = phyMode
    /\ FES' = (phySpeed = 100) /\ DM' = (phyMode = "full")
    /\ configured' = TRUE /\ initOk' = TRUE
    /\ NetUnchanged
    /\ UNCHANGED <<misr, intEn, extiEn, sem, linkFlag, started, netVars, steady>>

NotNegotiated ==
    /\ MainRuns("negotiated", "status")
    /\ steady' = (steady /\ ~link)
    /\ NetUnchanged
    /\ UNCHANGED <<misr, intEn, extiEn, sem, initOk, linkFlag, macVars, started, netVars, initVars>>

GetLinkStatus ==
    /\ MainRuns("status", "phyit")
    /\ linkFlag' = link
    /\ NetUnchanged
    /\ UNCHANGED <<misr, intEn, extiEn, sem, initOk, macVars, started, netVars, initVars, steady>>

\* Reads MISR before it enables the interrupt.
Eth_Link_PHYITConfig ==
    /\ MainRuns("phyit", "exti")
    /\ misr' = FALSE /\ intEn' = TRUE
    /\ NetUnchanged
    /\ UNCHANGED <<extiEn, sem, initOk, linkFlag, macVars, started, netVars, initVars, steady>>

Eth_Link_EXTIConfig ==
    /\ MainRuns("exti", "sem")
    /\ extiEn' = TRUE
    /\ NetUnchanged
    /\ UNCHANGED <<misr, intEn, sem, initOk, linkFlag, macVars, started, netVars, initVars, steady>>

\* Slip: xSemaphoreCreateBinary, which creates the semaphore empty.
CreateEmpty ==
    /\ MainRuns("sem", "add")
    /\ sem' = 0 /\ taskPc' = "wait"
    /\ UNCHANGED <<phyVars, misr, intEn, extiEn, pending, halted, initOk, linkFlag, macVars,
                   started, netVars, initVars, steady, buzzerVars>>

\* vSemaphoreCreateBinary creates it available; then the task is created.
CreateLinkTask ==
    /\ MainRuns("sem", "add")
    /\ sem' = 1 /\ taskPc' = "wait"
    /\ UNCHANGED <<phyVars, misr, intEn, extiEn, pending, halted, initOk, linkFlag, macVars,
                   started, netVars, initVars, steady, buzzerVars>>

\* netif_add resets xnetif; its init function starts the MAC.
NetifAdd ==
    /\ MainRuns("add", "flags")
    /\ linkUp' = FALSE /\ ifUp' = FALSE /\ callback' = FALSE
    /\ started' = TRUE
    /\ NetUnchanged
    /\ UNCHANGED <<misr, intEn, extiEn, sem, initOk, linkFlag, macVars, initVars, steady>>

NetifFlags ==
    /\ MainRuns("flags", "callback")
    /\ linkUp' = (linkUp \/ (initOk /\ linkFlag))
    /\ ifUp' = (initOk /\ linkFlag)
    /\ NetUnchanged
    /\ UNCHANGED <<misr, intEn, extiEn, sem, initOk, linkFlag, macVars, started, callback, initVars, steady>>

SetLinkCallback ==
    /\ MainRuns("callback", "beep")
    /\ callback' = TRUE
    /\ NetUnchanged
    /\ UNCHANGED <<misr, intEn, extiEn, sem, initOk, linkFlag, macVars, started, linkUp, ifUp,
                   initVars, steady>>

\* BuzzerTick(1000): the main task has started everything.
BuzzerTick ==
    /\ \/ MainRuns("beep", "beepOff") /\ Send("on")
       \/ MainRuns("beepOff", "done") /\ Send("off")
    /\ UNCHANGED <<phyVars, misr, intEn, extiEn, pending, sem, halted, initOk, linkFlag, macVars,
                   started, netVars, taskPc, initVars, steady>>

Main == \/ WaitLinked \/ Negotiated \/ NotNegotiated \/ GetLinkStatus
        \/ Eth_Link_PHYITConfig \/ Eth_Link_EXTIConfig \/ CreateLinkTask
        \/ NetifAdd \/ NetifFlags \/ SetLinkCallback \/ BuzzerTick

-------------------------------------------------------------------------------
(***************************************************************************)
(* Eth_Link_IT_task.                                                       *)
(***************************************************************************)
TaskRuns(at) == TasksRun /\ taskPc = at
TaskUnchanged == UNCHANGED <<phyVars, intEn, extiEn, pending, halted, initOk, linkFlag,
                             mainPc, configured, callback, steady, buzzerVars>>

TakeLink ==
    /\ TaskRuns("wait") /\ sem = 1
    /\ sem' = 0 /\ taskPc' = "misr"
    /\ TaskUnchanged
    /\ UNCHANGED <<misr, FES, DM, started, linkUp, ifUp, initVars>>

\* The PHY answers the read of MISR, be there an interrupt pending or not.
ReadMISR ==
    /\ taskPc = "misr" /\ ~halted
    /\ misr' = FALSE
    /\ taskPc' = IF misr THEN "sr" ELSE "wait"
    /\ TaskUnchanged
    /\ UNCHANGED <<sem, FES, DM, started, linkUp, ifUp, initVars>>

\* Slip: every interrupt is taken for one change.
ToggleSR ==
    /\ TaskRuns("sr")
    /\ taskPc' = IF linkUp THEN "down" ELSE "up"
    /\ TaskUnchanged
    /\ UNCHANGED <<misr, sem, FES, DM, started, linkUp, ifUp, initVars>>

ReadSR ==
    /\ TaskRuns("sr")
    /\ taskPc' = IF link THEN "up" ELSE "down"
    /\ TaskUnchanged
    /\ UNCHANGED <<misr, sem, FES, DM, started, linkUp, ifUp, initVars>>

\* netif_set_link_up and _down call back if the flag changes and there is a callback.
NetifSetLink ==
    /\ TaskRuns("up") \/ TaskRuns("down")
    /\ linkUp' = (taskPc = "up")
    /\ taskPc' = IF linkUp' = linkUp \/ ~callback THEN "wait"
                 ELSE IF linkUp' THEN "read" ELSE "stop"
    /\ TaskUnchanged
    /\ UNCHANGED <<misr, sem, FES, DM, started, ifUp, initVars>>

\* ETH_link_callback, link up: the result of the negotiation, whether it is complete
\* or not ...
CallbackRead ==
    /\ TaskRuns("read")
    /\ speed' = phySpeed /\ mode' = phyMode
    /\ taskPc' = "maccr"
    /\ TaskUnchanged
    /\ UNCHANGED <<misr, sem, FES, DM, started, linkUp, ifUp>>

\* ... is or-ed into MACCR ...
CallbackMACCR ==
    /\ TaskRuns("maccr")
    /\ FES' = (FES \/ speed = 100) /\ DM' = (DM \/ mode = "full")
    /\ taskPc' = "start"
    /\ TaskUnchanged
    /\ UNCHANGED <<misr, sem, started, linkUp, ifUp, initVars>>

\* ... and the interface is started and up.
CallbackStart ==
    /\ TaskRuns("start")
    /\ started' = TRUE /\ ifUp' = TRUE
    /\ taskPc' = "beep"
    /\ TaskUnchanged
    /\ UNCHANGED <<misr, sem, FES, DM, linkUp, initVars>>

\* Link down.
CallbackStop ==
    /\ TaskRuns("stop")
    /\ started' = FALSE /\ ifUp' = FALSE
    /\ taskPc' = "beep"
    /\ TaskUnchanged
    /\ UNCHANGED <<misr, sem, FES, DM, linkUp, initVars>>

\* Link up or down, the buzzer gives notice.
CallbackBeep ==
    /\ \/ TaskRuns("beep") /\ taskPc' = "beepOff" /\ Send("on")
       \/ TaskRuns("beepOff") /\ taskPc' = "wait" /\ Send("off")
    /\ UNCHANGED <<phyVars, misr, intEn, extiEn, pending, sem, halted, initOk, linkFlag, macVars,
                   started, netVars, mainPc, initVars, steady>>

Task == \/ TakeLink \/ ReadMISR \/ ReadSR \/ NetifSetLink
        \/ CallbackRead \/ CallbackMACCR \/ CallbackStart \/ CallbackStop \/ CallbackBeep

Beeper ==
    /\ TasksRun /\ BuzzerServe
    /\ UNCHANGED <<phyVars, misr, intEn, extiEn, pending, sem, halted, initOk, linkFlag, macVars,
                   started, netVars, mainPc, taskPc, initVars, steady>>

Next == LinkChanges \/ EXTI9_5_IRQHandler \/ Main \/ Task \/ Beeper

Spec == Init /\ [][Next]_vars

-------------------------------------------------------------------------------
(***************************************************************************)
(* Properties.                                                             *)
(***************************************************************************)
Flags == {link, misr, intEn, extiEn, pending, halted, initOk, linkFlag, configured, FES, DM,
          started, linkUp, ifUp, callback, steady, pin, busy, offLost}

\* Every variable holds a value of its type.
TypeOK ==
    /\ Flags \subseteq BOOLEAN
    /\ phySpeed \in Speeds /\ speed \in Speeds /\ phyMode \in Modes /\ mode \in Modes
    /\ sem \in {-1, 0, 1}
    /\ BuzzerQueue \in Seq(Commands) /\ Len(BuzzerQueue) <= BuzzerQueueSize
    /\ mainPc \in {"linked", "negotiated", "status", "phyit", "exti", "sem", "add", "flags",
                   "callback", "beep", "beepOff", "done"}
    /\ taskPc \in {"none", "wait", "misr", "sr", "up", "down", "read", "maccr", "start", "stop",
                   "beep", "beepOff"}

\* A change of the link that the PHY has latched is never forgotten: an interrupt,
\* the semaphore or the task is on its way to it, although the interrupt comes on an
\* edge and may come before the line, the semaphore or the task is there.
NoLinkEventLost ==
    PinLow /\ ~halted => pending \/ sem = 1 \/ taskPc = "misr" \/ mainPc \in {"exti", "sem"}

\* The buzzer never keeps sounding: when it has nothing to do it is off, unless the
\* very command that was to turn it off found the queue full.
FallsSilent ==
    (pin /\ ~busy /\ BuzzerQueue = <<>>) =>
        offLost \/ mainPc = "beepOff" \/ taskPc = "beepOff"

\* When all is quiet the interface is what the link is, however many changes came how
\* close together: the task reads the state after it has cleared the latch.  This
\* holds if the link did not change while the main task was starting up and if the
\* negotiation succeeded then.
Quiet == mainPc = "done" /\ taskPc = "wait" /\ sem = 0 /\ ~misr /\ ~pending
FollowsLink == steady /\ Quiet => linkUp = link /\ ifUp = link /\ (link => started)

-------------------------------------------------------------------------------
(***************************************************************************)
(* What a comment says and the code does not do.                           *)
(***************************************************************************)
\* stm32_eth_bsp.c:438-439: the FES and DM bits are set according to ETH_Speed and
\* ETH_Mode.
BitsFollowNegotiation ==
    [][taskPc = "maccr" /\ taskPc' = "start" =>
          FES' = (speed = 100) /\ DM' = (mode = "full")]_vars
===============================================================================

------------------------------ MODULE EthOutput -------------------------------
(***************************************************************************)
(* The transmit path of the Ethernet driver: low_level_output copies a     *)
(* frame into the buffer of the next descriptor, gives the descriptor to   *)
(* the DMA and wakes the DMA if it has suspended itself.                   *)
(*                                                                         *)
(* Frames are sent by the tcpip thread, and by the main task and the link  *)
(* task, which announce the address when the interface or the link goes up.*)
(* The last two have the same priority, below that of the tcpip thread.  A *)
(* binary semaphore, created by whoever sends first, is to keep them       *)
(* apart.                                                                  *)
(*                                                                         *)
(* A buffer of ETH_TX_BUF_SIZE bytes holds the longest frame, so that each *)
(* frame takes one descriptor.                                             *)
(***************************************************************************)
EXTENDS Naturals, Sequences

CONSTANTS
    TxBufNb,    \* descriptors; ETH_TXBUFNB is 5
    Frames, NoFrame

ASSUME TxAssumption == TxBufNb \in Nat /\ TxBufNb >= 2 /\ NoFrame \notin Frames

Tasks == {"tcpip", "main", "link"}
Descs == 0 .. TxBufNb - 1

\* Slip: the last descriptor is not chained to the first.
NextUnchained(d) == d + 1

NextDesc(d) == (d + 1) % TxBufNb

VARIABLES
    own, buffer,    \* per descriptor: "dma" or "cpu"; the frame in its buffer
    dmaDesc,        \* the descriptor that the DMA sends next
    dma,            \* "running", "suspended" or "stopped"
    TBUS,           \* the DMA has found a descriptor that is not its own
    wire,           \* the frame it is sending
    DMATxDescToSet,
    xTxSemaphore,   \* the handle: how many semaphores have been created, 0 for NULL
    available,      \* per semaphore
    pc, frame,      \* per task in low_level_output: next access, what p holds ...
    handle,         \* ... the semaphore it waits for ...
    DmaTxDesc       \* ... and the descriptor it works on

dmaVars == <<dmaDesc, dma, TBUS, wire>>
semVars == <<xTxSemaphore, available>>
vars == <<own, buffer, dmaDesc, dma, TBUS, wire, DMATxDescToSet, xTxSemaphore, available,
          pc, frame, handle, DmaTxDesc>>

Init ==
    /\ own = [d \in Descs |-> "cpu"] /\ buffer = [d \in Descs |-> NoFrame]
    /\ dmaDesc = 0 /\ dma = "running" /\ TBUS = FALSE /\ wire = NoFrame
    /\ DMATxDescToSet = 0
    /\ xTxSemaphore = 0 /\ available = [s \in 1 .. 3 |-> FALSE]
    /\ pc = [t \in Tasks |-> "idle"] /\ frame = [t \in Tasks |-> NoFrame]
    /\ handle = [t \in Tasks |-> 0] /\ DmaTxDesc = [t \in Tasks |-> 0]

-------------------------------------------------------------------------------
(***************************************************************************)
(* The DMA.                                                                *)
(***************************************************************************)
DmaUnchanged == UNCHANGED <<buffer, DMATxDescToSet, semVars, pc, frame, handle, DmaTxDesc>>

Transmit ==
    /\ dma = "running" /\ wire = NoFrame /\ own[dmaDesc] = "dma"
    /\ wire' = buffer[dmaDesc]
    /\ DmaUnchanged
    /\ UNCHANGED <<own, dmaDesc, dma, TBUS>>

\* The frame is on the wire, or flushed from the FIFO; the descriptor is given back.
Transmitted ==
    /\ wire # NoFrame
    /\ wire' = NoFrame
    /\ own' = [own EXCEPT ![dmaDesc] = "cpu"] /\ dmaDesc' = NextDesc(dmaDesc)
    /\ DmaUnchanged
    /\ UNCHANGED <<dma, TBUS>>

Suspend ==
    /\ dma = "running" /\ wire = NoFrame /\ own[dmaDesc] = "cpu"
    /\ dma' = "suspended" /\ TBUS' = TRUE
    /\ DmaUnchanged
    /\ UNCHANGED <<own, dmaDesc, wire>>

Dma == Transmit \/ Transmitted \/ Suspend

-------------------------------------------------------------------------------
(***************************************************************************)
(* low_level_output, called by task t.  Locals that are dead are reset.    *)
(***************************************************************************)
\* The tcpip thread waits for a frame to send or for the semaphore.
TcpipBlocked == \/ pc["tcpip"] = "idle"
                \/ pc["tcpip"] = "take" /\ ~available[handle["tcpip"]]
Runs(t, at) == pc[t] = at /\ (t = "tcpip" \/ TcpipBlocked)
Goto(t, next) == pc' = [pc EXCEPT ![t] = next]

Output(t) ==
    /\ Runs(t, "idle")
    /\ \E f \in Frames : frame' = [frame EXCEPT ![t] = f]
    /\ IF xTxSemaphore = 0
         THEN Goto(t, "create") /\ UNCHANGED handle
         ELSE Goto(t, "take") /\ handle' = [handle EXCEPT ![t] = xTxSemaphore]
    /\ UNCHANGED <<own, buffer, dmaVars, DMATxDescToSet, semVars, DmaTxDesc>>

\* vSemaphoreCreateBinary creates the semaphore empty ...
Create(t) ==
    /\ Runs(t, "create")
    /\ xTxSemaphore' = xTxSemaphore + 1
    /\ Goto(t, "first")
    /\ UNCHANGED <<own, buffer, dmaVars, DMATxDescToSet, available, frame, handle, DmaTxDesc>>

\* ... and gives it.
GiveFirst(t) ==
    /\ Runs(t, "first")
    /\ available' = [available EXCEPT ![xTxSemaphore] = TRUE]
    /\ handle' = [handle EXCEPT ![t] = xTxSemaphore]
    /\ Goto(t, "take")
    /\ UNCHANGED <<own, buffer, dmaVars, DMATxDescToSet, xTxSemaphore, frame, DmaTxDesc>>

Take(t) ==
    /\ Runs(t, "take") /\ available[handle[t]]
    /\ available' = [available EXCEPT ![handle[t]] = FALSE]
    /\ Goto(t, "look") /\ handle' = [handle EXCEPT ![t] = 0]
    /\ UNCHANGED <<own, buffer, dmaVars, DMATxDescToSet, xTxSemaphore, frame, DmaTxDesc>>

\* Slip: the result of the take is not tested.
TimeoutIgnored(t) ==
    /\ pc[t] = "take" /\ ~available[handle[t]]
    /\ Goto(t, "look")
    /\ UNCHANGED <<own, buffer, dmaVars, DMATxDescToSet, semVars, frame, handle, DmaTxDesc>>

\* netifGUARD_BLOCK_TIME has passed: the frame is dropped.
Timeout(t) ==
    /\ pc[t] = "take" /\ ~available[handle[t]]
    /\ Goto(t, "idle")
    /\ frame' = [frame EXCEPT ![t] = NoFrame] /\ handle' = [handle EXCEPT ![t] = 0]
    /\ UNCHANGED <<own, buffer, dmaVars, DMATxDescToSet, semVars, DmaTxDesc>>

\* Slip: a return without the give.
LookReturns(t) ==
    /\ Runs(t, "look")
    /\ DmaTxDesc' = [DmaTxDesc EXCEPT ![t] = DMATxDescToSet]
    /\ Goto(t, IF own[DMATxDescToSet] = "dma" THEN "idle" ELSE "copy")
    /\ UNCHANGED <<own, buffer, dmaVars, DMATxDescToSet, semVars, frame, handle>>

\* No descriptor is free: the frame is dropped.
Look(t) ==
    /\ Runs(t, "look")
    /\ DmaTxDesc' = [DmaTxDesc EXCEPT ![t] = DMATxDescToSet]
    /\ Goto(t, IF own[DMATxDescToSet] = "dma" THEN "error" ELSE "copy")
    /\ UNCHANGED <<own, buffer, dmaVars, DMATxDescToSet, semVars, frame, handle>>

Copy(t) ==
    /\ Runs(t, "copy")
    /\ buffer' = [buffer EXCEPT ![DmaTxDesc[t]] = frame[t]]
    /\ Goto(t, "prepare") /\ frame' = [frame EXCEPT ![t] = NoFrame]
    /\ UNCHANGED <<own, dmaVars, DMATxDescToSet, semVars, handle, DmaTxDesc>>

\* ETH_Prepare_Transmit_Descriptors reads DMATxDescToSet and its OWN bit again ...
Prepare(t) ==
    /\ Runs(t, "prepare")
    /\ DmaTxDesc' = [DmaTxDesc EXCEPT ![t] = DMATxDescToSet]
    /\ Goto(t, IF own[DMATxDescToSet] = "dma" THEN "error" ELSE "own")
    /\ UNCHANGED <<own, buffer, dmaVars, DMATxDescToSet, semVars, frame, handle>>

\* ... gives the descriptor to the DMA ...
SetOwn(t) ==
    /\ Runs(t, "own")
    /\ own' = [own EXCEPT ![DmaTxDesc[t]] = "dma"]
    /\ Goto(t, "advance")
    /\ UNCHANGED <<buffer, dmaVars, DMATxDescToSet, semVars, frame, handle, DmaTxDesc>>

\* ... goes on to the next one ...
Advance(t) ==
    /\ Runs(t, "advance")
    /\ DMATxDescToSet' = NextDesc(DmaTxDesc[t])
    /\ Goto(t, "poll") /\ DmaTxDesc' = [DmaTxDesc EXCEPT ![t] = 0]
    /\ UNCHANGED <<own, buffer, dmaVars, semVars, frame, handle>>

\* Slip: the flag is cleared, and the DMA left to wake up by itself.
PollClears(t) ==
    /\ Runs(t, "poll")
    /\ TBUS' = FALSE
    /\ Goto(t, "error")
    /\ UNCHANGED <<own, buffer, dmaDesc, dma, wire, DMATxDescToSet, semVars, frame, handle, DmaTxDesc>>

\* ... and, when the DMA has found no descriptor, clears the flag ...
Poll(t) ==
    /\ Runs(t, "poll")
    /\ TBUS' = FALSE
    /\ Goto(t, IF TBUS THEN "resume" ELSE "error")
    /\ UNCHANGED <<own, buffer, dmaDesc, dma, wire, DMATxDescToSet, semVars, frame, handle, DmaTxDesc>>

\* ... and has the DMA look again.
Resume(t) ==
    /\ Runs(t, "resume")
    /\ dma' = IF dma = "suspended" THEN "running" ELSE dma
    /\ Goto(t, "error")
    /\ UNCHANGED <<own, buffer, dmaDesc, TBUS, wire, DMATxDescToSet, semVars, frame, handle, DmaTxDesc>>

\* The label error: the give, to the semaphore that the variable holds by now.
Give(t) ==
    /\ Runs(t, "error")
    /\ available' = [available EXCEPT ![xTxSemaphore] = TRUE]
    /\ Goto(t, "idle")
    /\ frame' = [frame EXCEPT ![t] = NoFrame] /\ DmaTxDesc' = [DmaTxDesc EXCEPT ![t] = 0]
    /\ UNCHANGED <<own, buffer, dmaVars, DMATxDescToSet, xTxSemaphore, handle>>

low_level_output(t) ==
    \/ Output(t) \/ Create(t) \/ GiveFirst(t) \/ Take(t) \/ Timeout(t) \/ Look(t) \/ Copy(t)
    \/ Prepare(t) \/ SetOwn(t) \/ Advance(t) \/ Poll(t) \/ Resume(t) \/ Give(t)

(***************************************************************************)
(* The link task starts and stops the DMA, without the semaphore.          *)
(***************************************************************************)
ETH_Start ==
    /\ Runs("link", "idle")
    /\ dma' = IF dma = "stopped" THEN "running" ELSE dma
    /\ UNCHANGED <<own, dmaDesc, TBUS, wire>> /\ DmaUnchanged

ETH_Stop ==
    /\ Runs("link", "idle")
    /\ dma' = "stopped"
    /\ UNCHANGED <<own, dmaDesc, TBUS, wire>> /\ DmaUnchanged

Next == Dma \/ (\E t \in Tasks : low_level_output(t)) \/ ETH_Start \/ ETH_Stop

Spec == Init /\ [][Next]_vars

-------------------------------------------------------------------------------
(***************************************************************************)
(* Properties.                                                             *)
(***************************************************************************)
\* Every variable holds a value of its type; no task creates the semaphore twice.
TypeOK ==
    /\ own \in [Descs -> {"dma", "cpu"}] /\ buffer \in [Descs -> Frames \cup {NoFrame}]
    /\ dmaDesc \in Descs /\ DMATxDescToSet \in Descs
    /\ dma \in {"running", "suspended", "stopped"} /\ TBUS \in BOOLEAN
    /\ wire \in Frames \cup {NoFrame}
    /\ xTxSemaphore \in 0 .. 3 /\ available \in [1 .. 3 -> BOOLEAN]
    /\ pc \in [Tasks -> {"idle", "create", "first", "take", "look", "copy", "prepare", "own",
                         "advance", "poll", "resume", "error"}]
    /\ frame \in [Tasks -> Frames \cup {NoFrame}] /\ handle \in [Tasks -> 0 .. 3]
    /\ DmaTxDesc \in [Tasks -> Descs]

InSection(t) == pc[t] \notin {"idle", "create", "first", "take"}
CreatedTwice == xTxSemaphore > 1

\* A frame given to a DMA that has suspended itself is not left there: the task that
\* gave it is still to wake the DMA.  The DMA may suspend itself, and the link task
\* may stop and start it, at any moment between the accesses of the driver.
NoFrameStranded ==
    dma = "suspended" /\ own[dmaDesc] = "dma" =>
        \E t \in Tasks : pc[t] \in {"advance", "poll", "resume"}

\* On every path, the error and the time-out included, the semaphore comes back: when
\* no task is in the section the next one can enter.
SemaphoreReturned ==
    xTxSemaphore > 0 /\ (\A t \in Tasks : ~InSection(t) /\ pc[t] # "first") =>
        available[xTxSemaphore]

\* The driver is a queue: frames are sent whole, once and in the order in which they
\* were given to the DMA.  This is lost only when two tasks that send for the first
\* time have each created the semaphore.
InRing ==
    CHOOSE n \in 0 .. TxBufNb :
        /\ \A j \in 0 .. n - 1 : own[(dmaDesc + j) % TxBufNb] = "dma"
        /\ n < TxBufNb => own[(dmaDesc + n) % TxBufNb] = "cpu"

Queue == INSTANCE FrameQueue WITH
    Size    <- TxBufNb,
    Nothing <- NoFrame,
    hand    <- wire,
    pending <- LET sending == IF wire = NoFrame THEN 0 ELSE 1
               IN  [j \in 1 .. InRing - sending |->
                       buffer[(dmaDesc + sending + j - 1) % TxBufNb]]

OutputIsQueue == Queue!QInit /\ [][CreatedTwice' \/ Queue!QNext]_(Queue!qvars)
===============================================================================

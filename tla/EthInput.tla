------------------------------- MODULE EthInput -------------------------------
(***************************************************************************)
(* The receive path of the Ethernet driver: the DMA fills the descriptors  *)
(* of a ring, ETH_IRQHandler wakes the task ethernetif_input, which copies *)
(* one frame after the other into pbufs, gives the descriptors back and    *)
(* posts the pbufs to the mailbox of the tcpip thread.                     *)
(*                                                                         *)
(* The task has the highest priority of all (configMAX_PRIORITIES - 1) and *)
(* blocks only on s_xSemaphore: the tcpip thread and the readers of the    *)
(* sockets run while it is blocked.  The DMA runs any time, and an         *)
(* interrupt that is pending is served before any task takes a step.       *)
(*                                                                         *)
(* A buffer of ETH_RX_BUF_SIZE bytes holds the longest frame, so that each *)
(* frame takes one descriptor, which is its first and its last segment.    *)
(***************************************************************************)
EXTENDS Naturals, Sequences

CONSTANTS
    RxBufNb,        \* descriptors; ETH_RXBUFNB is 20
    PoolSize,       \* pbufs; PBUF_POOL_SIZE is 8
    MboxSize,       \* messages; every mailbox of the port holds 6
    RecvMboxSize,   \* datagrams that wait in a socket; 6
    Frames,         \* contents and length of a frame, as one value
    NoFrame

ASSUME RingAssumption == /\ RxBufNb \in Nat /\ RxBufNb >= 2
                         /\ PoolSize \in Nat \ {0} /\ MboxSize \in Nat \ {0}
                         /\ RecvMboxSize \in Nat /\ NoFrame \notin Frames

Descs == 0 .. RxBufNb - 1

\* Slip: the last descriptor is not chained to the first.
NextUnchained(d) == d + 1

NextDesc(d) == (d + 1) % RxBufNb

VARIABLES
    own, buffer,        \* per descriptor: "dma" or "cpu"; the frame it holds
    dmaDesc,            \* the descriptor that the DMA fills next
    DMARxDescToGet, FS_Rx_Desc, Seg_Count,
    R,                  \* ETH_DMA_FLAG_R
    irqPc, s_xSemaphore,
    pc, length, k, p,   \* ethernetif_input: the frame got, its pbuf
    free,               \* pbufs in the pool
    mbox, inThread,     \* pbufs posted; does the thread hold one?
    recvmbox,           \* datagrams that wait in sockets
    gaveUp,             \* history: the last pass ended with an error ...
    dry                 \* ... and the pool has once had no pbuf for a frame

hwVars   == <<own, buffer, dmaDesc>>
rxVars   == <<DMARxDescToGet, FS_Rx_Desc, Seg_Count>>
irqVars  == <<R, irqPc>>
upVars   == <<mbox, inThread, recvmbox>>
histVars == <<gaveUp, dry>>
vars == <<own, buffer, dmaDesc, DMARxDescToGet, FS_Rx_Desc, Seg_Count, R, irqPc,
          s_xSemaphore, pc, length, k, p, free, mbox, inThread, recvmbox, gaveUp, dry>>

NoPbuf == [data |-> NoFrame, length |-> NoFrame]

\* low_level_init and ETH_DMARxDescChainInit.
Init ==
    /\ own = [d \in Descs |-> "dma"] /\ buffer = [d \in Descs |-> NoFrame]
    /\ dmaDesc = 0
    /\ DMARxDescToGet = 0 /\ FS_Rx_Desc = 0 /\ Seg_Count = 0
    /\ R = FALSE /\ irqPc = "idle" /\ s_xSemaphore = FALSE
    /\ pc = "wait" /\ length = NoFrame /\ k = 0 /\ p = NoPbuf
    /\ free = PoolSize
    /\ mbox = <<>> /\ inThread = FALSE /\ recvmbox = 0
    /\ gaveUp = FALSE /\ dry = FALSE

-------------------------------------------------------------------------------
(***************************************************************************)
(* The DMA and its interrupt.                                              *)
(***************************************************************************)
\* A frame comes in.  Without a descriptor of its own the DMA drops it.
Arrive ==
    /\ own[dmaDesc] = "dma"
    /\ \E f \in Frames : buffer' = [buffer EXCEPT ![dmaDesc] = f]
    /\ own' = [own EXCEPT ![dmaDesc] = "cpu"]
    /\ dmaDesc' = NextDesc(dmaDesc)
    /\ R' = TRUE
    /\ UNCHANGED <<rxVars, irqPc, s_xSemaphore, pc, length, k, p, free, upVars, histVars>>

\* ETH_IRQHandler, up to the give ...
IrqGive ==
    /\ irqPc = "idle" /\ R
    /\ s_xSemaphore' = TRUE
    /\ irqPc' = "clear"
    /\ UNCHANGED <<hwVars, rxVars, R, pc, length, k, p, free, upVars, histVars>>

\* ... and the clear, which also covers frames that have come in since.
IrqClear ==
    /\ irqPc = "clear"
    /\ R' = FALSE
    /\ irqPc' = "idle"
    /\ UNCHANGED <<hwVars, rxVars, s_xSemaphore, pc, length, k, p, free, upVars, histVars>>

-------------------------------------------------------------------------------
(***************************************************************************)
(* ethernetif_input.                                                       *)
(***************************************************************************)
NoInterrupt == irqPc = "idle" /\ ~R
TaskRuns(at) == NoInterrupt /\ pc = at

Take ==
    /\ TaskRuns("wait") /\ s_xSemaphore
    /\ s_xSemaphore' = FALSE
    /\ pc' = "get" /\ gaveUp' = FALSE
    /\ UNCHANGED <<hwVars, rxVars, irqVars, length, k, p, free, upVars, dry>>

\* ETH_Get_Received_Frame_interrupt finds no frame: the pass is over.
GetNone ==
    /\ TaskRuns("get") /\ own[DMARxDescToGet] = "dma"
    /\ pc' = "wait"
    /\ UNCHANGED <<hwVars, rxVars, irqVars, s_xSemaphore, length, k, p, free, upVars, histVars>>

\* Slip: Seg_Count is tested before it is counted up.
GetKeepsFirst ==
    /\ TaskRuns("get") /\ own[DMARxDescToGet] = "cpu"
    /\ Seg_Count' = Seg_Count + 1
    /\ FS_Rx_Desc' = IF Seg_Count = 1 THEN DMARxDescToGet ELSE FS_Rx_Desc
    /\ length' = buffer[DMARxDescToGet]
    /\ DMARxDescToGet' = NextDesc(DMARxDescToGet)
    /\ pc' = "alloc"
    /\ UNCHANGED <<hwVars, irqVars, s_xSemaphore, k, p, free, upVars, histVars>>

\* It finds one.  Seg_Count is 0 before, unless the frame before was given up.
Get ==
    /\ TaskRuns("get") /\ own[DMARxDescToGet] = "cpu"
    /\ Seg_Count' = Seg_Count + 1
    /\ FS_Rx_Desc' = IF Seg_Count = 0 THEN DMARxDescToGet ELSE FS_Rx_Desc
    /\ length' = buffer[DMARxDescToGet]
    /\ DMARxDescToGet' = NextDesc(DMARxDescToGet)
    /\ pc' = "alloc"
    /\ UNCHANGED <<hwVars, irqVars, s_xSemaphore, k, p, free, upVars, histVars>>

\* pbuf_alloc and the copy of length bytes from the buffer of the first segment.
Alloc ==
    /\ TaskRuns("alloc") /\ free > 0
    /\ free' = free - 1
    /\ p' = [data |-> buffer[FS_Rx_Desc], length |-> length]
    /\ pc' = "release" /\ k' = 0
    /\ UNCHANGED <<hwVars, rxVars, irqVars, s_xSemaphore, length, upVars, histVars>>

\* No pbuf: the descriptor is not released, nor Seg_Count cleared.
AllocFails ==
    /\ TaskRuns("alloc") /\ free = 0
    /\ pc' = "wait" /\ length' = NoFrame /\ gaveUp' = TRUE /\ dry' = TRUE
    /\ UNCHANGED <<hwVars, rxVars, irqVars, s_xSemaphore, k, p, free, upVars>>

\* Slips: one descriptor too many is released; Seg_Count is not cleared.
ReleaseTooMany ==
    /\ TaskRuns("release")
    /\ own' = [own EXCEPT ![(FS_Rx_Desc + k) % RxBufNb] = "dma"]
    /\ IF k < Seg_Count
         THEN k' = k + 1 /\ UNCHANGED <<pc, Seg_Count, length>>
         ELSE k' = 0 /\ pc' = "input" /\ Seg_Count' = 0 /\ length' = NoFrame
    /\ UNCHANGED <<buffer, dmaDesc, DMARxDescToGet, FS_Rx_Desc, irqVars, s_xSemaphore,
                   p, free, upVars, histVars>>

ReleaseUncleared ==
    /\ TaskRuns("release")
    /\ own' = [own EXCEPT ![(FS_Rx_Desc + k) % RxBufNb] = "dma"]
    /\ IF k + 1 < Seg_Count
         THEN k' = k + 1 /\ UNCHANGED <<pc, Seg_Count, length>>
         ELSE k' = 0 /\ pc' = "input" /\ length' = NoFrame /\ Seg_Count' = 1
    /\ UNCHANGED <<buffer, dmaDesc, DMARxDescToGet, FS_Rx_Desc, irqVars, s_xSemaphore,
                   p, free, upVars, histVars>>

\* One turn of the loop that gives Seg_Count descriptors back to the DMA.
Release ==
    /\ TaskRuns("release")
    /\ own' = [own EXCEPT ![(FS_Rx_Desc + k) % RxBufNb] = "dma"]
    /\ IF k + 1 < Seg_Count
         THEN k' = k + 1 /\ UNCHANGED <<pc, Seg_Count, length>>
         ELSE k' = 0 /\ pc' = "input" /\ Seg_Count' = 0 /\ length' = NoFrame
    /\ UNCHANGED <<buffer, dmaDesc, DMARxDescToGet, FS_Rx_Desc, irqVars, s_xSemaphore,
                   p, free, upVars, histVars>>

\* Slip: the task waits for the semaphore after every frame.
InputOnce ==
    /\ TaskRuns("input") /\ Len(mbox) < MboxSize
    /\ mbox' = Append(mbox, p) /\ p' = NoPbuf
    /\ pc' = "wait"
    /\ UNCHANGED <<hwVars, rxVars, irqVars, s_xSemaphore, length, k, free, inThread, recvmbox, histVars>>

\* tcpip_input posts the pbuf; then the next frame.
Input ==
    /\ TaskRuns("input") /\ Len(mbox) < MboxSize
    /\ mbox' = Append(mbox, p) /\ p' = NoPbuf
    /\ pc' = "get"
    /\ UNCHANGED <<hwVars, rxVars, irqVars, s_xSemaphore, length, k, free, inThread, recvmbox, histVars>>

\* Slip: the pbuf is not freed.
InputFailsLeaks ==
    /\ TaskRuns("input") /\ Len(mbox) = MboxSize
    /\ UNCHANGED free /\ p' = NoPbuf
    /\ pc' = "wait" /\ gaveUp' = TRUE
    /\ UNCHANGED <<hwVars, rxVars, irqVars, s_xSemaphore, length, k, upVars, dry>>

\* The mailbox is full: the frame is dropped and the pass is over.
InputFails ==
    /\ TaskRuns("input") /\ Len(mbox) = MboxSize
    /\ free' = free + 1 /\ p' = NoPbuf
    /\ pc' = "wait" /\ gaveUp' = TRUE
    /\ UNCHANGED <<hwVars, rxVars, irqVars, s_xSemaphore, length, k, upVars, dry>>

Task == Take \/ GetNone \/ Get \/ Alloc \/ AllocFails \/ Release \/ Input \/ InputFails

-------------------------------------------------------------------------------
(***************************************************************************)
(* The tcpip thread and the readers of the sockets.                        *)
(***************************************************************************)
TaskBlocked == NoInterrupt /\ pc = "wait" /\ ~s_xSemaphore

Fetch ==
    /\ TaskBlocked /\ ~inThread /\ mbox # <<>>
    /\ mbox' = Tail(mbox) /\ inThread' = TRUE
    /\ UNCHANGED <<hwVars, rxVars, irqVars, s_xSemaphore, pc, length, k, p, free, recvmbox, histVars>>

\* The stack is done with the frame.
Consume ==
    /\ TaskBlocked /\ inThread
    /\ inThread' = FALSE /\ free' = free + 1
    /\ UNCHANGED <<hwVars, rxVars, irqVars, s_xSemaphore, pc, length, k, p, mbox, recvmbox, histVars>>

\* The frame waits in a socket, if there is room ...
Deliver ==
    /\ TaskBlocked /\ inThread /\ recvmbox < RecvMboxSize
    /\ inThread' = FALSE /\ recvmbox' = recvmbox + 1
    /\ UNCHANGED <<hwVars, rxVars, irqVars, s_xSemaphore, pc, length, k, p, free, mbox, histVars>>

\* ... until it is read.
Recv ==
    /\ TaskBlocked /\ recvmbox > 0
    /\ recvmbox' = recvmbox - 1 /\ free' = free + 1
    /\ UNCHANGED <<hwVars, rxVars, irqVars, s_xSemaphore, pc, length, k, p, mbox, inThread, histVars>>

Irq == IrqGive \/ IrqClear
Thread == Fetch \/ Consume \/ Deliver

Next == Arrive \/ Irq \/ Task \/ Thread \/ Recv

Spec == Init /\ [][Next]_vars

\* The interrupt is served, the tasks run when they are ready, the sockets are read,
\* and frames keep coming.
FairSpec == /\ Spec
            /\ WF_vars(Irq) /\ WF_vars(Task) /\ WF_vars(Thread) /\ WF_vars(Recv)
            /\ WF_vars(Arrive)

-------------------------------------------------------------------------------
(***************************************************************************)
(* Properties.                                                             *)
(***************************************************************************)
Ready == own[DMARxDescToGet] = "cpu"

\* Every variable holds a value of its type.  Seg_Count passes the size of the ring,
\* by one: the semaphore may be one wake-up ahead of the frames.
TypeOK ==
    /\ own \in [Descs -> {"dma", "cpu"}] /\ buffer \in [Descs -> Frames \cup {NoFrame}]
    /\ dmaDesc \in Descs /\ DMARxDescToGet \in Descs /\ FS_Rx_Desc \in Descs
    /\ Seg_Count \in 0 .. RxBufNb + 1
    /\ R \in BOOLEAN /\ irqPc \in {"idle", "clear"} /\ s_xSemaphore \in BOOLEAN
    /\ pc \in {"wait", "get", "alloc", "release", "input"}
    /\ length \in Frames \cup {NoFrame} /\ k \in 0 .. RxBufNb
    /\ p \in [data : Frames \cup {NoFrame}, length : Frames \cup {NoFrame}]
    /\ free \in 0 .. PoolSize
    /\ Len(mbox) <= MboxSize /\ inThread \in BOOLEAN /\ recvmbox \in 0 .. RecvMboxSize
    /\ gaveUp \in BOOLEAN /\ dry \in BOOLEAN

\* No pbuf is lost, on any path: each is in the pool or in one pair of hands.
PbufsAccounted ==
    PoolSize = free + Len(mbox) + recvmbox
                 + (IF inThread THEN 1 ELSE 0) + (IF p # NoPbuf THEN 1 ELSE 0)

\* A frame that waits while nothing is about to wake the task is one on which, or
\* before which, the task gave up: no wake-up is lost between the test of the last
\* descriptor, the interrupt and the wait.
NoWakeupLost ==
    Ready /\ TaskBlocked => gaveUp

\* The loop that gives descriptors back gives back what the CPU owns: it never runs
\* into a descriptor that the DMA is filling, however many frames were given up.
ReleasesOwnOnly ==
    pc = "release" => \A j \in k .. Seg_Count - 1 : own[(FS_Rx_Desc + j) % RxBufNb] = "cpu"

\* The descriptors are never out of step: either the DMA will fill next what the
\* task will look at next, or frames or given-up descriptors lie between the two.
InStep ==
    dmaDesc # DMARxDescToGet => own[DMARxDescToGet] = "cpu"

\* As long as the pool has had a pbuf for every frame, the driver is a queue: frames
\* are copied whole, once, in the order they came in, and a mailbox that is full
\* loses only the frame in hand.
HeadDesc == IF pc = "alloc" THEN FS_Rx_Desc ELSE DMARxDescToGet
InRing ==
    IF dmaDesc # HeadDesc THEN (dmaDesc + RxBufNb - HeadDesc) % RxBufNb
    ELSE IF own[HeadDesc] = "cpu" /\ pc # "release" THEN RxBufNb ELSE 0

Queue == INSTANCE FrameQueue WITH
    Size    <- RxBufNb,
    Nothing <- NoPbuf,
    Frames  <- {[data |-> f, length |-> f] : f \in Frames},
    pending <- [j \in 1 .. InRing |->
                  LET f == buffer[(HeadDesc + j - 1) % RxBufNb] IN [data |-> f, length |-> f]],
    hand    <- p

ImplementsQueue == Queue!QInit /\ [][dry' \/ Queue!QNext]_(Queue!qvars)

-------------------------------------------------------------------------------
(***************************************************************************)
(* What the comments say and the code does not do.                         *)
(***************************************************************************)
\* ethernetif.c:348 says the task is processed when a packet is ready to be read
\* from the interface: a frame that is ready is followed by a frame passed on.
ReadyIsProcessed == Ready ~> (pc = "input")
===============================================================================

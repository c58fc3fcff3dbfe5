--------------------------- MODULE EthOutput_proofs ---------------------------
(***************************************************************************)
(* The safety properties of EthOutput and its refinement of FrameQueue,    *)
(* for every number of descriptors and every set of frames.                *)
(***************************************************************************)
EXTENDS EthOutput, SequenceTheorems, TLAPS

\* At most one semaphore per task: a task creates one only if it has seen none.
Creating(t) == IF pc[t] = "create" THEN 1 ELSE 0
SemaphoresBounded ==
    xTxSemaphore + Creating("tcpip") + Creating("main") + Creating("link") <= 3

\* A task that waits for a semaphore, holds one or has just created one has one.
SemaphoreExists ==
    \A t \in Tasks : /\ pc[t] \notin {"idle", "create"} => xTxSemaphore > 0
                     /\ pc[t] = "take" => handle[t] \in 1 .. 3

\* The DMA suspends itself between two frames, and the flag that says so is cleared
\* only by a task that goes on to wake it.
SuspendedIsFlagged ==
    dma = "suspended" => wire = NoFrame /\ (TBUS \/ \E t \in Tasks : pc[t] = "resume")

IInv == /\ TypeOK /\ SemaphoresBounded /\ SemaphoreExists
        /\ SuspendedIsFlagged /\ NoFrameStranded /\ SemaphoreReturned

-------------------------------------------------------------------------------
LEMMA NextInRing == ASSUME NEW d \in Descs PROVE NextDesc(d) \in Descs
BY TxAssumption, SMT DEF Descs, NextDesc

LEMMA InitInv == Init => IInv
<1> SUFFICES ASSUME Init PROVE IInv
  OBVIOUS
<1>1. 0 \in Descs
  BY TxAssumption DEF Descs
<1>2. TBUS \in BOOLEAN /\ available \in [1 .. 3 -> BOOLEAN]
  BY Zenon DEF Init
<1>3. own \in [Descs -> {"dma", "cpu"}] /\ buffer \in [Descs -> Frames \cup {NoFrame}]
  BY DEF Init
<1>4. TypeOK
  BY <1>1, <1>2, <1>3 DEF Init, TypeOK
<1> QED BY <1>4 DEF Init, IInv, SemaphoresBounded, Creating, SemaphoreExists, SuspendedIsFlagged,
                    NoFrameStranded, SemaphoreReturned, Tasks

\* The DMA, and the link task that stops and starts it.
LEMMA DmaInv == ASSUME IInv, Dma \/ ETH_Start \/ ETH_Stop PROVE IInv'
<1> USE DEF IInv
<1>0. UNCHANGED <<buffer, DMATxDescToSet, xTxSemaphore, available, pc, frame, handle, DmaTxDesc>>
  BY DEF Dma, Transmit, Transmitted, Suspend, ETH_Start, ETH_Stop, DmaUnchanged, semVars
<1>1. TypeOK'
  <2>1. TBUS' \in BOOLEAN
    BY Zenon DEF TypeOK, Dma, Transmit, Transmitted, Suspend, ETH_Start, ETH_Stop
  <2>2. dmaDesc' \in Descs
    BY NextInRing DEF TypeOK, Dma, Transmit, Transmitted, Suspend, ETH_Start, ETH_Stop
  <2>3. /\ own' \in [Descs -> {"dma", "cpu"}] /\ dma' \in {"running", "suspended", "stopped"}
        /\ wire' \in Frames \cup {NoFrame}
    BY DEF TypeOK, Dma, Transmit, Transmitted, Suspend, ETH_Start, ETH_Stop
  <2> QED BY <1>0, <2>1, <2>2, <2>3 DEF TypeOK
<1>2. SemaphoresBounded' /\ SemaphoreExists' /\ SemaphoreReturned'
  BY <1>0 DEF SemaphoresBounded, Creating, SemaphoreExists, SemaphoreReturned, InSection
<1>3. SuspendedIsFlagged' /\ NoFrameStranded'
  BY <1>0 DEF TypeOK, SuspendedIsFlagged, NoFrameStranded, Dma, Transmit, Transmitted, Suspend,
              ETH_Start, ETH_Stop
<1> QED BY <1>1, <1>2, <1>3

\* The entry to the section: the semaphore is created and taken.
LEMMA EntryInv ==
    ASSUME IInv, NEW t \in Tasks, Output(t) \/ Create(t) \/ GiveFirst(t) \/ Take(t) \/ Timeout(t)
    PROVE  IInv'
<1> USE DEF IInv, Runs, Goto
<1>0. UNCHANGED <<own, buffer, dmaDesc, dma, TBUS, wire, DMATxDescToSet, DmaTxDesc>>
  BY DEF Output, Create, GiveFirst, Take, Timeout, dmaVars
<1>1. t \in {"tcpip", "main", "link"}
  BY DEF Tasks
<1>2. TypeOK' /\ SemaphoresBounded'
  <2>1. xTxSemaphore' \in 0 .. 3 /\ SemaphoresBounded'
    BY <1>1 DEF Output, Create, GiveFirst, Take, Timeout, semVars, Tasks, TypeOK,
                SemaphoresBounded, Creating, SemaphoreExists
  <2>2. available' \in [1 .. 3 -> BOOLEAN]
    BY Zenon DEF Output, Create, GiveFirst, Take, Timeout, semVars, TypeOK
  <2>3. handle' \in [Tasks -> 0 .. 3]
    BY DEF Output, Create, GiveFirst, Take, Timeout, semVars, TypeOK
  <2>4. frame' \in [Tasks -> Frames \cup {NoFrame}]
    BY DEF Output, Create, GiveFirst, Take, Timeout, semVars, TypeOK
  <2>5. pc' \in [Tasks -> {"idle", "create", "first", "take", "look", "copy", "prepare", "own",
                          "advance", "poll", "resume", "error"}]
    BY DEF Output, Create, GiveFirst, Take, Timeout, semVars, TypeOK
  <2> QED BY <1>0, <2>1, <2>2, <2>3, <2>4, <2>5 DEF TypeOK
<1>3. SemaphoreExists'
  BY <1>0 DEF Output, Create, GiveFirst, Take, Timeout, semVars, TypeOK, SemaphoreExists
<1>4. SuspendedIsFlagged' /\ NoFrameStranded'
  BY <1>0 DEF Output, Create, GiveFirst, Take, Timeout, TypeOK, SuspendedIsFlagged, NoFrameStranded
<1>5. SemaphoreReturned'
  BY <1>0, <1>2 DEF Output, Create, GiveFirst, Take, Timeout, semVars, TypeOK, SemaphoreExists,
                    SemaphoreReturned, InSection
<1> QED BY <1>2, <1>3, <1>4, <1>5

\* The steps within the section, and the give that ends it.
LEMMA SectionInv ==
    ASSUME IInv, NEW t \in Tasks,
           \/ Look(t) \/ Copy(t) \/ Prepare(t) \/ SetOwn(t) \/ Advance(t) \/ Poll(t) \/ Resume(t)
           \/ Give(t)
    PROVE  IInv'
<1> USE DEF IInv, Runs, Goto
<1>0. /\ UNCHANGED <<dmaDesc, wire, xTxSemaphore, handle>>
      /\ pc[t] \notin {"idle", "create", "first", "take"}
  BY DEF Look, Copy, Prepare, SetOwn, Advance, Poll, Resume, Give, dmaVars, semVars
<1>a. PICK next \in {"idle", "copy", "prepare", "own", "advance", "poll", "resume", "error"} :
        pc' = [pc EXCEPT ![t] = next]
  BY DEF Look, Copy, Prepare, SetOwn, Advance, Poll, Resume, Give
<1>1. TypeOK'
  <2>1. TBUS' \in BOOLEAN
    BY Zenon DEF Look, Copy, Prepare, SetOwn, Advance, Poll, Resume, Give, dmaVars, TypeOK
  <2>2. available' \in [1 .. 3 -> BOOLEAN]
    BY Zenon DEF Look, Copy, Prepare, SetOwn, Advance, Poll, Resume, Give, semVars, TypeOK
  <2>3. pc' \in [Tasks -> {"idle", "create", "first", "take", "look", "copy", "prepare", "own",
                          "advance", "poll", "resume", "error"}]
    BY <1>a DEF TypeOK
  <2>4. /\ own' \in [Descs -> {"dma", "cpu"}] /\ buffer' \in [Descs -> Frames \cup {NoFrame}]
        /\ dma' \in {"running", "suspended", "stopped"}
        /\ frame' \in [Tasks -> Frames \cup {NoFrame}]
    BY DEF Look, Copy, Prepare, SetOwn, Advance, Poll, Resume, Give, dmaVars, TypeOK
  <2>5. 0 \in Descs
    BY TxAssumption DEF Descs
  <2>6. DMATxDescToSet' \in Descs /\ DmaTxDesc' \in [Tasks -> Descs]
    BY <2>5, NextInRing
       DEF Look, Copy, Prepare, SetOwn, Advance, Poll, Resume, Give, dmaVars, TypeOK
  <2> QED BY <1>0, <2>1, <2>2, <2>3, <2>4, <2>6 DEF TypeOK
<1>2. SemaphoresBounded' /\ SemaphoreExists'
  BY <1>0, <1>a DEF TypeOK, SemaphoresBounded, Creating, SemaphoreExists, Tasks
<1>3. SuspendedIsFlagged'
  BY <1>0, <1>a DEF Look, Copy, Prepare, SetOwn, Advance, Poll, Resume, Give, dmaVars, TypeOK,
              SuspendedIsFlagged
<1>4. NoFrameStranded'
  BY <1>0, <1>a DEF Look, Copy, Prepare, SetOwn, Advance, Poll, Resume, Give, dmaVars, TypeOK,
              SuspendedIsFlagged, NoFrameStranded
<1>5. SemaphoreReturned'
  <2>1. CASE Give(t)
    BY <1>0, <1>a, <2>1 DEF Give, TypeOK, SemaphoreReturned, SemaphoreExists
  <2>2. CASE ~Give(t)
    <3>1. InSection(t)'
      BY <1>0, <1>a, <2>2 DEF Look, Copy, Prepare, SetOwn, Advance, Poll, Resume, InSection, TypeOK
    <3> QED BY <3>1 DEF SemaphoreReturned
  <2> QED BY <2>1, <2>2
<1> QED BY <1>1, <1>2, <1>3, <1>4, <1>5

THEOREM Inductive == Spec => []IInv
<1>1. IInv /\ UNCHANGED vars => IInv'
  BY DEF vars, IInv, TypeOK, SemaphoresBounded, Creating, SemaphoreExists, SuspendedIsFlagged,
         NoFrameStranded, SemaphoreReturned, InSection
<1>2. IInv /\ [Next]_vars => IInv'
  BY <1>1, DmaInv, EntryInv, SectionInv DEF Next, low_level_output
<1> QED BY InitInv, <1>2, PTL DEF Spec

\* Every variable of the transmit path keeps its type: no task creates the semaphore
\* twice, and the descriptors stay in the ring.
THEOREM TypeCorrect == Spec => []TypeOK
BY Inductive, PTL DEF IInv

\* A frame given to a DMA that has suspended itself has a task on its way to wake it.
THEOREM NothingStranded == Spec => []NoFrameStranded
BY Inductive, PTL DEF IInv

\* The semaphore comes back on every path through low_level_output.
THEOREM SemaphoreComesBack == Spec => []SemaphoreReturned
BY Inductive, PTL DEF IInv

-------------------------------------------------------------------------------
(***************************************************************************)
(* The driver as a queue.  As long as there is one semaphore at most, one  *)
(* task at a time is in the section, works on the descriptor that          *)
(* DMATxDescToSet names, and puts a frame into it before it gives it away. *)
(***************************************************************************)
Busy(t) == InSection(t) \/ pc[t] = "first"

OneAtATime ==
    /\ \A t, u \in Tasks : Busy(t) /\ Busy(u) => t = u
    /\ available[1] => xTxSemaphore = 1 /\ \A t \in Tasks : ~Busy(t)
    /\ \A t \in Tasks : handle[t] <= xTxSemaphore

Owner ==
    \A t \in Tasks :
        /\ pc[t] \in {"copy", "prepare", "own", "advance"} => DmaTxDesc[t] = DMATxDescToSet
        /\ pc[t] \in {"copy", "prepare", "own"} => own[DMATxDescToSet] = "cpu"
        /\ pc[t] \in {"prepare", "own"} => buffer[DMATxDescToSet] \in Frames
        /\ pc[t] \in {"create", "first", "take", "look", "copy"} => frame[t] \in Frames

Full == \A d \in Descs : own[d] = "dma" => buffer[d] \in Frames

\* Of the descriptors of ring o the DMA owns the n from descriptor d on.
OwnedFrom(o, d, n) ==
    \A j \in 0 .. TxBufNb - 1 : o[(d + j) % TxBufNb] = IF j < n THEN "dma" ELSE "cpu"

\* The descriptor that the next frame goes to, once the task in the section has gone on.
NextToSet ==
    IF \E t \in Tasks : pc[t] = "advance" THEN NextDesc(DMATxDescToSet) ELSE DMATxDescToSet

RingHolds(n) ==
    /\ OwnedFrom(own, dmaDesc, n) /\ NextToSet = (dmaDesc + n) % TxBufNb
    /\ wire # NoFrame => n > 0

QInv == ~CreatedTwice =>
            OneAtATime /\ Owner /\ Full /\ \E n \in 0 .. TxBufNb : RingHolds(n)

-------------------------------------------------------------------------------
(***************************************************************************)
(* Lemmas about the ring.                                                  *)
(***************************************************************************)
LEMMA Wraps ==
    /\ \A i \in 0 .. TxBufNb - 1 : i % TxBufNb = i
    /\ \A i \in TxBufNb .. 2 * TxBufNb - 1 : i % TxBufNb = i - TxBufNb
    /\ (2 * TxBufNb) % TxBufNb = 0
<1>1. ASSUME NEW i \in 0 .. TxBufNb - 1 PROVE i % TxBufNb = i
  BY TxAssumption
<1>2. ASSUME NEW i \in TxBufNb .. 2 * TxBufNb - 1 PROVE i % TxBufNb = i - TxBufNb
  BY TxAssumption
<1>3. (2 * TxBufNb) % TxBufNb = 0
  BY TxAssumption
<1> QED BY <1>1, <1>2, <1>3

\* The descriptor j steps away, and the one after it.
LEMMA Slot ==
    ASSUME NEW d \in Descs, NEW j \in 0 .. TxBufNb
    PROVE  /\ (d + j) % TxBufNb = IF d + j < TxBufNb THEN d + j ELSE d + j - TxBufNb
           /\ (d + j) % TxBufNb \in Descs
           /\ NextDesc((d + j) % TxBufNb) = (d + j + 1) % TxBufNb
<1> USE TxAssumption DEF Descs
<1>1. (d + j) % TxBufNb = IF d + j < TxBufNb THEN d + j ELSE d + j - TxBufNb
  BY Wraps
<1>2. (d + j) % TxBufNb \in Descs
  BY <1>1
<1>3. NextDesc((d + j) % TxBufNb) = (d + j + 1) % TxBufNb
  <2>1. CASE d + j + 1 < TxBufNb
    BY <1>1, <2>1 DEF NextDesc
  <2>2. CASE d + j + 1 = TxBufNb
    BY <1>1, <2>2 DEF NextDesc
  <2>3. CASE d + j >= TxBufNb
    <3>1. d + j + 1 \in TxBufNb .. 2 * TxBufNb
      BY <2>3
    <3>2. (d + j + 1) % TxBufNb = IF d + j + 1 = 2 * TxBufNb THEN 0 ELSE d + j + 1 - TxBufNb
      BY <3>1, Wraps
    <3>3. d + j - TxBufNb + 1 \in 0 .. TxBufNb
      BY <2>3
    <3>4. (d + j - TxBufNb + 1) % TxBufNb =
            IF d + j + 1 = 2 * TxBufNb THEN 0 ELSE d + j + 1 - TxBufNb
      BY <3>3, Wraps
    <3> QED BY <1>1, <2>3, <3>2, <3>4 DEF NextDesc
  <2> QED BY <2>1, <2>2, <2>3
<1> QED BY <1>1, <1>2, <1>3

LEMMA Here == ASSUME NEW d \in Descs PROVE (d + 0) % TxBufNb = d
<1>1. d \in 0 .. TxBufNb - 1 /\ d + 0 = d
  BY TxAssumption DEF Descs
<1> QED BY <1>1, Wraps

LEMMA Around ==
    ASSUME NEW d \in Descs, NEW e \in Descs
    PROVE  \E j \in 0 .. TxBufNb - 1 : e = (d + j) % TxBufNb
<1> DEFINE j == IF e >= d THEN e - d ELSE e + TxBufNb - d
<1>1. j \in 0 .. TxBufNb - 1
  BY TxAssumption DEF Descs
<1>2. d + j = IF e >= d THEN e ELSE e + TxBufNb
  BY TxAssumption DEF Descs
<1> HIDE DEF j
<1>3. (d + j) % TxBufNb = IF d + j < TxBufNb THEN d + j ELSE d + j - TxBufNb
  BY <1>1, Slot, TxAssumption
<1>4. e = (d + j) % TxBufNb
  BY <1>2, <1>3, TxAssumption DEF Descs
<1> QED BY <1>1, <1>4

\* Steps from the descriptor after d.
LEMMA Further ==
    ASSUME NEW d \in Descs, NEW i \in 0 .. TxBufNb - 1
    PROVE  (NextDesc(d) + i) % TxBufNb = (d + (i + 1)) % TxBufNb
<1> USE TxAssumption DEF Descs
<1>1. NextDesc(d) = IF d + 1 < TxBufNb THEN d + 1 ELSE 0
  <2>1. 1 \in 0 .. TxBufNb
    OBVIOUS
  <2>2. (d + 1) % TxBufNb = IF d + 1 < TxBufNb THEN d + 1 ELSE d + 1 - TxBufNb
    BY <2>1, Slot
  <2> QED BY <2>2 DEF NextDesc
<1>2. NextDesc(d) \in Descs /\ i \in 0 .. TxBufNb /\ i + 1 \in 0 .. TxBufNb
  BY <1>1
<1>3. (NextDesc(d) + i) % TxBufNb =
        IF NextDesc(d) + i < TxBufNb THEN NextDesc(d) + i ELSE NextDesc(d) + i - TxBufNb
  BY <1>2, Slot
<1>4. (d + (i + 1)) % TxBufNb =
        IF d + (i + 1) < TxBufNb THEN d + (i + 1) ELSE d + (i + 1) - TxBufNb
  BY <1>2, Slot
<1> QED BY <1>1, <1>3, <1>4

\* The task gives the DMA the descriptor behind the n that it owns ...
LEMMA Grows ==
    ASSUME NEW o \in [Descs -> {"dma", "cpu"}], NEW d \in Descs, NEW n \in 0 .. TxBufNb - 1,
           OwnedFrom(o, d, n)
    PROVE  OwnedFrom([o EXCEPT ![(d + n) % TxBufNb] = "dma"], d, n + 1)
<1> SUFFICES ASSUME NEW j \in 0 .. TxBufNb - 1
             PROVE  [o EXCEPT ![(d + n) % TxBufNb] = "dma"][(d + j) % TxBufNb]
                      = IF j < n + 1 THEN "dma" ELSE "cpu"
  BY DEF OwnedFrom
<1> DEFINE At(i) == (d + i) % TxBufNb
<1>1. \A i \in 0 .. TxBufNb :
        At(i) = (IF d + i < TxBufNb THEN d + i ELSE d + i - TxBufNb) /\ At(i) \in Descs
  BY Slot
<1>2. o[At(j)] = IF j < n THEN "dma" ELSE "cpu"
  BY DEF OwnedFrom
<1> HIDE DEF At
<1>3. At(j) \in Descs /\ (At(j) = At(n) <=> j = n)
  <2>1. /\ At(j) \in Descs /\ At(j) = IF d + j < TxBufNb THEN d + j ELSE d + j - TxBufNb
        /\ At(n) = IF d + n < TxBufNb THEN d + n ELSE d + n - TxBufNb
    BY <1>1, TxAssumption
  <2> QED BY <2>1, TxAssumption DEF Descs
<1>4. [o EXCEPT ![At(n)] = "dma"][At(j)] = IF j < n + 1 THEN "dma" ELSE "cpu"
  BY <1>2, <1>3
<1> QED BY <1>4 DEF At

\* ... and the DMA gives the first of the n back.
LEMMA Shrinks ==
    ASSUME NEW o \in [Descs -> {"dma", "cpu"}], NEW d \in Descs, NEW n \in 1 .. TxBufNb,
           OwnedFrom(o, d, n)
    PROVE  OwnedFrom([o EXCEPT ![d] = "cpu"], NextDesc(d), n - 1)
<1> USE TxAssumption DEF Descs
<1> SUFFICES ASSUME NEW j \in 0 .. TxBufNb - 1
             PROVE  [o EXCEPT ![d] = "cpu"][(NextDesc(d) + j) % TxBufNb]
                      = IF j < n - 1 THEN "dma" ELSE "cpu"
  BY DEF OwnedFrom
<1>1. (NextDesc(d) + j) % TxBufNb = (d + (j + 1)) % TxBufNb
  BY Further
<1> DEFINE e == (d + (j + 1)) % TxBufNb
<1>2. e \in Descs /\ e = IF d + (j + 1) < TxBufNb THEN d + (j + 1) ELSE d + (j + 1) - TxBufNb
  <2>1. j + 1 \in 0 .. TxBufNb
    OBVIOUS
  <2> QED BY <2>1, Slot
<1>3. ASSUME j < TxBufNb - 1 PROVE o[e] = IF j + 1 < n THEN "dma" ELSE "cpu"
  <2>1. j + 1 \in 0 .. TxBufNb - 1
    BY <1>3
  <2> QED BY <2>1 DEF OwnedFrom
<1> HIDE DEF e
<1>4. [o EXCEPT ![d] = "cpu"][e] = IF j < n - 1 THEN "dma" ELSE "cpu"
  BY <1>2, <1>3
<1> QED BY <1>1, <1>4 DEF e

\* InRing, which chooses it, is the number of descriptors that the DMA owns.
LEMMA Counts ==
    \A n \in 0 .. TxBufNb : TypeOK /\ OwnedFrom(own, dmaDesc, n) => InRing = n
<1> USE TxAssumption
<1> SUFFICES ASSUME NEW n \in 0 .. TxBufNb, TypeOK, OwnedFrom(own, dmaDesc, n)
             PROVE  InRing = n
  OBVIOUS
<1> DEFINE OwnedAt(j) == own[(dmaDesc + j) % TxBufNb]
           Is(m) == /\ \A j \in 0 .. m - 1 : OwnedAt(j) = "dma"
                    /\ m < TxBufNb => OwnedAt(m) = "cpu"
<1>1. \A j \in 0 .. TxBufNb - 1 : OwnedAt(j) = IF j < n THEN "dma" ELSE "cpu"
  BY DEF OwnedFrom
<1>2. InRing = CHOOSE m \in 0 .. TxBufNb : Is(m)
  BY DEF InRing
<1> HIDE DEF OwnedAt
<1>3. Is(n)
  BY <1>1
<1>4. ASSUME NEW m \in 0 .. TxBufNb, Is(m) PROVE m = n
  <2>1. CASE m < n
    BY <1>1, <1>4, <2>1
  <2>2. CASE n < m
    <3>1. n \in 0 .. m - 1 /\ n \in 0 .. TxBufNb - 1
      BY <2>2
    <3> QED BY <1>1, <1>4, <3>1
  <2> QED BY <2>1, <2>2
<1> HIDE DEF Is
<1> QED BY <1>2, <1>3, <1>4

-------------------------------------------------------------------------------
(***************************************************************************)
(* One task at a time is in the section.                                   *)
(***************************************************************************)
SectionPcs == {"look", "copy", "prepare", "own", "advance", "poll", "resume", "error"}

LEMMA BusyPcs == TypeOK => \A t \in Tasks : Busy(t) <=> pc[t] \in SectionPcs \cup {"first"}
BY DEF TypeOK, Busy, InSection, SectionPcs

LEMMA Monotonic == ASSUME TypeOK, [Next]_vars, ~CreatedTwice' PROVE ~CreatedTwice
<1>1. xTxSemaphore' = xTxSemaphore \/ xTxSemaphore' = xTxSemaphore + 1
  BY DEF Next, vars, Dma, Transmit, Transmitted, Suspend, ETH_Start, ETH_Stop, DmaUnchanged, semVars,
         low_level_output, Output, Create, GiveFirst, Take, Timeout, Look, Copy, Prepare, SetOwn,
         Advance, Poll, Resume, Give
<1> QED BY <1>1 DEF TypeOK, CreatedTwice

LEMMA Inits == Init => QInv
<1> SUFFICES ASSUME Init PROVE OneAtATime /\ Owner /\ Full /\ RingHolds(0) /\ 0 \in 0 .. TxBufNb
  BY DEF QInv
<1> USE TxAssumption
<1>1. OneAtATime
  BY DEF Init, OneAtATime, Busy, InSection
<1>2. Owner /\ Full
  BY DEF Init, Owner, Full
<1>3. 0 \in Descs /\ dmaDesc = 0 /\ wire = NoFrame /\ NextToSet = 0
  BY DEF Init, Descs, NextToSet
<1>4. NextToSet = (dmaDesc + 0) % TxBufNb
  BY <1>3, Here
<1>5. ASSUME NEW j \in 0 .. TxBufNb - 1 PROVE own[(dmaDesc + j) % TxBufNb] = "cpu"
  <2>1. dmaDesc \in Descs /\ j \in 0 .. TxBufNb
    BY <1>3
  <2>2. (dmaDesc + j) % TxBufNb \in Descs
    BY <2>1, Slot
  <2> QED BY <2>2 DEF Init
<1>6. OwnedFrom(own, dmaDesc, 0)
  BY <1>5 DEF OwnedFrom
<1> QED BY <1>1, <1>2, <1>3, <1>4, <1>6 DEF RingHolds

LEMMA DmaUnseen ==
    ASSUME Dma \/ ETH_Start \/ ETH_Stop
    PROVE  UNCHANGED <<buffer, DMATxDescToSet, xTxSemaphore, available, pc, frame, handle, DmaTxDesc>>
BY DEF Dma, Transmit, Transmitted, Suspend, ETH_Start, ETH_Stop, DmaUnchanged, semVars

LEMMA StepOneAtATime ==
    ASSUME IInv, IInv', OneAtATime, Next, ~CreatedTwice, ~CreatedTwice'
    PROVE  OneAtATime'
<1>0. /\ TypeOK /\ TypeOK' /\ SemaphoreExists /\ xTxSemaphore \in {0, 1} /\ xTxSemaphore' \in {0, 1}
  BY DEF IInv, TypeOK, CreatedTwice
<1>b. \A t \in Tasks : /\ Busy(t) <=> pc[t] \in SectionPcs \cup {"first"}
                       /\ Busy(t)' <=> pc'[t] \in SectionPcs \cup {"first"}
  BY <1>0, BusyPcs DEF Busy, InSection, TypeOK, SectionPcs
<1>1. CASE Dma \/ ETH_Start \/ ETH_Stop
  BY <1>1, DmaUnseen DEF OneAtATime, Busy, InSection
<1>2. CASE \E t \in Tasks : low_level_output(t)
  <2> PICK t \in Tasks : low_level_output(t)
    BY <1>2
  <2> USE DEF Runs, Goto
  <2>0. pc \in [Tasks -> {"idle", "create", "first", "take", "look", "copy", "prepare", "own",
                         "advance", "poll", "resume", "error"}]
        /\ available \in [1 .. 3 -> BOOLEAN] /\ handle \in [Tasks -> 0 .. 3]
    BY <1>0 DEF TypeOK
  <2>1. CASE Output(t) \/ Timeout(t)
    <3>1. /\ ~Busy(t)' /\ available' = available /\ xTxSemaphore' = xTxSemaphore
          /\ \A u \in Tasks : u # t => pc'[u] = pc[u] /\ handle'[u] = handle[u]
          /\ handle'[t] <= xTxSemaphore
      BY <1>0, <1>b, <2>0, <2>1 DEF Output, Timeout, semVars, SectionPcs, OneAtATime
    <3>2. \A u \in Tasks : u # t => (Busy(u)' <=> Busy(u))
      BY <1>b, <3>1
    <3> HIDE DEF Busy
    <3> QED BY <3>1, <3>2 DEF OneAtATime
  <2>2. CASE Create(t)
    <3>1. /\ xTxSemaphore = 0 /\ xTxSemaphore' = 1 /\ available' = available /\ handle' = handle
          /\ \A u \in Tasks : u # t => pc'[u] = pc[u]
      BY <1>0, <2>0, <2>2 DEF Create
    <3>2. /\ ~available[1]
          /\ \A u \in Tasks : pc[u] \in {"idle", "create"} /\ handle[u] = 0
      BY <1>0, <2>0, <3>1 DEF OneAtATime, SemaphoreExists
    <3>3. \A u \in Tasks : u # t => ~Busy(u)'
      BY <1>b, <3>1, <3>2 DEF SectionPcs
    <3> QED BY <3>1, <3>2, <3>3 DEF OneAtATime
  <2>3. CASE GiveFirst(t)
    <3>1. /\ Busy(t) /\ ~Busy(t)' /\ xTxSemaphore = 1 /\ xTxSemaphore' = 1
          /\ \A u \in Tasks : u # t => pc'[u] = pc[u] /\ handle'[u] = handle[u]
          /\ handle'[t] = 1
      BY <1>0, <1>b, <2>0, <2>3 DEF GiveFirst, SemaphoreExists, SectionPcs
    <3>2. \A u \in Tasks : ~Busy(u)'
      BY <1>b, <3>1 DEF OneAtATime
    <3>3. \A u \in Tasks : handle'[u] <= 1
      BY <3>1 DEF OneAtATime
    <3> QED BY <3>1, <3>2, <3>3 DEF OneAtATime
  <2>4. CASE Take(t)
    <3>1. xTxSemaphore = 1 /\ xTxSemaphore' = 1 /\ handle[t] = 1 /\ available[1]
      BY <1>0, <2>0, <2>4 DEF Take, SemaphoreExists, OneAtATime
    <3>2. /\ ~available'[1] /\ \A u \in Tasks : ~Busy(u)
          /\ \A u \in Tasks : u # t => pc'[u] = pc[u] /\ handle'[u] = handle[u]
          /\ handle'[t] = 0
      BY <2>0, <2>4, <3>1 DEF Take, OneAtATime
    <3>3. \A u \in Tasks : u # t => ~Busy(u)'
      BY <1>b, <3>2
    <3>4. \A u \in Tasks : handle'[u] <= 1
      BY <3>1, <3>2 DEF OneAtATime
    <3> QED BY <3>1, <3>2, <3>3, <3>4 DEF OneAtATime
  <2>5. CASE Look(t) \/ Copy(t) \/ Prepare(t) \/ SetOwn(t) \/ Advance(t) \/ Poll(t) \/ Resume(t)
    <3>1. /\ Busy(t) /\ UNCHANGED <<available, xTxSemaphore, handle>>
          /\ \A u \in Tasks : u # t => pc'[u] = pc[u]
      BY <1>b, <2>0, <2>5 DEF Look, Copy, Prepare, SetOwn, Advance, Poll, Resume, semVars, SectionPcs
    <3>2. ~available[1] /\ \A u \in Tasks : Busy(u) => u = t
      BY <3>1 DEF OneAtATime
    <3>3. \A u \in Tasks : Busy(u)' => u = t
      BY <1>b, <3>1, <3>2
    <3> HIDE DEF Busy
    <3> QED BY <3>1, <3>2, <3>3 DEF OneAtATime
  <2>6. CASE Give(t)
    <3>1. /\ Busy(t) /\ ~Busy(t)' /\ xTxSemaphore = 1 /\ xTxSemaphore' = 1 /\ handle' = handle
          /\ \A u \in Tasks : u # t => pc'[u] = pc[u]
      BY <1>0, <1>b, <2>0, <2>6 DEF Give, SemaphoreExists, SectionPcs
    <3>2. \A u \in Tasks : ~Busy(u)'
      BY <1>b, <3>1 DEF OneAtATime
    <3> QED BY <3>1, <3>2 DEF OneAtATime
  <2> QED BY <2>1, <2>2, <2>3, <2>4, <2>5, <2>6 DEF low_level_output
<1> QED BY <1>1, <1>2 DEF Next

-------------------------------------------------------------------------------
(***************************************************************************)
(* The task in the section owns the descriptor that it works on.           *)
(***************************************************************************)
LEMMA StepOwner ==
    ASSUME IInv, OneAtATime, Owner, Full, Next, ~CreatedTwice'
    PROVE  Owner' /\ Full'
<1>0. TypeOK
  BY DEF IInv
<1>b. \A t \in Tasks : Busy(t) <=> pc[t] \in SectionPcs \cup {"first"}
  BY <1>0, BusyPcs
<1>t. /\ own \in [Descs -> {"dma", "cpu"}] /\ DMATxDescToSet \in Descs /\ dmaDesc \in Descs
      /\ frame \in [Tasks -> Frames \cup {NoFrame}] /\ DmaTxDesc \in [Tasks -> Descs]
      /\ buffer \in [Descs -> Frames \cup {NoFrame}]
      /\ pc \in [Tasks -> {"idle", "create", "first", "take", "look", "copy", "prepare", "own",
                           "advance", "poll", "resume", "error"}]
  BY <1>0 DEF TypeOK
<1>1. CASE Dma \/ ETH_Start \/ ETH_Stop
  <2>1. UNCHANGED <<buffer, DMATxDescToSet, pc, frame, DmaTxDesc>>
    BY <1>1, DmaUnseen
  <2>2. \A d \in Descs : own'[d] = own[d] \/ own'[d] = "cpu"
    BY <1>1, <1>t DEF Dma, Transmit, Transmitted, Suspend, ETH_Start, ETH_Stop
  <2> QED BY <1>t, <2>1, <2>2 DEF Owner, Full
<1>2. CASE \E t \in Tasks : low_level_output(t)
  <2> PICK t \in Tasks : low_level_output(t)
    BY <1>2
  <2> USE DEF Runs, Goto
  <2>1. CASE Output(t) \/ Create(t) \/ GiveFirst(t) \/ Take(t) \/ Timeout(t)
    <3>1. /\ UNCHANGED <<own, buffer, DMATxDescToSet, DmaTxDesc>>
          /\ \A u \in Tasks : u # t => pc'[u] = pc[u] /\ frame'[u] = frame[u]
          /\ pc'[t] \in {"idle", "create", "first", "take", "look"}
          /\ pc'[t] # "idle" => frame'[t] \in Frames
      BY <1>t, <2>1 DEF Output, Create, GiveFirst, Take, Timeout, Owner
    <3>2. Full'
      BY <3>1 DEF Full
    <3>3. ASSUME NEW u \in Tasks
          PROVE  /\ pc'[u] \in {"copy", "prepare", "own", "advance"} => DmaTxDesc'[u] = DMATxDescToSet'
                 /\ pc'[u] \in {"copy", "prepare", "own"} => own'[DMATxDescToSet'] = "cpu"
                 /\ pc'[u] \in {"prepare", "own"} => buffer'[DMATxDescToSet'] \in Frames
                 /\ pc'[u] \in {"create", "first", "take", "look", "copy"} => frame'[u] \in Frames
      <4>1. CASE u = t
        BY <3>1, <4>1
      <4>2. CASE u # t
        BY <3>1, <4>2 DEF Owner
      <4> QED BY <4>1, <4>2
    <3> QED BY <3>2, <3>3 DEF Owner
  <2>2. CASE Look(t) \/ Copy(t) \/ Prepare(t) \/ SetOwn(t) \/ Advance(t) \/ Poll(t) \/ Resume(t)
             \/ Give(t)
    <3>1. /\ pc[t] \in SectionPcs
          /\ \A u \in Tasks : u # t => pc'[u] = pc[u] /\ frame'[u] = frame[u]
      BY <1>t, <2>2 DEF Look, Copy, Prepare, SetOwn, Advance, Poll, Resume, Give, SectionPcs
    <3>2. \A u \in Tasks : u # t => pc'[u] \in {"idle", "create", "take"}
      BY <1>b, <1>t, <3>1 DEF OneAtATime, SectionPcs
    <3>3. ASSUME NEW u \in Tasks, u # t
          PROVE  pc'[u] \in {"create", "take"} => frame'[u] \in Frames
      BY <3>1, <3>3 DEF Owner
    <3>4. Full'
      BY <1>t, <2>2 DEF Look, Copy, Prepare, SetOwn, Advance, Poll, Resume, Give, Owner, Full
    <3>5. /\ pc'[t] \in {"copy", "prepare", "own", "advance"} => DmaTxDesc'[t] = DMATxDescToSet'
          /\ pc'[t] \in {"copy", "prepare", "own"} => own'[DMATxDescToSet'] = "cpu"
      BY <1>t, <2>2 DEF Look, Copy, Prepare, SetOwn, Advance, Poll, Resume, Give, Owner
    <3>6. /\ pc'[t] \in {"prepare", "own"} => buffer'[DMATxDescToSet'] \in Frames
          /\ pc'[t] \in {"create", "first", "take", "look", "copy"} => frame'[t] \in Frames
      BY <1>t, <2>2 DEF Look, Copy, Prepare, SetOwn, Advance, Poll, Resume, Give, Owner
    <3>7. ASSUME NEW u \in Tasks
          PROVE  /\ pc'[u] \in {"copy", "prepare", "own", "advance"} => DmaTxDesc'[u] = DMATxDescToSet'
                 /\ pc'[u] \in {"copy", "prepare", "own"} => own'[DMATxDescToSet'] = "cpu"
                 /\ pc'[u] \in {"prepare", "own"} => buffer'[DMATxDescToSet'] \in Frames
                 /\ pc'[u] \in {"create", "first", "take", "look", "copy"} => frame'[u] \in Frames
      <4>1. CASE u = t
        BY <3>5, <3>6, <4>1
      <4>2. CASE u # t
        BY <3>2, <3>3, <4>2
      <4> QED BY <4>1, <4>2
    <3> QED BY <3>4, <3>7 DEF Owner
  <2> QED BY <2>1, <2>2 DEF low_level_output
<1> QED BY <1>1, <1>2 DEF Next

-------------------------------------------------------------------------------
(***************************************************************************)
(* The descriptors of the DMA lie between its own and the task's.          *)
(***************************************************************************)
\* Steps that give no descriptor to the DMA and none back.
LEMMA RingSame ==
    ASSUME IInv, OneAtATime, Owner, NEW n \in 0 .. TxBufNb, RingHolds(n),
           \/ Transmit \/ Suspend \/ ETH_Start \/ ETH_Stop
           \/ \E t \in Tasks : \/ Output(t) \/ Create(t) \/ GiveFirst(t) \/ Take(t) \/ Timeout(t)
                               \/ Look(t) \/ Copy(t) \/ Prepare(t) \/ Advance(t) \/ Poll(t)
                               \/ Resume(t) \/ Give(t)
    PROVE  RingHolds(n)' /\ UNCHANGED <<own, dmaDesc>> /\ (Transmit => n > 0)
<1> USE TxAssumption
<1>0. TypeOK
  BY DEF IInv
<1>1. UNCHANGED <<own, dmaDesc>> /\ (~Transmit => wire' = wire)
  BY DEF Transmit, Suspend, ETH_Start, ETH_Stop, Output, Create, GiveFirst, Take, Timeout, Look, Copy,
         Prepare, Advance, Poll, Resume, Give, dmaVars
<1>2. ASSUME Transmit PROVE n > 0
  <2>1. own[(dmaDesc + 0) % TxBufNb] = IF 0 < n THEN "dma" ELSE "cpu"
    BY DEF RingHolds, OwnedFrom
  <2>2. (dmaDesc + 0) % TxBufNb = dmaDesc
    BY <1>0, Here DEF TypeOK
  <2> QED BY <1>2, <2>1, <2>2 DEF Transmit
<1>3. NextToSet' = NextToSet
  <2>1. CASE \E t \in Tasks : Advance(t)
    <3> PICK t \in Tasks : Advance(t)
      BY <2>1
    <3>1. pc[t] = "advance" /\ pc' = [pc EXCEPT ![t] = "poll"]
          /\ DMATxDescToSet' = NextDesc(DmaTxDesc[t])
      BY DEF Advance, Runs, Goto
    <3>2. DMATxDescToSet' = NextDesc(DMATxDescToSet)
      BY <3>1 DEF Owner
    <3>3. \A u \in Tasks : pc[u] = "advance" => u = t
      BY <3>1 DEF OneAtATime, Busy, InSection
    <3>4. \A u \in Tasks : pc'[u] # "advance"
      BY <1>0, <3>1, <3>3 DEF TypeOK
    <3> QED BY <3>1, <3>2, <3>4 DEF NextToSet
  <2>2. CASE ~(\E t \in Tasks : Advance(t))
    <3>1. /\ DMATxDescToSet' = DMATxDescToSet
          /\ \A u \in Tasks : pc'[u] = "advance" <=> pc[u] = "advance"
      BY <1>0, <2>2 DEF TypeOK, Transmit, Suspend, ETH_Start, ETH_Stop, DmaUnchanged, Output, Create,
         GiveFirst, Take, Timeout, Look, Copy, Prepare, Poll, Resume, Give, Runs, Goto
    <3> QED BY <3>1 DEF NextToSet
  <2> QED BY <2>1, <2>2
<1> QED BY <1>1, <1>2, <1>3 DEF RingHolds

LEMMA RingShrinks ==
    ASSUME IInv, NEW n \in 0 .. TxBufNb, RingHolds(n), Transmitted
    PROVE  n > 0 /\ RingHolds(n - 1)'
<1> USE TxAssumption
<1>0. TypeOK /\ n \in 1 .. TxBufNb /\ dmaDesc \in Descs
  BY DEF IInv, TypeOK, RingHolds, Transmitted
<1>1. OwnedFrom(own', dmaDesc', n - 1)
  BY <1>0, Shrinks DEF TypeOK, RingHolds, Transmitted
<1>2. NextToSet' = NextToSet
  BY DEF Transmitted, DmaUnchanged, NextToSet
<1>3. (dmaDesc + n) % TxBufNb = (dmaDesc' + (n - 1)) % TxBufNb
  <2>1. n - 1 \in 0 .. TxBufNb - 1 /\ (n - 1) + 1 = n
    BY <1>0
  <2>2. (NextDesc(dmaDesc) + (n - 1)) % TxBufNb = (dmaDesc + ((n - 1) + 1)) % TxBufNb
    BY <1>0, <2>1, Further
  <2> QED BY <2>1, <2>2 DEF Transmitted
<1> QED BY <1>0, <1>1, <1>2, <1>3 DEF RingHolds, Transmitted

LEMMA RingGrows ==
    ASSUME IInv, OneAtATime, Owner, NEW n \in 0 .. TxBufNb, RingHolds(n),
           NEW t \in Tasks, SetOwn(t)
    PROVE  /\ n < TxBufNb /\ RingHolds(n + 1)'
           /\ DMATxDescToSet = (dmaDesc + n) % TxBufNb
<1> USE TxAssumption
<1>0. TypeOK /\ dmaDesc \in Descs
  BY DEF IInv, TypeOK
<1>1. /\ pc[t] = "own" /\ pc' = [pc EXCEPT ![t] = "advance"]
      /\ own' = [own EXCEPT ![DMATxDescToSet] = "dma"] /\ own[DMATxDescToSet] = "cpu"
      /\ UNCHANGED <<DMATxDescToSet, dmaDesc, wire>>
  BY DEF SetOwn, Runs, Goto, Owner, dmaVars
<1>2. \A u \in Tasks : pc[u] # "advance"
  BY <1>1 DEF OneAtATime, Busy, InSection
<1>3. DMATxDescToSet = (dmaDesc + n) % TxBufNb
  BY <1>2 DEF NextToSet, RingHolds
<1>4. n < TxBufNb
  <2>1. \E j \in 0 .. TxBufNb - 1 : DMATxDescToSet = (dmaDesc + j) % TxBufNb
    BY <1>0, Around DEF TypeOK
  <2>2. n = TxBufNb => own[DMATxDescToSet] = "dma"
    BY <2>1 DEF RingHolds, OwnedFrom
  <2> QED BY <1>1, <2>2
<1>5. OwnedFrom(own', dmaDesc, n + 1)
  <2>1. n \in 0 .. TxBufNb - 1 /\ own \in [Descs -> {"dma", "cpu"}]
    BY <1>0, <1>4 DEF TypeOK
  <2>2. OwnedFrom(own, dmaDesc, n) /\ own' = [own EXCEPT ![(dmaDesc + n) % TxBufNb] = "dma"]
    BY <1>1, <1>3 DEF RingHolds
  <2> QED BY <1>0, <2>1, <2>2, Grows
<1>6. NextToSet' = (dmaDesc + (n + 1)) % TxBufNb
  <2>1. NextToSet' = NextDesc(DMATxDescToSet)
    BY <1>0, <1>1 DEF NextToSet, TypeOK
  <2>2. NextDesc((dmaDesc + n) % TxBufNb) = (dmaDesc + n + 1) % TxBufNb
    BY <1>0, Slot
  <2>3. dmaDesc + n + 1 = dmaDesc + (n + 1)
    BY <1>0 DEF Descs
  <2> QED BY <1>3, <2>1, <2>2, <2>3
<1> QED BY <1>1, <1>3, <1>4, <1>5, <1>6 DEF RingHolds

LEMMA StepQInv == ASSUME IInv, IInv', QInv, [Next]_vars PROVE QInv'
<1> USE TxAssumption
<1> SUFFICES ASSUME ~CreatedTwice'
             PROVE  OneAtATime' /\ Owner' /\ Full' /\ \E n \in 0 .. TxBufNb : RingHolds(n)'
  BY DEF QInv
<1>0. ~CreatedTwice
  BY Monotonic DEF IInv
<1>1. OneAtATime /\ Owner /\ Full
  BY <1>0 DEF QInv
<1> PICK n \in 0 .. TxBufNb : RingHolds(n)
  BY <1>0 DEF QInv
<1>2. CASE Next
  <2>1. OneAtATime' /\ Owner' /\ Full'
    BY <1>0, <1>1, <1>2, StepOneAtATime, StepOwner
  <2>2. CASE Transmitted
    <3>1. RingHolds(n - 1)' /\ n - 1 \in 0 .. TxBufNb
      BY <2>2, RingShrinks
    <3> QED BY <2>1, <3>1
  <2>3. CASE \E t \in Tasks : SetOwn(t)
    <3>1. RingHolds(n + 1)' /\ n + 1 \in 0 .. TxBufNb
      BY <1>1, <2>3, RingGrows
    <3> QED BY <2>1, <3>1
  <2>4. CASE ~Transmitted /\ ~(\E t \in Tasks : SetOwn(t))
    <3>1. RingHolds(n)'
      BY <1>1, <1>2, <2>4, RingSame DEF Next, Dma, low_level_output
    <3> QED BY <2>1, <3>1
  <2> QED BY <2>2, <2>3, <2>4
<1>3. CASE UNCHANGED vars
  <2>1. OneAtATime' /\ Owner' /\ Full'
    BY <1>1, <1>3 DEF vars, OneAtATime, Busy, InSection, Owner, Full
  <2>2. RingHolds(n)'
    BY <1>3 DEF vars, RingHolds, OwnedFrom, NextToSet
  <2> QED BY <2>1, <2>2
<1> QED BY <1>2, <1>3

LEMMA OneSemaphoreInductive == Spec => []QInv
<1>1. IInv /\ IInv' /\ QInv /\ [Next]_vars => QInv'
  BY StepQInv
<1> QED BY Inductive, Inits, <1>1, PTL DEF Spec

-------------------------------------------------------------------------------
(***************************************************************************)
(* The frames in the ring.                                                 *)
(***************************************************************************)
\* The frames of the n descriptors from d on; the first that waits is behind the one
\* on the wire.
FramesFrom(b, d, n) == [j \in 1 .. n |-> b[(d + (j - 1)) % TxBufNb]]
Oldest   == IF wire = NoFrame THEN dmaDesc ELSE NextDesc(dmaDesc)
Waits(n) == IF wire = NoFrame THEN n ELSE n - 1
Contents == Frames \cup {NoFrame}

LEMMA FramesFromIsSeq ==
    ASSUME NEW b \in [Descs -> Contents], NEW d \in Descs, NEW n \in 0 .. TxBufNb
    PROVE  FramesFrom(b, d, n) \in Seq(Contents) /\ Len(FramesFrom(b, d, n)) = n
<1> USE TxAssumption
<1>1. ASSUME NEW j \in 1 .. n PROVE b[(d + (j - 1)) % TxBufNb] \in Contents
  <2>1. j - 1 \in 0 .. TxBufNb
    OBVIOUS
  <2>2. (d + (j - 1)) % TxBufNb \in Descs
    BY <2>1, Slot
  <2> QED BY <2>2
<1>2. FramesFrom(b, d, n) \in [1 .. n -> Contents]
  BY <1>1 DEF FramesFrom
<1>3. FramesFrom(b, d, n) \in Seq(Contents)
  BY <1>2, SeqDef
<1> QED BY <1>2, <1>3, LenProperties

\* A descriptor more, one less, and a frame copied to a descriptor that is not of them.
LEMMA FrameEnters ==
    ASSUME NEW b \in [Descs -> Contents], NEW d \in Descs, NEW n \in 0 .. TxBufNb - 1
    PROVE  FramesFrom(b, d, n + 1) = Append(FramesFrom(b, d, n), b[(d + n) % TxBufNb])
<1> USE TxAssumption
<1> DEFINE old == FramesFrom(b, d, n)
           new == FramesFrom(b, d, n + 1)
           f   == b[(d + n) % TxBufNb]
<1>1. n \in 0 .. TxBufNb /\ n + 1 \in 0 .. TxBufNb
  OBVIOUS
<1>2. f \in Contents
  BY <1>1, Slot
<1>3. /\ old \in Seq(Contents) /\ Len(old) = n /\ new \in Seq(Contents) /\ Len(new) = n + 1
  BY <1>1, FramesFromIsSeq
<1>4. /\ \A j \in 1 .. n : new[j] = old[j]
      /\ new[n + 1] = f
  <2>1. ASSUME NEW j \in 1 .. n PROVE new[j] = old[j]
    <3>1. j \in 1 .. n + 1
      OBVIOUS
    <3> QED BY <3>1 DEF FramesFrom
  <2>2. n + 1 \in 1 .. n + 1 /\ (n + 1) - 1 = n
    OBVIOUS
  <2>3. new[n + 1] = b[(d + ((n + 1) - 1)) % TxBufNb]
    BY <2>2 DEF FramesFrom
  <2>4. new[n + 1] = f
    BY <2>2, <2>3
  <2> QED BY <2>1, <2>4
<1> HIDE DEF old, new, f
<1>5. /\ Append(old, f) \in Seq(Contents) /\ Len(Append(old, f)) = n + 1
      /\ Append(old, f)[n + 1] = f /\ \A j \in 1 .. n : Append(old, f)[j] = old[j]
  BY <1>2, <1>3, AppendProperties
<1>6. \A j \in 1 .. n + 1 : new[j] = Append(old, f)[j]
  BY <1>1, <1>4, <1>5
<1>7. new = Append(old, f)
  BY <1>3, <1>5, <1>6, SeqEqual
<1> QED BY <1>7 DEF old, new, f

LEMMA FrameLeaves ==
    ASSUME NEW b \in [Descs -> Contents], NEW d \in Descs, NEW n \in 1 .. TxBufNb
    PROVE  /\ FramesFrom(b, d, n) # <<>> /\ Head(FramesFrom(b, d, n)) = b[d]
           /\ FramesFrom(b, NextDesc(d), n - 1) = Tail(FramesFrom(b, d, n))
<1> USE TxAssumption
<1> DEFINE old == FramesFrom(b, d, n)
           new == FramesFrom(b, NextDesc(d), n - 1)
<1>1. n \in 0 .. TxBufNb /\ n - 1 \in 0 .. TxBufNb /\ NextDesc(d) \in Descs
  BY NextInRing
<1>2. old \in Seq(Contents) /\ Len(old) = n /\ new \in Seq(Contents) /\ Len(new) = n - 1
  BY <1>1, FramesFromIsSeq
<1>3. old[1] = b[d]
  <2>1. old[1] = b[(d + (1 - 1)) % TxBufNb]
    BY DEF FramesFrom
  <2> QED BY <2>1, Here
<1>4. ASSUME NEW j \in 1 .. n - 1 PROVE new[j] = old[j + 1]
  <2>1. j - 1 \in 0 .. TxBufNb - 1 /\ j + 1 \in 1 .. n /\ (j - 1) + 1 = (j + 1) - 1
    OBVIOUS
  <2>2. (NextDesc(d) + (j - 1)) % TxBufNb = (d + ((j - 1) + 1)) % TxBufNb
    BY <2>1, Further
  <2>3. /\ new[j] = b[(NextDesc(d) + (j - 1)) % TxBufNb]
        /\ old[j + 1] = b[(d + ((j + 1) - 1)) % TxBufNb]
    BY <2>1 DEF FramesFrom
  <2> QED BY <2>1, <2>2, <2>3
<1> HIDE DEF old, new
<1>5. old # <<>> /\ Head(old) = b[d]
  BY <1>2, <1>3, EmptySeq
<1>6. /\ Tail(old) \in Seq(Contents) /\ Len(Tail(old)) = n - 1
      /\ \A j \in 1 .. n - 1 : Tail(old)[j] = old[j + 1]
  BY <1>2, <1>5, HeadTailProperties
<1>7. new = Tail(old)
  BY <1>2, <1>4, <1>6, SeqEqual
<1> QED BY <1>5, <1>7 DEF old, new

LEMMA FrameElsewhere ==
    ASSUME NEW b \in [Descs -> Contents], NEW c, NEW d \in Descs, NEW n \in 0 .. TxBufNb,
           \A j \in 0 .. n - 1 : c[(d + j) % TxBufNb] = b[(d + j) % TxBufNb]
    PROVE  FramesFrom(c, d, n) = FramesFrom(b, d, n)
<1>1. \A j \in 1 .. n : j - 1 \in 0 .. n - 1
  BY TxAssumption
<1> QED BY <1>1 DEF FramesFrom

\* The refinement mapping.
Pending ==
    LET sending == IF wire = NoFrame THEN 0 ELSE 1
    IN  [j \in 1 .. InRing - sending |-> buffer[(dmaDesc + sending + j - 1) % TxBufNb]]

LEMMA PendingFrames ==
    \A n \in 0 .. TxBufNb :
        TypeOK /\ RingHolds(n) =>
            /\ Waits(n) \in 0 .. TxBufNb /\ Oldest \in Descs
            /\ Pending = FramesFrom(buffer, Oldest, Waits(n))
            /\ NextToSet = (Oldest + Waits(n)) % TxBufNb
            /\ \A j \in 0 .. Waits(n) - 1 : own[(Oldest + j) % TxBufNb] = "dma"
<1> USE TxAssumption
<1> SUFFICES ASSUME NEW n \in 0 .. TxBufNb, TypeOK, RingHolds(n)
             PROVE  /\ Waits(n) \in 0 .. TxBufNb /\ Oldest \in Descs
                    /\ Pending = FramesFrom(buffer, Oldest, Waits(n))
                    /\ NextToSet = (Oldest + Waits(n)) % TxBufNb
                    /\ \A j \in 0 .. Waits(n) - 1 : own[(Oldest + j) % TxBufNb] = "dma"
  OBVIOUS
<1>1. InRing = n /\ dmaDesc \in Descs /\ NextDesc(dmaDesc) \in Descs
  BY Counts, NextInRing DEF RingHolds, TypeOK
<1>2. CASE wire = NoFrame
  <2>1. Waits(n) = n /\ Oldest = dmaDesc
    BY <1>2 DEF Waits, Oldest
  <2>2. \A j \in 1 .. n : dmaDesc + 0 + j - 1 = dmaDesc + (j - 1)
    BY <1>1 DEF Descs
  <2>3. Pending = FramesFrom(buffer, dmaDesc, n)
    <3>1. Pending = [j \in 1 .. n |-> buffer[(dmaDesc + 0 + j - 1) % TxBufNb]]
      BY <1>1, <1>2 DEF Pending
    <3> QED BY <2>2, <3>1 DEF FramesFrom
  <2>4. \A j \in 0 .. n - 1 : own[(dmaDesc + j) % TxBufNb] = "dma"
    BY DEF RingHolds, OwnedFrom
  <2> QED BY <1>1, <2>1, <2>3, <2>4 DEF RingHolds
<1>3. CASE wire # NoFrame
  <2>1. Waits(n) = n - 1 /\ Oldest = NextDesc(dmaDesc) /\ n \in 1 .. TxBufNb
    BY <1>3 DEF Waits, Oldest, RingHolds
  <2>2. \A i \in 0 .. TxBufNb - 1 :
          (NextDesc(dmaDesc) + i) % TxBufNb = (dmaDesc + (i + 1)) % TxBufNb
    BY <1>1, Further
  <2>3. ASSUME NEW j \in 1 .. n - 1
        PROVE  (dmaDesc + 1 + j - 1) % TxBufNb = (NextDesc(dmaDesc) + (j - 1)) % TxBufNb
    <3>1. j - 1 \in 0 .. TxBufNb - 1 /\ dmaDesc + 1 + j - 1 = dmaDesc + ((j - 1) + 1)
      BY <1>1, <2>1 DEF Descs
    <3> QED BY <2>2, <3>1
  <2>4. Pending = FramesFrom(buffer, NextDesc(dmaDesc), n - 1)
    <3>1. Pending = [j \in 1 .. n - 1 |-> buffer[(dmaDesc + 1 + j - 1) % TxBufNb]]
      BY <1>1, <1>3 DEF Pending
    <3> QED BY <2>3, <3>1 DEF FramesFrom
  <2>5. (NextDesc(dmaDesc) + (n - 1)) % TxBufNb = (dmaDesc + n) % TxBufNb
    <3>1. n - 1 \in 0 .. TxBufNb - 1 /\ (n - 1) + 1 = n
      BY <2>1
    <3> QED BY <2>2, <3>1
  <2>6. ASSUME NEW j \in 0 .. (n - 1) - 1
        PROVE  own[(NextDesc(dmaDesc) + j) % TxBufNb] = "dma"
    <3>1. j \in 0 .. TxBufNb - 1 /\ j + 1 \in 0 .. TxBufNb - 1 /\ j + 1 < n
      BY <2>1
    <3>2. own[(dmaDesc + (j + 1)) % TxBufNb] = "dma"
      BY <3>1 DEF RingHolds, OwnedFrom
    <3> QED BY <2>2, <3>1, <3>2
  <2> QED BY <1>1, <2>1, <2>4, <2>5, <2>6 DEF RingHolds
<1> QED BY <1>2, <1>3

LEMMA PendingFramesNext ==
    (\A n \in 0 .. TxBufNb :
        TypeOK /\ RingHolds(n) =>
            /\ Waits(n) \in 0 .. TxBufNb /\ Oldest \in Descs
            /\ Pending = FramesFrom(buffer, Oldest, Waits(n))
            /\ NextToSet = (Oldest + Waits(n)) % TxBufNb
            /\ \A j \in 0 .. Waits(n) - 1 : own[(Oldest + j) % TxBufNb] = "dma")'
BY PendingFrames, PTL

LEMMA QueueState ==
    /\ Queue!QInit <=> Pending = <<>> /\ wire = NoFrame
    /\ UNCHANGED Queue!qvars <=> Pending' = Pending /\ wire' = wire
    /\ \A f \in Frames : Queue!Enter(f) <=>
          Len(Pending) < TxBufNb /\ Pending' = Append(Pending, f) /\ wire' = wire
    /\ Queue!Leave <=> /\ Pending # <<>> /\ wire = NoFrame
                       /\ wire' = Head(Pending) /\ Pending' = Tail(Pending)
    /\ Queue!HandOver <=> wire # NoFrame /\ wire' = NoFrame /\ Pending' = Pending
BY DEF Queue!QInit, Queue!qvars, Queue!Enter, Queue!Leave, Queue!HandOver, Pending

LEMMA QueueInit == Init => Queue!QInit
<1> SUFFICES ASSUME Init PROVE Queue!QInit
  OBVIOUS
<1>1. TypeOK
  BY InitInv DEF IInv
<1>2. PICK n \in 0 .. TxBufNb : RingHolds(n)
  BY Inits DEF QInv, Init, CreatedTwice
<1>3. n = 0
  <2>1. 0 \in 0 .. TxBufNb - 1
    BY TxAssumption
  <2>2. (dmaDesc + 0) % TxBufNb = 0 /\ own[0] = "cpu"
    <3>1. 0 \in Descs
      BY TxAssumption DEF Descs
    <3> QED BY <3>1, Here DEF Init
  <2>3. own[(dmaDesc + 0) % TxBufNb] = IF 0 < n THEN "dma" ELSE "cpu"
    BY <1>2, <2>1 DEF RingHolds, OwnedFrom
  <2> QED BY <2>2, <2>3
<1>4. Pending = FramesFrom(buffer, Oldest, 0) /\ Oldest \in Descs
  <2>1. Waits(n) = 0
    BY <1>3 DEF Init, Waits
  <2> QED BY <1>1, <1>2, <2>1, PendingFrames
<1>5. Pending \in Seq(Contents) /\ Len(Pending) = 0
  BY <1>1, <1>4, FramesFromIsSeq, TxAssumption DEF TypeOK, Contents
<1>6. Pending = <<>>
  BY <1>5, EmptySeq
<1> QED BY <1>6, QueueState DEF Init

LEMMA QueueStep ==
    ASSUME IInv, IInv', QInv, Next, ~CreatedTwice'
    PROVE  Queue!QNext \/ UNCHANGED Queue!qvars
<1> USE TxAssumption
<1>0. /\ TypeOK /\ TypeOK' /\ buffer \in [Descs -> Contents] /\ buffer' \in [Descs -> Contents]
      /\ dmaDesc \in Descs
  BY DEF IInv, TypeOK, Contents
<1>a. OneAtATime /\ Owner /\ Full
  BY <1>0, Monotonic DEF QInv
<1> PICK n \in 0 .. TxBufNb : RingHolds(n)
  BY <1>0, Monotonic DEF QInv
<1>b. /\ Waits(n) \in 0 .. TxBufNb /\ Oldest \in Descs
      /\ Pending = FramesFrom(buffer, Oldest, Waits(n))
      /\ NextToSet = (Oldest + Waits(n)) % TxBufNb
      /\ \A j \in 0 .. Waits(n) - 1 : own[(Oldest + j) % TxBufNb] = "dma"
  BY <1>0, PendingFrames
<1>c. ASSUME NEW m \in 0 .. TxBufNb, RingHolds(m)'
      PROVE  Pending' = FramesFrom(buffer', Oldest', Waits(m)')
  BY <1>0, <1>c, PendingFramesNext
<1>1. ASSUME Transmit PROVE Queue!Leave
  <2>1. RingHolds(n)' /\ dmaDesc' = dmaDesc /\ n \in 1 .. TxBufNb
    BY <1>1, <1>a, RingSame
  <2>2. wire = NoFrame /\ wire' = buffer[dmaDesc] /\ wire' # NoFrame /\ buffer' = buffer
    BY <1>0, <1>1, <1>a DEF Transmit, DmaUnchanged, Full
  <2>3. Oldest = dmaDesc /\ Waits(n) = n /\ Oldest' = NextDesc(dmaDesc) /\ Waits(n)' = n - 1
    BY <2>1, <2>2 DEF Oldest, Waits
  <2>4. Pending = FramesFrom(buffer, dmaDesc, n)
    BY <1>b, <2>3
  <2>5. Pending' = FramesFrom(buffer, NextDesc(dmaDesc), n - 1)
    BY <1>c, <2>1, <2>2, <2>3
  <2>6. Pending # <<>> /\ Head(Pending) = buffer[dmaDesc] /\ Pending' = Tail(Pending)
    BY <1>0, <2>1, <2>4, <2>5, FrameLeaves
  <2> QED BY <2>2, <2>6, QueueState
<1>2. ASSUME Transmitted PROVE Queue!HandOver
  <2>1. n \in 1 .. TxBufNb /\ RingHolds(n - 1)' /\ n - 1 \in 0 .. TxBufNb
    BY <1>2, RingShrinks
  <2>2. wire # NoFrame /\ wire' = NoFrame /\ buffer' = buffer /\ dmaDesc' = NextDesc(dmaDesc)
    BY <1>2 DEF Transmitted, DmaUnchanged
  <2>3. Oldest' = Oldest /\ Waits(n - 1)' = Waits(n)
    BY <2>2 DEF Oldest, Waits
  <2>4. Pending' = Pending
    BY <1>b, <1>c, <2>1, <2>2, <2>3
  <2> QED BY <2>2, <2>4, QueueState
<1>3. ASSUME NEW t \in Tasks, SetOwn(t) PROVE \E f \in Frames : Queue!Enter(f)
  <2>1. /\ n < TxBufNb /\ n + 1 \in 0 .. TxBufNb /\ RingHolds(n + 1)'
        /\ \A u \in Tasks : pc[u] # "advance"
    <3>1. n < TxBufNb /\ RingHolds(n + 1)'
      BY <1>3, <1>a, RingGrows
    <3>2. \A u \in Tasks : pc[u] # "advance"
      BY <1>3, <1>a DEF OneAtATime, Busy, InSection, SetOwn, Runs
    <3> QED BY <3>1, <3>2
  <2>2. UNCHANGED <<buffer, wire, dmaDesc>> /\ pc[t] = "own"
    BY <1>3 DEF SetOwn, dmaVars, Runs
  <2>3. Oldest' = Oldest /\ Waits(n + 1)' = Waits(n) + 1 /\ Waits(n) \in 0 .. TxBufNb - 1
    BY <2>1, <2>2 DEF Oldest, Waits, RingHolds
  <2> DEFINE f == buffer[DMATxDescToSet]
  <2>4. f \in Frames
    BY <1>a, <2>2 DEF Owner
  <2>5. DMATxDescToSet = (Oldest + Waits(n)) % TxBufNb
    BY <1>b, <2>1 DEF NextToSet
  <2>6. Pending' = FramesFrom(buffer, Oldest, Waits(n) + 1)
    BY <1>c, <2>1, <2>2, <2>3
  <2>7. Pending' = Append(Pending, f)
    BY <1>0, <1>b, <2>3, <2>5, <2>6, FrameEnters
  <2>8. Len(Pending) < TxBufNb
    <3>1. Len(FramesFrom(buffer, Oldest, Waits(n))) = Waits(n)
      BY <1>0, <1>b, FramesFromIsSeq
    <3> QED BY <1>b, <2>3, <3>1
  <2> HIDE DEF f
  <2> QED BY <2>2, <2>4, <2>7, <2>8, QueueState
<1>4. ASSUME NEW t \in Tasks, Copy(t) PROVE UNCHANGED Queue!qvars
  <2>1. RingHolds(n)'
    BY <1>4, <1>a, RingSame
  <2>2. /\ UNCHANGED <<wire, dmaDesc>> /\ pc[t] = "copy"
        /\ buffer' = [buffer EXCEPT ![DMATxDescToSet] = frame[t]]
        /\ own[DMATxDescToSet] = "cpu"
    BY <1>4, <1>a DEF Copy, dmaVars, Runs, Owner
  <2>3. Oldest' = Oldest /\ Waits(n)' = Waits(n)
    BY <2>2 DEF Oldest, Waits
  <2>4. \A j \in 0 .. Waits(n) - 1 :
           buffer'[(Oldest + j) % TxBufNb] = buffer[(Oldest + j) % TxBufNb]
    BY <1>0, <1>b, <2>2
  <2>5. FramesFrom(buffer', Oldest, Waits(n)) = FramesFrom(buffer, Oldest, Waits(n))
    BY <1>0, <1>b, <2>4, FrameElsewhere
  <2>6. Pending' = Pending
    BY <1>b, <1>c, <2>1, <2>3, <2>5
  <2> QED BY <2>2, <2>6, QueueState
<1>5. ASSUME \/ Suspend \/ ETH_Start \/ ETH_Stop
             \/ \E t \in Tasks : \/ Output(t) \/ Create(t) \/ GiveFirst(t) \/ Take(t) \/ Timeout(t)
                                 \/ Look(t) \/ Prepare(t) \/ Advance(t) \/ Poll(t) \/ Resume(t)
                                 \/ Give(t)
      PROVE  UNCHANGED Queue!qvars
  <2>1. UNCHANGED <<own, dmaDesc, wire, buffer>>
    BY <1>5 DEF Suspend, ETH_Start, ETH_Stop, DmaUnchanged, Output, Create, GiveFirst, Take, Timeout,
       Look, Prepare, Advance, Poll, Resume, Give, dmaVars
  <2>2. Pending' = Pending
    BY <2>1 DEF Pending, InRing
  <2> QED BY <2>1, <2>2, QueueState
<1> QED BY <1>1, <1>2, <1>3, <1>4, <1>5 DEF Next, Dma, low_level_output, Queue!QNext

\* low_level_output and the DMA are a queue, for as long as no two tasks have created the
\* semaphore: a frame enters when its descriptor is given to the DMA, whole and behind
\* those before it, and is put on the wire once.
THEOREM SendsInOrder == Spec => OutputIsQueue
<1>1. IInv /\ IInv' /\ QInv /\ [Next]_vars
        => [CreatedTwice' \/ Queue!QNext]_(Queue!qvars)
  <2> SUFFICES ASSUME IInv, IInv', QInv, [Next]_vars
               PROVE  CreatedTwice' \/ Queue!QNext \/ UNCHANGED Queue!qvars
    OBVIOUS
  <2>1. CASE Next
    BY <2>1, QueueStep
  <2>2. CASE UNCHANGED vars
    <3>1. Pending' = Pending /\ wire' = wire
      BY <2>2 DEF vars, Pending, InRing
    <3> QED BY <3>1, QueueState
  <2> QED BY <2>1, <2>2
<1> QED BY Inductive, OneSemaphoreInductive, QueueInit, <1>1, PTL DEF Spec, OutputIsQueue
===============================================================================

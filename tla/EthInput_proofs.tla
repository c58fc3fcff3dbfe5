---------------------------- MODULE EthInput_proofs ----------------------------
(***************************************************************************)
(* The safety properties of EthInput and its refinement of FrameQueue, for *)
(* every size of ring, pool and mailboxes and every set of frames.         *)
(***************************************************************************)
EXTENDS EthInput, SequenceTheorems, TLAPS

(***************************************************************************)
(* The ring.  Seen from the first descriptor that the task has not given   *)
(* back, there are first those that it holds, then those with a frame that *)
(* it has not looked at, then those of the DMA.                            *)
(***************************************************************************)
\* Of the descriptors of ring o the CPU owns the n from descriptor d on.
OwnedFrom(o, d, n) ==
    \A j \in 0 .. RxBufNb - 1 : o[(d + j) % RxBufNb] = IF j < n THEN "cpu" ELSE "dma"

First == IF Seg_Count = 0 THEN DMARxDescToGet ELSE (FS_Rx_Desc + k) % RxBufNb
Held  == Seg_Count - k

Divided(unread) ==
    /\ Held + unread <= RxBufNb
    /\ DMARxDescToGet = (First + Held) % RxBufNb
    /\ dmaDesc = (First + Held + unread) % RxBufNb
    /\ OwnedFrom(own, First, Held + unread)

RingDivided ==
    IF Held <= RxBufNb THEN \E unread \in 0 .. RxBufNb : Divided(unread)
                       ELSE \A d \in Descs : own[d] = "cpu"

\* The task holds descriptors after a frame that it gave up, and while it has one.
Phases ==
    /\ pc = "release" => k < Seg_Count
    /\ pc # "release" => k = 0
    /\ pc = "alloc" => Seg_Count > 0 /\ length \in Frames
    /\ pc = "input" => Seg_Count = 0
    /\ pc \in {"release", "input"} <=> p # NoPbuf
    /\ mbox \in Seq([data : Frames \cup {NoFrame}, length : Frames \cup {NoFrame}])
    /\ \A d \in Descs : own[d] = "cpu" => buffer[d] \in Frames

\* When every descriptor has been given up, the semaphore may bring the task back once
\* more, but nothing returns a pbuf to the pool before, and nothing wakes it then.
GivenUpAll ==
    Seg_Count >= RxBufNb /\ pc # "release" =>
        /\ ~R /\ irqPc = "idle"
        /\ pc = "get" => Seg_Count = RxBufNb /\ ~s_xSemaphore
        /\ Seg_Count > RxBufNb => pc \in {"alloc", "wait"} /\ ~s_xSemaphore
        /\ pc = "get" \/ (pc = "wait" /\ s_xSemaphore) \/ (pc = "alloc" /\ Seg_Count > RxBufNb) =>
              free = 0
NeverReleasesTwice == pc = "release" => Seg_Count <= RxBufNb

\* The interrupt is between its give and its clear only while the semaphore is given.
GivenBeforeCleared == irqPc = "clear" => s_xSemaphore
WakeupDue == Ready /\ pc = "wait" => gaveUp \/ s_xSemaphore \/ R

IInv == /\ TypeOK /\ Phases /\ PbufsAccounted
        /\ RingDivided /\ GivenUpAll /\ NeverReleasesTwice
        /\ GivenBeforeCleared /\ WakeupDue

-------------------------------------------------------------------------------
(***************************************************************************)
(* Lemmas about the ring, for any owners o of its descriptors.             *)
(***************************************************************************)
LEMMA Wraps ==
    /\ \A i \in 0 .. RxBufNb - 1 : i % RxBufNb = i
    /\ \A i \in RxBufNb .. 2 * RxBufNb - 1 : i % RxBufNb = i - RxBufNb
    /\ (2 * RxBufNb) % RxBufNb = 0
<1>1. ASSUME NEW i \in 0 .. RxBufNb - 1 PROVE i % RxBufNb = i
  BY RingAssumption
<1>2. ASSUME NEW i \in RxBufNb .. 2 * RxBufNb - 1 PROVE i % RxBufNb = i - RxBufNb
  BY RingAssumption
<1>3. (2 * RxBufNb) % RxBufNb = 0
  BY RingAssumption
<1> QED BY <1>1, <1>2, <1>3

\* The descriptors j steps away, for the steps that the proofs take.
LEMMA Slot ==
    ASSUME NEW d \in Descs, NEW j \in 0 .. RxBufNb
    PROVE  /\ (d + j) % RxBufNb = IF d + j < RxBufNb THEN d + j ELSE d + j - RxBufNb
           /\ (d + j) % RxBufNb \in Descs
           /\ NextDesc((d + j) % RxBufNb) = (d + j + 1) % RxBufNb
<1> USE RingAssumption DEF Descs
<1>1. (d + j) % RxBufNb = IF d + j < RxBufNb THEN d + j ELSE d + j - RxBufNb
  BY Wraps
<1>2. (d + j) % RxBufNb \in Descs
  BY <1>1
<1>3. NextDesc((d + j) % RxBufNb) = (d + j + 1) % RxBufNb
  <2>1. CASE d + j + 1 < RxBufNb
    BY <1>1, <2>1 DEF NextDesc
  <2>2. CASE d + j + 1 = RxBufNb
    BY <1>1, <2>2 DEF NextDesc
  <2>3. CASE d + j >= RxBufNb
    <3>1. d + j + 1 \in RxBufNb .. 2 * RxBufNb
      BY <2>3
    <3>2. (d + j + 1) % RxBufNb = IF d + j + 1 = 2 * RxBufNb THEN 0 ELSE d + j + 1 - RxBufNb
      BY <3>1, Wraps
    <3>3. d + j - RxBufNb + 1 \in 0 .. RxBufNb
      BY <2>3
    <3>4. (d + j - RxBufNb + 1) % RxBufNb =
            IF d + j + 1 = 2 * RxBufNb THEN 0 ELSE d + j + 1 - RxBufNb
      BY <3>3, Wraps
    <3> QED BY <1>1, <2>3, <3>2, <3>4 DEF NextDesc
  <2> QED BY <2>1, <2>2, <2>3
<1> QED BY <1>1, <1>2, <1>3

LEMMA Here == ASSUME NEW d \in Descs PROVE (d + 0) % RxBufNb = d
<1>1. d \in 0 .. RxBufNb - 1 /\ d + 0 = d
  BY RingAssumption DEF Descs
<1> QED BY <1>1, Wraps

\* Every descriptor is one of those that lie within a turn of d.
LEMMA Around ==
    ASSUME NEW d \in Descs, NEW e \in Descs
    PROVE  \E j \in 0 .. RxBufNb - 1 : e = (d + j) % RxBufNb
<1> DEFINE j == IF e >= d THEN e - d ELSE e + RxBufNb - d
<1>1. j \in 0 .. RxBufNb - 1
  BY RingAssumption DEF Descs
<1>2. d + j = IF e >= d THEN e ELSE e + RxBufNb
  BY RingAssumption DEF Descs
<1> HIDE DEF j
<1>3. (d + j) % RxBufNb = IF d + j < RxBufNb THEN d + j ELSE d + j - RxBufNb
  BY <1>1, Slot, RingAssumption
<1>4. e = (d + j) % RxBufNb
  BY <1>2, <1>3, RingAssumption DEF Descs
<1> QED BY <1>1, <1>4

\* Steps from a descriptor that is itself j steps from d.
LEMMA Further ==
    ASSUME NEW d \in Descs, NEW j \in 0 .. RxBufNb, NEW i \in 0 .. RxBufNb, i + j <= RxBufNb
    PROVE  (((d + j) % RxBufNb) + i) % RxBufNb = (d + j + i) % RxBufNb
<1> USE RingAssumption DEF Descs
<1> DEFINE e == (d + j) % RxBufNb
<1>1. e \in Descs /\ e = IF d + j < RxBufNb THEN d + j ELSE d + j - RxBufNb
  BY Slot
<1>2. (e + i) % RxBufNb = IF e + i < RxBufNb THEN e + i ELSE e + i - RxBufNb
  BY <1>1, Slot
<1>3. (d + (j + i)) % RxBufNb =
        IF d + (j + i) < RxBufNb THEN d + (j + i) ELSE d + (j + i) - RxBufNb
  <2>1. j + i \in 0 .. RxBufNb
    OBVIOUS
  <2> HIDE DEF e
  <2> QED BY <2>1, Slot
<1> HIDE DEF e
<1>4. (e + i) % RxBufNb = (d + j + i) % RxBufNb
  BY <1>1, <1>2, <1>3
<1> QED BY <1>4 DEF e

\* The DMA hands the descriptor over that follows the n of the CPU ...
LEMMA Grows ==
    ASSUME NEW o \in [Descs -> {"dma", "cpu"}], NEW d \in Descs, NEW n \in 0 .. RxBufNb - 1,
           OwnedFrom(o, d, n)
    PROVE  OwnedFrom([o EXCEPT ![(d + n) % RxBufNb] = "cpu"], d, n + 1)
<1> SUFFICES ASSUME NEW j \in 0 .. RxBufNb - 1
             PROVE  [o EXCEPT ![(d + n) % RxBufNb] = "cpu"][(d + j) % RxBufNb]
                      = IF j < n + 1 THEN "cpu" ELSE "dma"
  BY DEF OwnedFrom
<1> DEFINE At(i) == (d + i) % RxBufNb
<1>1. \A i \in 0 .. RxBufNb :
        At(i) = (IF d + i < RxBufNb THEN d + i ELSE d + i - RxBufNb) /\ At(i) \in Descs
  BY Slot
<1>2. o[At(j)] = IF j < n THEN "cpu" ELSE "dma"
  BY DEF OwnedFrom
<1> HIDE DEF At
<1>3. At(j) \in Descs /\ (At(j) = At(n) <=> j = n)
  BY <1>1, RingAssumption DEF Descs
<1>4. [o EXCEPT ![At(n)] = "cpu"][At(j)] = IF j < n + 1 THEN "cpu" ELSE "dma"
  BY <1>2, <1>3
<1> QED BY <1>4 DEF At

\* ... and the task gives the first of the n back.
LEMMA Shrinks ==
    ASSUME NEW o \in [Descs -> {"dma", "cpu"}], NEW d \in Descs, NEW n \in 1 .. RxBufNb,
           OwnedFrom(o, d, n)
    PROVE  OwnedFrom([o EXCEPT ![d] = "dma"], NextDesc(d), n - 1)
<1> USE RingAssumption DEF Descs
<1> SUFFICES ASSUME NEW j \in 0 .. RxBufNb - 1
             PROVE  [o EXCEPT ![d] = "dma"][(NextDesc(d) + j) % RxBufNb]
                      = IF j < n - 1 THEN "cpu" ELSE "dma"
  BY DEF OwnedFrom
<1>1. (NextDesc(d) + j) % RxBufNb = (d + (j + 1)) % RxBufNb
  <2>1. NextDesc(d) = (d + 1) % RxBufNb
    BY DEF NextDesc
  <2>2. (((d + 1) % RxBufNb) + j) % RxBufNb = (d + 1 + j) % RxBufNb
    BY Further
  <2> QED BY <2>1, <2>2
<1> DEFINE e == (d + (j + 1)) % RxBufNb
<1>2. e \in Descs /\ e = IF d + (j + 1) < RxBufNb THEN d + (j + 1) ELSE d + (j + 1) - RxBufNb
  <2>1. j + 1 \in 0 .. RxBufNb
    OBVIOUS
  <2> QED BY <2>1, Slot
<1>3. ASSUME j < RxBufNb - 1 PROVE o[e] = IF j + 1 < n THEN "cpu" ELSE "dma"
  <2>1. j + 1 \in 0 .. RxBufNb - 1
    BY <1>3
  <2> QED BY <2>1 DEF OwnedFrom
<1> HIDE DEF e
<1>4. [o EXCEPT ![d] = "dma"][e] = IF j < n - 1 THEN "cpu" ELSE "dma"
  BY <1>2, <1>3
<1> QED BY <1>1, <1>4 DEF e

\* A ring of which the CPU owns as many descriptors as there are has none of the DMA.
LEMMA AllOwned ==
    ASSUME NEW o, NEW d \in Descs, OwnedFrom(o, d, RxBufNb)
    PROVE  \A e \in Descs : o[e] = "cpu"
BY Around, RingAssumption DEF OwnedFrom

-------------------------------------------------------------------------------
(***************************************************************************)
(* What the division of the ring says.                                     *)
(***************************************************************************)
LEMMA HeldInRing ==
    ASSUME TypeOK, Phases
    PROVE  /\ First \in Descs /\ Held \in 0 .. RxBufNb + 1
           /\ pc # "release" => Held = Seg_Count
           /\ pc = "release" => Held > 0
<1> USE RingAssumption
<1>1. Held \in 0 .. RxBufNb + 1 /\ (pc # "release" => Held = Seg_Count) /\ (pc = "release" => Held > 0)
  BY DEF TypeOK, Phases, Held
<1>2. FS_Rx_Desc \in Descs /\ k \in 0 .. RxBufNb /\ DMARxDescToGet \in Descs
  BY DEF TypeOK
<1>3. (FS_Rx_Desc + k) % RxBufNb \in Descs
  BY <1>2, Slot
<1> QED BY <1>1, <1>2, <1>3 DEF First

\* The next descriptor of the task lies behind those it holds, that of the DMA behind
\* all those of the CPU; their owners tell how many there are.
LEMMA RingRead ==
    ASSUME TypeOK, Phases, NEW unread \in 0 .. RxBufNb, Divided(unread)
    PROVE  /\ Ready <=> (Held = RxBufNb \/ unread > 0)
           /\ own[dmaDesc] = "dma" <=> Held + unread < RxBufNb
           /\ unread = 0 => dmaDesc = DMARxDescToGet
<1> USE RingAssumption
<1>0. First \in Descs /\ Held \in 0 .. RxBufNb + 1 /\ Held + unread \in 0 .. RxBufNb
  BY HeldInRing DEF Divided
<1>1. \A n \in 0 .. RxBufNb : n <= Held + unread =>
         own[(First + n) % RxBufNb] = IF n < Held + unread \/ n = RxBufNb THEN "cpu" ELSE "dma"
  <2> SUFFICES ASSUME NEW n \in 0 .. RxBufNb, n <= Held + unread
               PROVE own[(First + n) % RxBufNb] =
                        IF n < Held + unread \/ n = RxBufNb THEN "cpu" ELSE "dma"
    OBVIOUS
  <2>1. CASE n < RxBufNb
    BY <1>0, <2>1 DEF Divided, OwnedFrom
  <2>2. CASE n = RxBufNb
    <3>1. Held + unread = RxBufNb
      BY <1>0, <2>2
    <3>2. OwnedFrom(own, First, RxBufNb)
      BY <3>1 DEF Divided
    <3>3. (First + n) % RxBufNb \in Descs
      BY <1>0, Slot
    <3> QED BY <1>0, <2>2, <3>2, <3>3, AllOwned
  <2> QED BY <2>1, <2>2
<1>a. dmaDesc = (First + (Held + unread)) % RxBufNb
  <2>1. First + Held + unread = First + (Held + unread)
    BY <1>0 DEF Descs
  <2> QED BY <2>1 DEF Divided
<1>2. own[dmaDesc] = IF Held + unread = RxBufNb THEN "cpu" ELSE "dma"
  BY <1>0, <1>1, <1>a
<1>3. own[DMARxDescToGet] = IF unread > 0 \/ Held = RxBufNb THEN "cpu" ELSE "dma"
  BY <1>0, <1>1 DEF Divided
<1>4. ASSUME unread = 0 PROVE dmaDesc = DMARxDescToGet
  <2>1. Held + unread = Held
    BY <1>0, <1>4
  <2> QED BY <1>a, <2>1 DEF Divided
<1> QED BY <1>0, <1>2, <1>3, <1>4 DEF Ready

LEMMA RingInStep == ASSUME TypeOK, Phases, RingDivided PROVE InStep
<1>1. CASE Held <= RxBufNb
  <2>1. PICK unread \in 0 .. RxBufNb : Divided(unread)
    BY <1>1 DEF RingDivided
  <2> QED BY <2>1, RingRead DEF InStep, Ready
<1>2. CASE ~(Held <= RxBufNb)
  BY <1>2 DEF RingDivided, InStep, TypeOK
<1> QED BY <1>1, <1>2

LEMMA RingReleases ==
    ASSUME TypeOK, Phases, RingDivided, NeverReleasesTwice PROVE ReleasesOwnOnly
<1> USE RingAssumption
<1> SUFFICES ASSUME pc = "release", NEW j \in k .. Seg_Count - 1
             PROVE  own[(FS_Rx_Desc + j) % RxBufNb] = "cpu"
  BY DEF ReleasesOwnOnly
<1>1. /\ FS_Rx_Desc \in Descs /\ k \in 0 .. RxBufNb /\ Seg_Count \in 1 .. RxBufNb /\ k < Seg_Count
      /\ Held = Seg_Count - k /\ First = (FS_Rx_Desc + k) % RxBufNb
  BY DEF TypeOK, Phases, NeverReleasesTwice, Held, First
<1>2. PICK unread \in 0 .. RxBufNb : Divided(unread)
  BY <1>1 DEF RingDivided
<1>3. j - k \in 0 .. RxBufNb - 1 /\ j - k < Held + unread
  BY <1>1
<1>4. own[(First + (j - k)) % RxBufNb] = "cpu"
  BY <1>2, <1>3 DEF Divided, OwnedFrom
<1>5. (((FS_Rx_Desc + k) % RxBufNb) + (j - k)) % RxBufNb = (FS_Rx_Desc + k + (j - k)) % RxBufNb
  BY <1>1, <1>3, Further
<1>6. FS_Rx_Desc + k + (j - k) = FS_Rx_Desc + j
  BY <1>1 DEF Descs
<1> QED BY <1>1, <1>4, <1>5, <1>6

-------------------------------------------------------------------------------
(***************************************************************************)
(* The division of the ring is kept.                                       *)
(***************************************************************************)
LEMMA ArriveDivides ==
    ASSUME TypeOK, Phases, Arrive, NEW unread \in 0 .. RxBufNb, Divided(unread)
    PROVE  /\ unread + 1 \in 0 .. RxBufNb /\ Divided(unread + 1)'
           /\ dmaDesc = (First + (Held + unread)) % RxBufNb
<1> USE RingAssumption
<1>0. /\ First \in Descs /\ Held \in 0 .. RxBufNb + 1 /\ First' = First /\ Held' = Held
      /\ DMARxDescToGet' = DMARxDescToGet
  BY HeldInRing DEF Arrive, rxVars, First, Held
<1>3. Held + unread < RxBufNb
  BY RingRead DEF Arrive
<1>4. dmaDesc = (First + (Held + unread)) % RxBufNb
  <2>1. First + Held + unread = First + (Held + unread)
    BY <1>0 DEF Descs
  <2> QED BY <2>1 DEF Divided
<1> DEFINE n == Held + unread
<1>5. n \in 0 .. RxBufNb - 1
  BY <1>0, <1>3
<1>6. dmaDesc' = (First + Held + (unread + 1)) % RxBufNb
  <2>1. NextDesc((First + n) % RxBufNb) = (First + n + 1) % RxBufNb
    BY <1>0, <1>5, Slot
  <2>2. First + n + 1 = First + Held + (unread + 1)
    BY <1>0 DEF Descs
  <2> QED BY <1>4, <2>1, <2>2 DEF Arrive
<1>7. OwnedFrom(own', First, n + 1)
  <2>1. own' = [own EXCEPT ![(First + n) % RxBufNb] = "cpu"] /\ own \in [Descs -> {"dma", "cpu"}]
    BY <1>4 DEF Arrive, TypeOK
  <2>2. OwnedFrom(own, First, n)
    BY DEF Divided
  <2> QED BY <1>0, <1>5, <2>1, <2>2, Grows
<1>8. unread + 1 \in 0 .. RxBufNb /\ n + 1 = Held + (unread + 1)
  BY <1>0, <1>5
<1>9. Divided(unread + 1)'
  BY <1>0, <1>5, <1>6, <1>7, <1>8 DEF Divided
<1> QED BY <1>4, <1>8, <1>9

LEMMA ArriveRing == ASSUME TypeOK, Phases, RingDivided, Arrive PROVE RingDivided'
<1>1. Held <= RxBufNb
  BY DEF RingDivided, Arrive, TypeOK
<1>2. PICK unread \in 0 .. RxBufNb : Divided(unread)
  BY <1>1 DEF RingDivided
<1>3. Held' <= RxBufNb
  BY <1>1 DEF Arrive, rxVars, Held
<1> QED BY <1>2, <1>3, ArriveDivides DEF RingDivided

LEMMA GetPlaces ==
    ASSUME TypeOK, Phases, Get
    PROVE  /\ First \in Descs /\ Held \in 0 .. RxBufNb + 1 /\ k = 0 /\ Held = Seg_Count
           /\ First' = First /\ Held' = Held + 1 /\ own' = own /\ dmaDesc' = dmaDesc
<1> USE RingAssumption
<1>0. /\ First \in Descs /\ Held \in 0 .. RxBufNb + 1 /\ DMARxDescToGet \in Descs
      /\ Seg_Count \in 0 .. RxBufNb + 1 /\ k = 0 /\ k' = 0 /\ Held = Seg_Count
      /\ Seg_Count' = Seg_Count + 1 /\ own' = own /\ dmaDesc' = dmaDesc
  BY HeldInRing DEF Get, TaskRuns, Phases, TypeOK, hwVars
<1>1. Held' = Held + 1
  BY <1>0 DEF Held
<1>2. First' = First
  <2>1. CASE Seg_Count = 0
    <3>1. First' = (DMARxDescToGet + 0) % RxBufNb
      BY <1>0, <2>1 DEF First, Get
    <3>2. (DMARxDescToGet + 0) % RxBufNb = DMARxDescToGet
      BY <1>0, Here
    <3> QED BY <2>1, <3>1, <3>2 DEF First
  <2>2. CASE Seg_Count # 0
    BY <1>0, <2>2 DEF First, Get
  <2> QED BY <2>1, <2>2
<1> QED BY <1>0, <1>1, <1>2

LEMMA GetDivides ==
    ASSUME TypeOK, Phases, Get, NEW unread \in 0 .. RxBufNb, Divided(unread), Held < RxBufNb
    PROVE  unread - 1 \in 0 .. RxBufNb /\ Divided(unread - 1)'
<1> USE RingAssumption
<1>0. /\ First \in Descs /\ Held \in 0 .. RxBufNb + 1
      /\ First' = First /\ Held' = Held + 1 /\ own' = own /\ dmaDesc' = dmaDesc
  BY GetPlaces
<1>1. unread > 0
  BY RingRead DEF Ready, Get
<1>2. DMARxDescToGet' = (First + (Held + 1)) % RxBufNb
  <2>1. NextDesc((First + Held) % RxBufNb) = (First + Held + 1) % RxBufNb
    BY <1>0, Slot
  <2>2. First + Held + 1 = First + (Held + 1)
    BY <1>0 DEF Descs
  <2> QED BY <2>1, <2>2 DEF Divided, Get
<1>3. /\ (Held + 1) + (unread - 1) = Held + unread /\ unread - 1 \in 0 .. RxBufNb
      /\ First + (Held + 1) + (unread - 1) = First + Held + unread
  BY <1>0, <1>1 DEF Descs
<1> QED BY <1>0, <1>2, <1>3 DEF Divided

LEMMA GetRing == ASSUME TypeOK, Phases, RingDivided, GivenUpAll, Get PROVE RingDivided'
<1> USE RingAssumption
<1>0. First \in Descs /\ Held \in 0 .. RxBufNb + 1 /\ Held' = Held + 1 /\ own' = own
  BY GetPlaces
<1>1. Held <= RxBufNb
  BY GetPlaces DEF GivenUpAll, Get, TaskRuns
<1>2. PICK unread \in 0 .. RxBufNb : Divided(unread)
  BY <1>1 DEF RingDivided
<1>3. CASE Held = RxBufNb
  <2>1. OwnedFrom(own, First, RxBufNb)
    <3>1. Held + unread = RxBufNb
      BY <1>2, <1>3 DEF Divided
    <3> QED BY <1>2, <3>1 DEF Divided
  <2>2. \A d \in Descs : own[d] = "cpu"
    BY <1>0, <2>1, AllOwned
  <2> QED BY <1>0, <1>3, <2>2 DEF RingDivided
<1>4. CASE Held < RxBufNb
  <2>1. unread - 1 \in 0 .. RxBufNb /\ Divided(unread - 1)'
    BY <1>2, <1>4, GetDivides
  <2> QED BY <1>0, <1>4, <2>1 DEF RingDivided
<1> QED BY <1>0, <1>1, <1>3, <1>4

LEMMA ReleaseDivides ==
    ASSUME TypeOK, Phases, NeverReleasesTwice, Release, NEW unread \in 0 .. RxBufNb, Divided(unread)
    PROVE  Divided(unread)' /\ Held \in 1 .. RxBufNb /\ Held' = Held - 1
<1> USE RingAssumption
<1>0. /\ First \in Descs /\ Held \in 1 .. RxBufNb /\ FS_Rx_Desc \in Descs
      /\ k \in 0 .. RxBufNb /\ Seg_Count \in 1 .. RxBufNb /\ k < Seg_Count /\ Held = Seg_Count - k
      /\ First = (FS_Rx_Desc + k) % RxBufNb
      /\ own' = [own EXCEPT ![First] = "dma"] /\ own \in [Descs -> {"dma", "cpu"}]
      /\ dmaDesc' = dmaDesc /\ DMARxDescToGet' = DMARxDescToGet /\ FS_Rx_Desc' = FS_Rx_Desc
  <2>1. Seg_Count \in 1 .. RxBufNb /\ k < Seg_Count /\ k \in 0 .. RxBufNb
    BY DEF Release, TaskRuns, Phases, TypeOK, NeverReleasesTwice
  <2>2. First = (FS_Rx_Desc + k) % RxBufNb /\ Held = Seg_Count - k
    BY <2>1 DEF First, Held
  <2> QED BY <2>1, <2>2, HeldInRing DEF Release, TypeOK
<1> DEFINE n == Held + unread
<1>2. n \in 1 .. RxBufNb /\ OwnedFrom(own, First, n)
  BY <1>0 DEF Divided
<1>3. OwnedFrom(own', NextDesc(First), n - 1)
  BY <1>0, <1>2, Shrinks
\* The descriptors to get and to fill, seen from the next one.
<1>4. NextDesc(First) = (First + 1) % RxBufNb /\ NextDesc(First) \in Descs
  BY <1>0, Slot DEF NextDesc
<1>5. DMARxDescToGet = (NextDesc(First) + (Held - 1)) % RxBufNb
  <2>1. (((First + 1) % RxBufNb) + (Held - 1)) % RxBufNb = (First + 1 + (Held - 1)) % RxBufNb
    <3>1. 1 \in 0 .. RxBufNb /\ Held - 1 \in 0 .. RxBufNb /\ Held - 1 + 1 <= RxBufNb
      BY <1>0
    <3> QED BY <1>0, <3>1, Further
  <2>2. First + 1 + (Held - 1) = First + Held
    BY <1>0 DEF Descs
  <2> QED BY <1>4, <2>1, <2>2 DEF Divided
<1>6. dmaDesc = (NextDesc(First) + (Held - 1) + unread) % RxBufNb
  <2>1. (((First + 1) % RxBufNb) + (n - 1)) % RxBufNb = (First + 1 + (n - 1)) % RxBufNb
    <3>1. 1 \in 0 .. RxBufNb /\ n - 1 \in 0 .. RxBufNb /\ n - 1 + 1 <= RxBufNb
      BY <1>2
    <3> HIDE DEF n
    <3> QED BY <1>0, <3>1, Further
  <2>2. First + 1 + (n - 1) = First + Held + unread
    BY <1>0 DEF Descs
  <2>3. NextDesc(First) + (Held - 1) + unread = NextDesc(First) + (n - 1)
    BY <1>0, <1>4 DEF Descs
  <2> QED BY <1>4, <2>1, <2>2, <2>3 DEF Divided
<1>7. First' = NextDesc(First) /\ Held' = Held - 1
  <2>1. CASE k + 1 < Seg_Count
    <3>1. Seg_Count' = Seg_Count /\ k' = k + 1
      BY <2>1 DEF Release
    <3>2. NextDesc((FS_Rx_Desc + k) % RxBufNb) = (FS_Rx_Desc + k + 1) % RxBufNb
      BY <1>0, Slot
    <3>3. FS_Rx_Desc + k + 1 = FS_Rx_Desc + (k + 1)
      BY <1>0 DEF Descs
    <3> QED BY <1>0, <3>1, <3>2, <3>3 DEF First, Held
  <2>2. CASE ~(k + 1 < Seg_Count)
    <3>1. Seg_Count' = 0 /\ k' = 0 /\ Held = 1
      BY <1>0, <2>2 DEF Release
    <3>2. DMARxDescToGet = (NextDesc(First) + 0) % RxBufNb
      BY <1>5, <3>1
    <3>3. (NextDesc(First) + 0) % RxBufNb = NextDesc(First)
      BY <1>4, Here
    <3> QED BY <1>0, <3>1, <3>2, <3>3 DEF First, Held
  <2> QED BY <2>1, <2>2
<1>8. Divided(unread)'
  <2>1. n - 1 = (Held - 1) + unread /\ n - 1 <= RxBufNb
    BY <1>0, <1>2
  <2> QED BY <1>0, <1>3, <1>5, <1>6, <1>7, <2>1 DEF Divided
<1> QED BY <1>0, <1>7, <1>8

LEMMA ReleaseRing ==
    ASSUME TypeOK, Phases, RingDivided, NeverReleasesTwice, Release PROVE RingDivided'
<1>1. Held <= RxBufNb
  BY RingAssumption DEF TypeOK, NeverReleasesTwice, Release, TaskRuns, Held
<1>2. PICK unread \in 0 .. RxBufNb : Divided(unread)
  BY <1>1 DEF RingDivided
<1>3. Held' <= RxBufNb
  BY <1>2, ReleaseDivides, RingAssumption
<1> QED BY <1>2, <1>3, ReleaseDivides DEF RingDivided

LEMMA OtherRing ==
    ASSUME RingDivided, UNCHANGED <<own, dmaDesc, DMARxDescToGet, FS_Rx_Desc, Seg_Count, k>>
    PROVE  RingDivided'
BY DEF RingDivided, Divided, OwnedFrom, First, Held

-------------------------------------------------------------------------------
(***************************************************************************)
(* The inductive invariant.                                                *)
(***************************************************************************)
LEMMA InitInv == Init => IInv
<1> USE RingAssumption
<1> SUFFICES ASSUME Init PROVE IInv
  OBVIOUS
<1>0. own = [d \in Descs |-> "dma"] /\ 0 \in Descs
  BY DEF Init, Descs
<1>1. TypeOK
  <2>1. R \in BOOLEAN /\ s_xSemaphore \in BOOLEAN /\ inThread \in BOOLEAN /\ gaveUp \in BOOLEAN
        /\ dry \in BOOLEAN
    BY Zenon DEF Init
  <2>2. /\ buffer \in [Descs -> Frames \cup {NoFrame}]
        /\ p \in [data : Frames \cup {NoFrame}, length : Frames \cup {NoFrame}]
    BY DEF Init, NoPbuf
  <2>3. Len(mbox) = 0
    BY DEF Init
  <2> QED BY <1>0, <2>1, <2>2, <2>3 DEF Init, TypeOK
<1>2. Phases
  <2>1. mbox \in Seq([data : Frames \cup {NoFrame}, length : Frames \cup {NoFrame}])
    BY DEF Init
  <2> QED BY <1>0, <2>1 DEF Init, Phases
<1>3. PbufsAccounted /\ GivenUpAll /\ NeverReleasesTwice /\ GivenBeforeCleared /\ WakeupDue
  BY <1>0 DEF Init, PbufsAccounted, GivenUpAll, NeverReleasesTwice, GivenBeforeCleared, WakeupDue, Ready
<1>4. RingDivided
  <2>1. First = 0 /\ Held = 0
    BY DEF Init, First, Held
  <2>2. (0 + 0) % RxBufNb = 0 /\ 0 + 0 = 0 /\ 0 + 0 + 0 = 0
    BY <1>0, Here
  <2>3. OwnedFrom(own, 0, 0)
    <3> SUFFICES ASSUME NEW j \in 0 .. RxBufNb - 1 PROVE own[(0 + j) % RxBufNb] = "dma" /\ ~(j < 0)
      BY DEF OwnedFrom
    <3>1. (0 + j) % RxBufNb \in Descs
      <4>1. j \in 0 .. RxBufNb
        OBVIOUS
      <4> QED BY <1>0, <4>1, Slot, Zenon
    <3> QED BY <1>0, <3>1
  <2>4. Divided(0)
    BY <2>1, <2>2, <2>3 DEF Divided, Init
  <2> QED BY <2>1, <2>4 DEF RingDivided
<1> QED BY <1>1, <1>2, <1>3, <1>4 DEF IInv

\* The types of what a step leaves alone carry over.
NumbersOK == /\ dmaDesc \in Descs /\ DMARxDescToGet \in Descs /\ FS_Rx_Desc \in Descs
             /\ Seg_Count \in 0 .. RxBufNb + 1 /\ k \in 0 .. RxBufNb
             /\ free \in 0 .. PoolSize /\ Len(mbox) <= MboxSize /\ recvmbox \in 0 .. RecvMboxSize
FlagsOK == /\ R \in BOOLEAN /\ s_xSemaphore \in BOOLEAN /\ inThread \in BOOLEAN
           /\ gaveUp \in BOOLEAN /\ dry \in BOOLEAN
DataOK == /\ own \in [Descs -> {"dma", "cpu"}] /\ buffer \in [Descs -> Frames \cup {NoFrame}]
          /\ irqPc \in {"idle", "clear"} /\ pc \in {"wait", "get", "alloc", "release", "input"}
          /\ length \in Frames \cup {NoFrame}
          /\ p \in [data : Frames \cup {NoFrame}, length : Frames \cup {NoFrame}]

LEMMA TypeParts ==
    /\ TypeOK <=> NumbersOK /\ FlagsOK /\ DataOK
    /\ TypeOK' <=> NumbersOK' /\ FlagsOK' /\ DataOK'
BY Zenon DEF TypeOK, NumbersOK, FlagsOK, DataOK

\* A frame makes a pbuf that is not the empty one.
LEMMA PbufOfFrame == ASSUME NEW d, NEW f \in Frames PROVE [data |-> d, length |-> f] # NoPbuf
BY RingAssumption DEF NoPbuf

LEMMA ArriveInv == ASSUME IInv, Arrive PROVE IInv'
<1> USE DEF IInv
<1>0. UNCHANGED <<DMARxDescToGet, FS_Rx_Desc, Seg_Count, irqPc, s_xSemaphore, pc, length, k, p, free,
                  mbox, inThread, recvmbox, gaveUp, dry>>
  BY DEF Arrive, rxVars, upVars, histVars
<1>1. FlagsOK'
  <2>1. R' \in BOOLEAN
    BY Zenon DEF Arrive
  <2> QED BY <1>0, <2>1, TypeParts DEF FlagsOK
<1>2. NumbersOK' /\ DataOK'
  <2>1. dmaDesc' \in Descs
    BY RingAssumption DEF Arrive, NextDesc, Descs, TypeOK
  <2> QED BY <1>0, <2>1, TypeParts DEF Arrive, NumbersOK, DataOK
<1>3. Phases'
  BY <1>0 DEF Arrive, Phases, TypeOK
<1>4. PbufsAccounted' /\ NeverReleasesTwice' /\ GivenBeforeCleared' /\ WakeupDue'
  BY <1>0 DEF Arrive, PbufsAccounted, NeverReleasesTwice, GivenBeforeCleared, WakeupDue
<1>5. GivenUpAll'
  <2>1. Seg_Count < RxBufNb \/ pc = "release"
    <3> SUFFICES ASSUME pc # "release" PROVE Seg_Count < RxBufNb
      BY DEF TypeOK
    <3>1. Held = Seg_Count
      BY HeldInRing
    <3>2. CASE Held <= RxBufNb
      <4>1. PICK unread \in 0 .. RxBufNb : Divided(unread)
        BY <3>2 DEF RingDivided
      <4>2. Held + unread < RxBufNb
        BY <4>1, RingRead DEF Arrive
      <4> QED BY <3>1, <4>2, RingAssumption DEF TypeOK
    <3>3. CASE ~(Held <= RxBufNb)
      BY <3>3 DEF RingDivided, Arrive, TypeOK
    <3> QED BY <3>2, <3>3
  <2> QED BY <1>0, <2>1, RingAssumption DEF GivenUpAll, TypeOK
<1> QED BY <1>1, <1>2, <1>3, <1>4, <1>5, ArriveRing, TypeParts

LEMMA IrqInv == ASSUME IInv, Irq PROVE IInv'
<1> USE DEF IInv
<1>0. UNCHANGED <<own, buffer, dmaDesc, DMARxDescToGet, FS_Rx_Desc, Seg_Count, pc, length, k, p, free,
                  mbox, inThread, recvmbox, gaveUp, dry>>
  BY DEF Irq, IrqGive, IrqClear, hwVars, rxVars, upVars, histVars
<1>1. FlagsOK'
  <2>1. R' \in BOOLEAN /\ s_xSemaphore' \in BOOLEAN
    BY Zenon DEF Irq, IrqGive, IrqClear, TypeOK
  <2> QED BY <1>0, <2>1, TypeParts DEF FlagsOK
<1>2. NumbersOK' /\ DataOK'
  BY <1>0, TypeParts DEF Irq, IrqGive, IrqClear, NumbersOK, DataOK
<1>3. Phases' /\ PbufsAccounted' /\ NeverReleasesTwice'
  BY <1>0 DEF Phases, PbufsAccounted, NeverReleasesTwice
<1>4. GivenUpAll' /\ GivenBeforeCleared' /\ WakeupDue'
  BY <1>0 DEF Irq, IrqGive, IrqClear, GivenUpAll, GivenBeforeCleared, WakeupDue, Ready
<1> QED BY <1>0, <1>1, <1>2, <1>3, <1>4, OtherRing, TypeParts

\* The steps of the task before it has a pbuf, but for the get of a frame.
LEMMA LookInv == ASSUME IInv, Take \/ GetNone \/ AllocFails PROVE IInv'
<1> USE DEF IInv, TaskRuns, NoInterrupt
<1>0. UNCHANGED <<own, buffer, dmaDesc, DMARxDescToGet, FS_Rx_Desc, Seg_Count, R, irqPc, k, p, free,
                  mbox, inThread, recvmbox>>
  BY DEF Take, GetNone, AllocFails, hwVars, rxVars, irqVars, upVars, histVars
<1>1. FlagsOK'
  <2>1. s_xSemaphore' \in BOOLEAN /\ gaveUp' \in BOOLEAN /\ dry' \in BOOLEAN
    BY Zenon DEF Take, GetNone, AllocFails, histVars, TypeOK
  <2> QED BY <1>0, <2>1, TypeParts DEF FlagsOK
<1>2. NumbersOK' /\ DataOK'
  BY <1>0, TypeParts DEF Take, GetNone, AllocFails, NumbersOK, DataOK
<1>3. Phases' /\ PbufsAccounted' /\ NeverReleasesTwice'
  BY <1>0 DEF Take, GetNone, AllocFails, Phases, PbufsAccounted, NeverReleasesTwice
<1>4. GivenUpAll'
  <2>1. CASE Take
    BY <1>0, <2>1, RingAssumption DEF Take, GivenUpAll, TypeOK
  <2>2. CASE GetNone
    <3>1. Seg_Count < RxBufNb
      <4>1. Held = Seg_Count /\ Held <= RxBufNb
        BY <2>2, HeldInRing, RingAssumption DEF GetNone, GivenUpAll, TypeOK
      <4>2. PICK unread \in 0 .. RxBufNb : Divided(unread)
        BY <4>1 DEF RingDivided
      <4>3. Held # RxBufNb
        BY <2>2, <4>2, RingRead DEF GetNone, Ready
      <4> QED BY <4>1, <4>3, RingAssumption DEF TypeOK
    <3> QED BY <1>0, <3>1, RingAssumption DEF GivenUpAll, TypeOK
  <2>3. CASE AllocFails
    BY <1>0, <2>3 DEF AllocFails, GivenUpAll
  <2> QED BY <2>1, <2>2, <2>3
<1>5. GivenBeforeCleared' /\ WakeupDue'
  BY <1>0 DEF Take, GetNone, AllocFails, histVars, GivenBeforeCleared, WakeupDue, Ready
<1> QED BY <1>0, <1>1, <1>2, <1>3, <1>4, <1>5, OtherRing, TypeParts

LEMMA GetInv == ASSUME IInv, Get PROVE IInv'
<1> USE DEF IInv, Get, TaskRuns, NoInterrupt
<1>0. UNCHANGED <<own, buffer, dmaDesc, R, irqPc, s_xSemaphore, k, p, free, mbox, inThread, recvmbox,
                  gaveUp, dry>>
  BY DEF hwVars, irqVars, upVars, histVars
<1>1. Seg_Count \in 0 .. RxBufNb /\ Seg_Count' = Seg_Count + 1
  BY RingAssumption DEF TypeOK, GivenUpAll
<1>2. FlagsOK'
  BY <1>0, TypeParts DEF FlagsOK
<1>3. NumbersOK' /\ DataOK'
  <2>1. DMARxDescToGet' \in Descs
    BY RingAssumption DEF NextDesc, Descs, TypeOK
  <2>2. length' \in Frames \cup {NoFrame} /\ FS_Rx_Desc' \in Descs
    BY DEF TypeOK
  <2>3. Seg_Count' \in 0 .. RxBufNb + 1
    BY <1>1, RingAssumption
  <2>4. NumbersOK /\ DataOK
    BY TypeParts
  <2> HIDE DEF IInv
  <2>5. NumbersOK'
    BY <1>0, <2>1, <2>2, <2>3, <2>4 DEF NumbersOK
  <2>6. DataOK'
    BY <1>0, <2>2, <2>4 DEF DataOK
  <2> QED BY <2>5, <2>6
<1>4. Phases'
  BY <1>0, <1>1 DEF Phases, TypeOK
<1>5. PbufsAccounted' /\ NeverReleasesTwice' /\ GivenBeforeCleared' /\ WakeupDue'
  BY <1>0 DEF PbufsAccounted, NeverReleasesTwice, GivenBeforeCleared, WakeupDue
<1>6. GivenUpAll'
  BY <1>0, <1>1, RingAssumption DEF GivenUpAll
<1> QED BY <1>2, <1>3, <1>4, <1>5, <1>6, GetRing, TypeParts

LEMMA AllocInv == ASSUME IInv, Alloc PROVE IInv'
<1> USE DEF IInv, Alloc, TaskRuns, NoInterrupt
<1>0. /\ UNCHANGED <<own, buffer, dmaDesc, DMARxDescToGet, FS_Rx_Desc, Seg_Count, R, irqPc,
                     s_xSemaphore, length, mbox, inThread, recvmbox, gaveUp, dry>>
      /\ k' = k
  BY DEF hwVars, rxVars, irqVars, upVars, histVars, Phases
<1>1. p' # NoPbuf /\ p = NoPbuf
  BY PbufOfFrame DEF Phases
<1>2. FlagsOK'
  BY <1>0, TypeParts DEF FlagsOK
<1>3. NumbersOK' /\ DataOK'
  <2>1. free' \in 0 .. PoolSize
    BY RingAssumption DEF TypeOK
  <2>2. p' \in [data : Frames \cup {NoFrame}, length : Frames \cup {NoFrame}]
    BY DEF TypeOK
  <2> QED BY <1>0, <2>1, <2>2, TypeParts DEF NumbersOK, DataOK
<1>4. Phases'
  BY <1>0, <1>1 DEF Phases, TypeOK
<1>5. PbufsAccounted'
  <2>1. Len(mbox) \in Nat
    BY LenProperties DEF Phases
  <2> QED BY <1>0, <1>1, <2>1, RingAssumption DEF PbufsAccounted, TypeOK
<1>6. NeverReleasesTwice'
  BY <1>0, RingAssumption DEF NeverReleasesTwice, GivenUpAll, TypeOK
<1>7. GivenUpAll' /\ GivenBeforeCleared' /\ WakeupDue'
  BY <1>0 DEF GivenUpAll, GivenBeforeCleared, WakeupDue
<1> QED BY <1>0, <1>2, <1>3, <1>4, <1>5, <1>6, <1>7, OtherRing, TypeParts

LEMMA ReleaseInv == ASSUME IInv, Release PROVE IInv'
<1> USE DEF IInv, Release, TaskRuns, NoInterrupt
<1>0. /\ UNCHANGED <<buffer, dmaDesc, DMARxDescToGet, FS_Rx_Desc, R, irqPc, s_xSemaphore, p, free,
                     mbox, inThread, recvmbox, gaveUp, dry>>
      /\ own' = [own EXCEPT ![(FS_Rx_Desc + k) % RxBufNb] = "dma"]
  BY DEF irqVars, upVars, histVars
<1>1. /\ k \in 0 .. RxBufNb /\ Seg_Count \in 1 .. RxBufNb /\ k < Seg_Count
      /\ \/ k + 1 < Seg_Count /\ k' = k + 1 /\ pc' = pc /\ Seg_Count' = Seg_Count /\ length' = length
         \/ k' = 0 /\ pc' = "input" /\ Seg_Count' = 0 /\ length' = NoFrame
  BY DEF TypeOK, Phases, NeverReleasesTwice
<1> USE RingAssumption
<1>2. FlagsOK'
  BY <1>0, TypeParts DEF FlagsOK
<1>3. NumbersOK' /\ DataOK'
  <2>1. own' \in [Descs -> {"dma", "cpu"}]
    BY <1>0 DEF TypeOK
  <2> QED BY <1>0, <1>1, <2>1, TypeParts DEF NumbersOK, DataOK
<1>4. Phases'
  <2>1. \A d \in Descs : own'[d] = "cpu" => buffer'[d] \in Frames
    BY <1>0 DEF Phases, TypeOK
  <2> QED BY <1>0, <1>1, <2>1 DEF Phases
<1>5. PbufsAccounted' /\ GivenBeforeCleared' /\ WakeupDue'
  BY <1>0, <1>1 DEF PbufsAccounted, GivenBeforeCleared, WakeupDue
<1>6. NeverReleasesTwice' /\ GivenUpAll'
  BY <1>0, <1>1 DEF NeverReleasesTwice, GivenUpAll
<1> QED BY <1>2, <1>3, <1>4, <1>5, <1>6, ReleaseRing, TypeParts

LEMMA InputInv == ASSUME IInv, Input \/ InputFails PROVE IInv'
<1> USE DEF IInv, TaskRuns, NoInterrupt
<1>0. /\ UNCHANGED <<own, buffer, dmaDesc, DMARxDescToGet, FS_Rx_Desc, Seg_Count, R, irqPc,
                     s_xSemaphore, length, k, inThread, recvmbox, dry>>
      /\ p # NoPbuf /\ p' = NoPbuf /\ Seg_Count = 0
  BY DEF Input, InputFails, hwVars, rxVars, irqVars, upVars, histVars, Phases
<1> DEFINE Pbufs == [data : Frames \cup {NoFrame}, length : Frames \cup {NoFrame}]
<1>1. /\ mbox \in Seq(Pbufs) /\ p \in Pbufs /\ NoPbuf \in Pbufs /\ Len(mbox) \in Nat
      /\ mbox' \in Seq(Pbufs) /\ Len(mbox') + free' = Len(mbox) + free + 1
      /\ Len(mbox') <= MboxSize
  <2>1. mbox \in Seq(Pbufs) /\ p \in Pbufs /\ NoPbuf \in Pbufs /\ free \in Nat
    BY DEF Phases, TypeOK, NoPbuf
  <2> HIDE DEF Pbufs
  <2>2. Len(mbox) \in Nat /\ Append(mbox, p) \in Seq(Pbufs) /\ Len(Append(mbox, p)) = Len(mbox) + 1
    BY <2>1, LenProperties, AppendProperties
  <2>3. CASE Input
    BY <2>1, <2>2, <2>3, RingAssumption DEF Input
  <2>4. CASE InputFails
    BY <2>1, <2>2, <2>4, RingAssumption DEF InputFails, upVars, TypeOK
  <2> QED BY <2>1, <2>2, <2>3, <2>4
<1>2. PbufsAccounted'
  <2>1. free \in Nat /\ free' \in Nat /\ recvmbox \in Nat /\ PoolSize \in Nat /\ Len(mbox') \in Nat
    BY <1>1, RingAssumption, LenProperties DEF TypeOK, Input, InputFails
  <2>2. PoolSize = free + Len(mbox) + recvmbox + (IF inThread THEN 1 ELSE 0) + 1
    BY <1>0 DEF PbufsAccounted
  <2> DEFINE held == IF inThread THEN 1 ELSE 0
  <2>3. held \in 0 .. 1
    OBVIOUS
  <2> HIDE DEF held, Pbufs, IInv
  <2>4. PoolSize = free' + Len(mbox') + recvmbox + held + 0
    <3>1. PoolSize = free + Len(mbox) + recvmbox + held + 1
      BY <2>2 DEF held
    <3> QED BY <1>1, <2>1, <2>3, <3>1
  <2> QED BY <1>0, <2>4 DEF PbufsAccounted, held
<1>3. FlagsOK'
  <2>1. gaveUp' \in BOOLEAN
    BY Zenon DEF Input, InputFails, histVars, TypeOK
  <2> QED BY <1>0, <2>1, TypeParts DEF FlagsOK
<1>4. NumbersOK' /\ DataOK'
  <2>1. free' \in 0 .. PoolSize
    BY <1>0, <1>1, RingAssumption DEF PbufsAccounted, TypeOK, Input, InputFails
  <2> QED BY <1>0, <1>1, <2>1, TypeParts DEF NumbersOK, DataOK, Input, InputFails
<1>5. Phases'
  BY <1>0, <1>1 DEF Phases, Input, InputFails
<1>6. NeverReleasesTwice' /\ GivenUpAll' /\ GivenBeforeCleared' /\ WakeupDue'
  BY <1>0, RingAssumption DEF Input, InputFails, NeverReleasesTwice, GivenUpAll, GivenBeforeCleared,
     WakeupDue
<1> QED BY <1>0, <1>2, <1>3, <1>4, <1>5, <1>6, OtherRing, TypeParts

\* The tcpip thread and the readers, which run while the task waits.
LEMMA ThreadInv == ASSUME IInv, Thread \/ Recv PROVE IInv'
<1> USE DEF IInv, Thread, TaskBlocked, NoInterrupt
<1>0. /\ UNCHANGED <<own, buffer, dmaDesc, DMARxDescToGet, FS_Rx_Desc, Seg_Count, R, irqPc,
                     s_xSemaphore, pc, length, k, p, gaveUp, dry>>
      /\ pc = "wait" /\ ~s_xSemaphore
  BY DEF Fetch, Consume, Deliver, Recv, hwVars, rxVars, irqVars, histVars
<1> DEFINE Pbufs == [data : Frames \cup {NoFrame}, length : Frames \cup {NoFrame}]
<1>1. /\ mbox' \in Seq(Pbufs) /\ Len(mbox) \in Nat /\ Len(mbox') \in Nat
      /\ Len(mbox') = IF Fetch THEN Len(mbox) - 1 ELSE Len(mbox)
  <2>1. mbox \in Seq(Pbufs)
    BY DEF Phases
  <2> HIDE DEF Pbufs
  <2>2. Len(mbox) \in Nat
    BY <2>1, LenProperties
  <2>3. CASE Fetch
    BY <2>1, <2>2, <2>3, HeadTailProperties, EmptySeq DEF Fetch
  <2>4. CASE ~Fetch
    BY <2>1, <2>2, <2>4 DEF Consume, Deliver, Recv
  <2> QED BY <2>2, <2>3, <2>4
<1>2. inThread' \in BOOLEAN
  BY Zenon DEF Fetch, Consume, Deliver, Recv, TypeOK
<1>3. /\ PbufsAccounted'
      /\ free' \in 0 .. PoolSize /\ recvmbox' \in 0 .. RecvMboxSize /\ Len(mbox') <= MboxSize
  <2>1. free \in 0 .. PoolSize /\ recvmbox \in 0 .. RecvMboxSize /\ Len(mbox) <= MboxSize
    BY DEF TypeOK
  <2>2. PoolSize = free + Len(mbox) + recvmbox
                    + (IF inThread THEN 1 ELSE 0) + (IF p # NoPbuf THEN 1 ELSE 0)
    BY DEF PbufsAccounted
  <2> USE RingAssumption
  <2> HIDE DEF IInv
  <2>3. CASE Fetch
    BY <1>0, <1>1, <2>1, <2>2, <2>3 DEF PbufsAccounted, Fetch
  <2>4. CASE Consume
    BY <1>0, <1>1, <2>1, <2>2, <2>4 DEF PbufsAccounted, Consume, Fetch
  <2>5. CASE Deliver
    BY <1>0, <1>1, <2>1, <2>2, <2>5 DEF PbufsAccounted, Deliver, Fetch
  <2>6. CASE Recv
    <3>1. Len(mbox') = Len(mbox) /\ inThread' = inThread /\ recvmbox' = recvmbox - 1
          /\ free' = free + 1 /\ recvmbox > 0
      BY <2>6 DEF Recv
    <3> DEFINE i == IF inThread THEN 1 ELSE 0
               j == IF p # NoPbuf THEN 1 ELSE 0
    <3>2. i \in 0 .. 1 /\ j \in 0 .. 1 /\ PoolSize = free + Len(mbox) + recvmbox + i + j
      BY <2>2
    <3> HIDE DEF i, j, Pbufs
    <3>3. /\ PoolSize = (free + 1) + Len(mbox) + (recvmbox - 1) + i + j
          /\ free + 1 \in 0 .. PoolSize /\ recvmbox - 1 \in 0 .. RecvMboxSize
      BY <1>1, <2>1, <3>1, <3>2
    <3> QED BY <1>0, <2>1, <3>1, <3>3 DEF PbufsAccounted, i, j
  <2> QED BY <2>3, <2>4, <2>5, <2>6
<1>4. NumbersOK' /\ FlagsOK' /\ DataOK'
  BY <1>0, <1>2, <1>3, TypeParts DEF NumbersOK, FlagsOK, DataOK
<1>5. Phases'
  BY <1>0, <1>1 DEF Phases
<1>6. NeverReleasesTwice' /\ GivenUpAll' /\ GivenBeforeCleared' /\ WakeupDue'
  BY <1>0 DEF NeverReleasesTwice, GivenUpAll, GivenBeforeCleared, WakeupDue, Ready
<1> QED BY <1>0, <1>3, <1>4, <1>5, <1>6, OtherRing, TypeParts

THEOREM Inductive == Spec => []IInv
<1>1. IInv /\ UNCHANGED vars => IInv'
  <2> SUFFICES ASSUME IInv, UNCHANGED vars PROVE IInv'
    OBVIOUS
  <2>1. TypeOK' /\ Phases' /\ PbufsAccounted' /\ GivenBeforeCleared' /\ WakeupDue'
    BY DEF vars, IInv, TypeOK, Phases, PbufsAccounted, GivenBeforeCleared, WakeupDue, Ready
  <2>2. GivenUpAll' /\ NeverReleasesTwice'
    BY DEF vars, IInv, GivenUpAll, NeverReleasesTwice
  <2> QED BY <2>1, <2>2, OtherRing DEF vars, IInv
<1>2. IInv /\ Next => IInv'
  BY ArriveInv, IrqInv, LookInv, GetInv, AllocInv, ReleaseInv, InputInv, ThreadInv DEF Next, Task
<1>3. IInv /\ [Next]_vars => IInv'
  BY <1>1, <1>2
<1> QED BY InitInv, <1>3, PTL DEF Spec

\* Every variable of the receive path keeps its type: Seg_Count passes the size of the
\* ring by one at most, however many frames the task gives up.
THEOREM TypeCorrect == Spec => []TypeOK
BY Inductive, PTL DEF IInv

\* Each pbuf of the pool is in one pair of hands, on every path of ethernetif_input.
THEOREM EveryPbufAccounted == Spec => []PbufsAccounted
BY Inductive, PTL DEF IInv

\* A frame that waits while nothing is about to wake the task is one on which it gave up.
THEOREM NoWakeupIsLost == Spec => []NoWakeupLost
<1>1. IInv => NoWakeupLost
  BY DEF IInv, WakeupDue, NoWakeupLost, TaskBlocked, NoInterrupt
<1> QED BY Inductive, <1>1, PTL

\* What the task gives back to the DMA is its own.
THEOREM GivesBackItsOwn == Spec => []ReleasesOwnOnly
<1>1. IInv => ReleasesOwnOnly
  BY RingReleases DEF IInv
<1> QED BY Inductive, <1>1, PTL

\* The task and the DMA keep their places in the ring.
THEOREM PlacesKept == Spec => []InStep
<1>1. IInv => InStep
  BY RingInStep DEF IInv
<1> QED BY Inductive, <1>1, PTL

-------------------------------------------------------------------------------
(***************************************************************************)
(* The driver is a queue.                                                  *)
(***************************************************************************)
\* As long as no frame has been given up, the task has one frame in hand at most.
OneInHand ==
    ~dry => /\ pc \in {"alloc", "release"} => Seg_Count = 1
            /\ pc \notin {"alloc", "release"} => Seg_Count = 0
            /\ pc = "alloc" => own[FS_Rx_Desc] = "cpu" /\ length = buffer[FS_Rx_Desc]

LEMMA OneInHandInductive == Spec => []OneInHand
<1>1. Init => OneInHand
  BY DEF Init, OneInHand
<1>2. IInv /\ OneInHand /\ Next => OneInHand'
  <2> SUFFICES ASSUME IInv, OneInHand, Next PROVE OneInHand'
    OBVIOUS
  <2>0. TypeOK /\ Phases
    BY DEF IInv
  <2>1. CASE Arrive
    BY <2>0, <2>1 DEF TypeOK, Arrive, rxVars, histVars, OneInHand
  <2>2. CASE Irq
    BY <2>2 DEF Irq, IrqGive, IrqClear, hwVars, rxVars, histVars, OneInHand
  <2>3. CASE Take \/ GetNone \/ Alloc \/ AllocFails
    BY <2>3 DEF Take, GetNone, Alloc, AllocFails, TaskRuns, hwVars, rxVars, histVars, OneInHand
  <2>4. CASE Get
    BY <2>4 DEF Get, TaskRuns, hwVars, histVars, OneInHand
  <2>5. CASE Release
    BY <2>0, <2>5 DEF TypeOK, Phases, Release, TaskRuns, histVars, OneInHand
  <2>6. CASE Input \/ InputFails
    BY <2>6 DEF Input, InputFails, TaskRuns, hwVars, rxVars, histVars, OneInHand
  <2>7. CASE Thread \/ Recv
    BY <2>7 DEF Thread, Fetch, Consume, Deliver, Recv, hwVars, rxVars, histVars, OneInHand
  <2> QED BY <2>1, <2>2, <2>3, <2>4, <2>5, <2>6, <2>7 DEF Next, Task
<1>3. OneInHand /\ UNCHANGED vars => OneInHand'
  BY DEF vars, OneInHand
<1> QED BY Inductive, <1>1, <1>2, <1>3, PTL DEF Spec

\* The pending frames are those of the n descriptors from HeadDesc on: those that the
\* task has not looked at, and the one for which it asks for a pbuf.
Whole(f) == [data |-> f, length |-> f]
FramesFrom(b, d, n) == [j \in 1 .. n |-> Whole(b[(d + j - 1) % RxBufNb])]
Pending(n) == FramesFrom(buffer, HeadDesc, n)
Waiting(unread) == IF pc = "release" THEN unread ELSE Held + unread

RingHolds(n) ==
    /\ InRing = n /\ n \in 0 .. RxBufNb /\ HeadDesc \in Descs
    /\ dmaDesc = (HeadDesc + n) % RxBufNb
    /\ \A j \in 0 .. n - 1 : own[(HeadDesc + j) % RxBufNb] = "cpu"

\* The refinement mapping, which InRing states by the distance of two descriptors.
LEMMA CountsFrames ==
    \A unread \in 0 .. RxBufNb :
        IInv /\ OneInHand /\ ~dry /\ Divided(unread) => RingHolds(Waiting(unread))
<1> USE RingAssumption
<1> SUFFICES ASSUME NEW unread \in 0 .. RxBufNb, IInv, OneInHand, ~dry, Divided(unread)
             PROVE  RingHolds(Waiting(unread))
  OBVIOUS
<1> DEFINE n == Waiting(unread)
<1>0. TypeOK /\ Phases /\ First \in Descs /\ Held \in 0 .. 1
  <2>1. TypeOK /\ Phases /\ Held \in 0 .. 1
    BY DEF IInv, TypeOK, Phases, OneInHand, Held
  <2> QED BY <2>1, HeldInRing
<1>1. Held + unread \in 0 .. RxBufNb /\ OwnedFrom(own, First, Held + unread)
  BY <1>0 DEF Divided
<1>2. /\ HeadDesc \in Descs /\ n \in 0 .. RxBufNb
      /\ pc = "release" => Held = 1 /\ n < RxBufNb /\ HeadDesc = (First + 1) % RxBufNb
      /\ pc # "release" => HeadDesc = First /\ n = Held + unread
  <2>1. CASE pc = "release"
    <3>1. Held = 1 /\ n = unread /\ HeadDesc = DMARxDescToGet
      BY <1>0, <2>1 DEF Phases, TypeOK, Held, OneInHand, Waiting, HeadDesc
    <3> QED BY <1>0, <1>1, <2>1, <3>1 DEF Divided, TypeOK
  <2>2. CASE pc = "alloc"
    <3>1. HeadDesc = FS_Rx_Desc /\ Seg_Count = 1 /\ k = 0 /\ FS_Rx_Desc \in Descs
      BY <1>0, <2>2 DEF Phases, TypeOK, OneInHand, HeadDesc
    <3>2. First = FS_Rx_Desc
      BY <3>1, Here DEF First
    <3> QED BY <1>1, <2>2, <3>1, <3>2 DEF Waiting
  <2>3. CASE pc \notin {"alloc", "release"}
    BY <1>0, <1>1, <2>3 DEF OneInHand, First, HeadDesc, Waiting
  <2> QED BY <2>1, <2>2, <2>3
<1>3. dmaDesc = (HeadDesc + n) % RxBufNb
  <2>1. CASE pc = "release"
    <3>1. n = unread /\ Held = 1 /\ HeadDesc = (First + 1) % RxBufNb
      BY <1>2, <2>1 DEF Waiting
    <3>2. (((First + 1) % RxBufNb) + unread) % RxBufNb = (First + 1 + unread) % RxBufNb
      <4>1. 1 \in 0 .. RxBufNb /\ unread + 1 <= RxBufNb
        BY <1>1, <3>1
      <4> QED BY <1>0, <4>1, Further
    <3> QED BY <3>1, <3>2 DEF Divided
  <2>2. CASE pc # "release"
    <3>1. First + Held + unread = First + (Held + unread)
      BY <1>0 DEF Descs
    <3> QED BY <1>2, <2>2, <3>1 DEF Divided
  <2> QED BY <2>1, <2>2
<1>4. ASSUME NEW j \in 0 .. n - 1 PROVE own[(HeadDesc + j) % RxBufNb] = "cpu"
  <2>1. CASE pc = "release"
    <3>1. j + 1 \in 0 .. RxBufNb - 1 /\ j + 1 < Held + unread
      BY <1>2, <2>1 DEF Waiting
    <3>2. own[(First + (j + 1)) % RxBufNb] = "cpu"
      BY <1>1, <3>1 DEF OwnedFrom
    <3>3. (((First + 1) % RxBufNb) + j) % RxBufNb = (First + 1 + j) % RxBufNb
      <4>1. 1 \in 0 .. RxBufNb /\ j \in 0 .. RxBufNb /\ j + 1 <= RxBufNb
        BY <3>1
      <4> QED BY <1>0, <4>1, Further
    <3>4. First + 1 + j = First + (j + 1)
      BY <1>0, <1>2 DEF Descs
    <3> QED BY <1>2, <2>1, <3>2, <3>3, <3>4
  <2>2. CASE pc # "release"
    <3>1. j \in 0 .. RxBufNb - 1 /\ j < Held + unread
      BY <1>2, <2>2
    <3> QED BY <1>1, <1>2, <2>2, <3>1 DEF OwnedFrom
  <2> QED BY <2>1, <2>2
<1>5. InRing = n
  <2>1. (HeadDesc + n) % RxBufNb = IF HeadDesc + n < RxBufNb THEN HeadDesc + n
                                                             ELSE HeadDesc + n - RxBufNb
    BY <1>2, Slot
  <2>2. CASE n = 0
    <3>1. dmaDesc = HeadDesc
      BY <1>2, <1>3, <2>1, <2>2 DEF Descs
    <3>2. pc = "release" \/ own[HeadDesc] = "dma"
      <4>1. pc # "release" => own[(First + 0) % RxBufNb] = "dma"
        BY <1>1, <1>2, <2>2 DEF OwnedFrom
      <4> QED BY <1>0, <1>2, <4>1, Here
    <3> QED BY <2>2, <3>1, <3>2 DEF InRing
  <2>3. CASE n = RxBufNb
    <3>1. dmaDesc = HeadDesc
      BY <1>2, <1>3, <2>1, <2>3 DEF Descs
    <3>2. pc # "release" /\ own[(HeadDesc + 0) % RxBufNb] = "cpu"
      BY <1>2, <1>4, <2>3
    <3>3. own[HeadDesc] = "cpu"
      BY <1>2, <3>2, Here
    <3> QED BY <2>3, <3>1, <3>2, <3>3 DEF InRing
  <2>4. CASE n \in 1 .. RxBufNb - 1
    <3>1. dmaDesc # HeadDesc /\ dmaDesc + RxBufNb - HeadDesc \in 0 .. 2 * RxBufNb - 1
          /\ dmaDesc + RxBufNb - HeadDesc = IF HeadDesc + n < RxBufNb THEN n + RxBufNb ELSE n
      BY <1>2, <1>3, <2>1, <2>4 DEF Descs
    <3>2. (dmaDesc + RxBufNb - HeadDesc) % RxBufNb = n
      <4> HIDE DEF n
      <4> QED BY <2>4, <3>1, Wraps
    <3> QED BY <3>1, <3>2 DEF InRing
  <2> QED BY <1>2, <2>2, <2>3, <2>4
<1> QED BY <1>2, <1>3, <1>4, <1>5 DEF RingHolds

\* The state of the queue is the pending frames and the pbuf of the task.
LEMMA QueueState ==
    /\ Queue!QInit <=> Pending(InRing) = <<>> /\ p = NoPbuf
    /\ UNCHANGED Queue!qvars <=> Pending(InRing)' = Pending(InRing) /\ p' = p
    /\ \A f \in Frames : Queue!Enter(Whole(f)) <=>
          /\ Len(Pending(InRing)) < RxBufNb
          /\ Pending(InRing)' = Append(Pending(InRing), Whole(f)) /\ p' = p
    /\ Queue!Leave <=> /\ Pending(InRing) # <<>> /\ p = NoPbuf
                       /\ p' = Head(Pending(InRing)) /\ Pending(InRing)' = Tail(Pending(InRing))
    /\ Queue!HandOver <=> /\ p # NoPbuf /\ p' = NoPbuf
                          /\ Pending(InRing)' = Pending(InRing)
BY DEF Queue!QInit, Queue!qvars, Queue!Enter, Queue!Leave, Queue!HandOver, Pending, FramesFrom, Whole

\* What a frame that comes in, and one that is copied out, do to the frames in the ring.
Contents == [Descs -> Frames \cup {NoFrame}]
Pbufs == [data : Frames \cup {NoFrame}, length : Frames \cup {NoFrame}]

LEMMA FramesFromIsSeq ==
    ASSUME NEW b \in Contents, NEW d \in Descs, NEW n \in 0 .. RxBufNb
    PROVE  /\ FramesFrom(b, d, n) \in Seq(Pbufs) /\ Len(FramesFrom(b, d, n)) = n
           /\ \A j \in 1 .. n : FramesFrom(b, d, n)[j] = Whole(b[(d + (j - 1)) % RxBufNb])
<1> USE RingAssumption
<1>1. ASSUME NEW j \in 1 .. n
      PROVE  d + j - 1 = d + (j - 1) /\ Whole(b[(d + (j - 1)) % RxBufNb]) \in Pbufs
  <2>1. d + j - 1 = d + (j - 1) /\ j - 1 \in 0 .. RxBufNb
    BY DEF Descs
  <2>2. (d + (j - 1)) % RxBufNb \in Descs
    BY <2>1, Slot
  <2> QED BY <2>1, <2>2 DEF Contents, Whole, Pbufs
<1>2. FramesFrom(b, d, n) = [j \in 1 .. n |-> Whole(b[(d + (j - 1)) % RxBufNb])]
  BY <1>1 DEF FramesFrom
<1>3. FramesFrom(b, d, n) \in [1 .. n -> Pbufs]
  BY <1>1, <1>2
<1>4. FramesFrom(b, d, n) \in Seq(Pbufs)
  BY <1>3, SeqDef
<1>5. Len(FramesFrom(b, d, n)) = n
  BY <1>3, <1>4, LenProperties
<1> QED BY <1>2, <1>4, <1>5

LEMMA FrameEnters ==
    ASSUME NEW b \in Contents, NEW d \in Descs, NEW n \in 0 .. RxBufNb - 1, NEW f \in Frames
    PROVE  FramesFrom([b EXCEPT ![(d + n) % RxBufNb] = f], d, n + 1)
             = Append(FramesFrom(b, d, n), Whole(f))
<1> USE RingAssumption
<1> DEFINE c == [b EXCEPT ![(d + n) % RxBufNb] = f]
           old == FramesFrom(b, d, n)
           new == FramesFrom(c, d, n + 1)
<1>a. c \in Contents
  BY DEF Contents
<1>b. n + 1 \in 0 .. RxBufNb /\ n \in 0 .. RxBufNb /\ Whole(f) \in Pbufs
  BY DEF Whole, Pbufs
<1>1. c \in Contents /\ n + 1 \in 0 .. RxBufNb /\ n \in 0 .. RxBufNb /\ Whole(f) \in Pbufs
  BY <1>a, <1>b
<1>2. /\ old \in Seq(Pbufs) /\ Len(old) = n
      /\ \A j \in 1 .. n : old[j] = Whole(b[(d + (j - 1)) % RxBufNb])
  BY <1>1, FramesFromIsSeq
<1>3. /\ new \in Seq(Pbufs) /\ Len(new) = n + 1
      /\ \A j \in 1 .. n + 1 : new[j] = Whole(c[(d + (j - 1)) % RxBufNb])
  <2> HIDE DEF c
  <2> QED BY <1>1, FramesFromIsSeq
<1>4. /\ Append(old, Whole(f)) \in Seq(Pbufs) /\ Len(Append(old, Whole(f))) = n + 1
      /\ \A j \in 1 .. n : Append(old, Whole(f))[j] = old[j]
      /\ Append(old, Whole(f))[n + 1] = Whole(f)
  <2> HIDE DEF old
  <2> QED BY <1>1, <1>2, AppendProperties
<1>5. ASSUME NEW j \in 1 .. n + 1 PROVE new[j] = Append(old, Whole(f))[j]
  <2> DEFINE e == (d + (j - 1)) % RxBufNb
             last == (d + n) % RxBufNb
  <2>1. /\ e \in Descs /\ e = IF d + (j - 1) < RxBufNb THEN d + (j - 1) ELSE d + (j - 1) - RxBufNb
        /\ last \in Descs /\ last = IF d + n < RxBufNb THEN d + n ELSE d + n - RxBufNb
    <3>1. j - 1 \in 0 .. RxBufNb
      OBVIOUS
    <3> QED BY <1>1, <3>1, Slot
  <2>2. new[j] = Whole([b EXCEPT ![last] = f][e])
    BY <1>3
  <2>3. j # n + 1 => Append(old, Whole(f))[j] = Whole(b[e])
    <3>1. j # n + 1 => j \in 1 .. n
      OBVIOUS
    <3> HIDE DEF old
    <3> QED BY <1>2, <1>4, <3>1
  <2> HIDE DEF e, last, old, new, c
  <2>4. e = last <=> j = n + 1
    BY <2>1 DEF Descs
  <2>5. CASE j = n + 1
    BY <1>4, <2>1, <2>2, <2>4, <2>5 DEF Contents
  <2>6. CASE j # n + 1
    BY <2>1, <2>2, <2>3, <2>4, <2>6 DEF Contents
  <2> QED BY <2>5, <2>6
<1> HIDE DEF old, new
<1>6. new = Append(old, Whole(f))
  BY <1>3, <1>4, <1>5, SeqEqual
<1> QED BY <1>6 DEF old, new

LEMMA FrameLeaves ==
    ASSUME NEW b \in Contents, NEW d \in Descs, NEW n \in 1 .. RxBufNb
    PROVE  /\ FramesFrom(b, d, n) # <<>>
           /\ Head(FramesFrom(b, d, n)) = Whole(b[d])
           /\ FramesFrom(b, NextDesc(d), n - 1) = Tail(FramesFrom(b, d, n))
<1> USE RingAssumption
<1> DEFINE old == FramesFrom(b, d, n)
           new == FramesFrom(b, NextDesc(d), n - 1)
<1>1. n \in 0 .. RxBufNb /\ n - 1 \in 0 .. RxBufNb /\ NextDesc(d) = (d + 1) % RxBufNb
  BY DEF NextDesc
<1>2. NextDesc(d) \in Descs
  BY <1>1, Slot
<1>3. /\ old \in Seq(Pbufs) /\ Len(old) = n
      /\ \A j \in 1 .. n : old[j] = Whole(b[(d + (j - 1)) % RxBufNb])
  BY <1>1, FramesFromIsSeq
<1>4. /\ new \in Seq(Pbufs) /\ Len(new) = n - 1
      /\ \A j \in 1 .. n - 1 : new[j] = Whole(b[(NextDesc(d) + (j - 1)) % RxBufNb])
  BY <1>1, <1>2, FramesFromIsSeq
<1>5. Head(old) = Whole(b[d])
  <2>1. Head(old) = old[1] /\ 1 \in 1 .. n
    BY <1>3
  <2>2. (d + (1 - 1)) % RxBufNb = d
    BY Here
  <2> QED BY <1>3, <2>1, <2>2
<1> HIDE DEF old, new
<1>6. old # <<>>
  BY <1>3, EmptySeq
<1>7. Tail(old) \in Seq(Pbufs) /\ Len(Tail(old)) = n - 1 /\ \A j \in 1 .. n - 1 : Tail(old)[j] = old[j + 1]
  BY <1>3, <1>6, HeadTailProperties
<1>8. ASSUME NEW j \in 1 .. n - 1 PROVE new[j] = Tail(old)[j]
  <2>1. j + 1 \in 1 .. n /\ j + 1 - 1 = j /\ j - 1 \in 0 .. RxBufNb /\ 1 + (j - 1) <= RxBufNb
        /\ 1 \in 0 .. RxBufNb /\ d + 1 + (j - 1) = d + j
    BY DEF Descs
  <2>2. (((d + 1) % RxBufNb) + (j - 1)) % RxBufNb = (d + 1 + (j - 1)) % RxBufNb
    BY <2>1, Further
  <2>3. old[j + 1] = Whole(b[(d + j) % RxBufNb])
    BY <1>3, <2>1
  <2> QED BY <1>1, <1>4, <1>7, <2>1, <2>2, <2>3
<1>9. new = Tail(old)
  BY <1>4, <1>7, <1>8, SeqEqual
<1> QED BY <1>5, <1>6, <1>9 DEF old, new

LEMMA CountsFramesNext ==
    (\A unread \in 0 .. RxBufNb :
        IInv /\ OneInHand /\ ~dry /\ Divided(unread) => RingHolds(Waiting(unread)))'
BY CountsFrames, PTL

LEMMA QueueInit == Init => Queue!QInit
<1> SUFFICES ASSUME Init PROVE Queue!QInit
  OBVIOUS
<1>1. 0 \in Descs /\ own[0] = "dma" /\ HeadDesc = 0 /\ dmaDesc = 0
  BY RingAssumption DEF Init, Descs, HeadDesc
<1>2. InRing = 0
  BY <1>1 DEF InRing
<1>3. buffer \in Contents
  BY DEF Init, Contents
<1>4. Pending(0) \in Seq(Pbufs) /\ Len(Pending(0)) = 0
  BY <1>1, <1>3, FramesFromIsSeq, RingAssumption DEF Pending
<1>5. Pending(0) = <<>>
  BY <1>4, EmptySeq
<1> QED BY <1>2, <1>5, QueueState DEF Init

LEMMA QueueStep ==
    ASSUME IInv, IInv', OneInHand, OneInHand', Next, ~dry'
    PROVE  Queue!QNext \/ UNCHANGED Queue!qvars
<1> USE RingAssumption
<1>0. TypeOK /\ Phases /\ NeverReleasesTwice /\ buffer \in Contents
  BY DEF IInv, TypeOK, Contents
<1>a. ~dry
  BY DEF Next, Arrive, Irq, IrqGive, IrqClear, Task, Take, GetNone, Get, Alloc, AllocFails, Release,
         Input, InputFails, Thread, Fetch, Consume, Deliver, Recv, histVars
<1>b. Held \in 0 .. 1
  BY <1>0, <1>a DEF TypeOK, Phases, OneInHand, Held
<1>c. PICK unread \in 0 .. RxBufNb : Divided(unread)
  BY <1>b DEF IInv, RingDivided
<1> DEFINE n == Waiting(unread)
<1>d. /\ RingHolds(n) /\ InRing = n /\ n \in 0 .. RxBufNb /\ HeadDesc \in Descs
      /\ dmaDesc = (HeadDesc + n) % RxBufNb
  BY <1>a, <1>c, CountsFrames DEF RingHolds
<1>e. ASSUME NEW u \in 0 .. RxBufNb, Divided(u)' PROVE RingHolds(Waiting(u))'
  BY <1>e, CountsFramesNext
<1>1. ASSUME Arrive PROVE \E f \in Frames : Queue!Enter(Whole(f))
  <2>0. pc' = pc /\ p' = p /\ Held' = Held /\ HeadDesc' = HeadDesc
    BY <1>1 DEF Arrive, rxVars, Held, HeadDesc
  <2>1. unread + 1 \in 0 .. RxBufNb /\ Divided(unread + 1)'
    BY <1>0, <1>1, <1>c, ArriveDivides
  <2>2. RingHolds(Waiting(unread + 1))'
    BY <1>e, <2>1
  <2>3. Waiting(unread + 1)' = n + 1
    BY <1>b, <2>0 DEF Waiting
  <2>4. InRing' = n + 1 /\ n \in 0 .. RxBufNb - 1
    BY <1>d, <2>2, <2>3 DEF RingHolds
  <2>5. PICK f \in Frames : buffer' = [buffer EXCEPT ![(HeadDesc + n) % RxBufNb] = f]
    BY <1>1, <1>d DEF Arrive
  <2> HIDE DEF n
  <2>6. Pending(InRing)' = Append(Pending(InRing), Whole(f))
    BY <1>0, <1>d, <2>0, <2>4, <2>5, FrameEnters DEF Pending
  <2>7. Len(Pending(InRing)) < RxBufNb
    BY <1>0, <1>d, <2>4, FramesFromIsSeq DEF Pending
  <2> QED BY <2>0, <2>6, <2>7, QueueState
<1>2. ASSUME Get PROVE UNCHANGED Queue!qvars
  <2>0. pc = "get" /\ pc' = "alloc" /\ Held = 0 /\ Held' = 1 /\ p' = p /\ buffer' = buffer
    BY <1>0, <1>2, <1>a, GetPlaces DEF Get, TaskRuns, OneInHand, hwVars
  <2>1. unread - 1 \in 0 .. RxBufNb /\ Divided(unread - 1)'
    BY <1>0, <1>2, <1>c, <2>0, GetDivides
  <2>2. RingHolds(Waiting(unread - 1))'
    BY <1>e, <2>1
  <2>3. Waiting(unread - 1)' = n
    BY <2>0 DEF Waiting
  <2>4. InRing' = InRing
    BY <1>d, <2>2, <2>3 DEF RingHolds
  <2>5. HeadDesc' = HeadDesc
    BY <1>0, <1>2, <1>a, <2>0 DEF HeadDesc, Get, OneInHand, Phases
  <2> QED BY <2>0, <2>4, <2>5, QueueState DEF Pending, FramesFrom
<1>3. ASSUME Alloc PROVE Queue!Leave
  <2>0. /\ pc = "alloc" /\ pc' = "release" /\ Held = 1 /\ Seg_Count = 1 /\ k = 0 /\ k' = 0
        /\ UNCHANGED <<own, buffer, dmaDesc, DMARxDescToGet, FS_Rx_Desc, Seg_Count>>
        /\ p = NoPbuf /\ p' = Whole(buffer[FS_Rx_Desc])
    BY <1>0, <1>3, <1>a DEF Alloc, TaskRuns, Phases, OneInHand, Held, Whole, hwVars, rxVars
  <2>1. First' = First /\ Held' = Held /\ First = HeadDesc /\ HeadDesc = FS_Rx_Desc
    BY <1>d, <2>0, Here DEF First, Held, HeadDesc
  <2>2. Divided(unread)'
    BY <1>c, <2>0, <2>1 DEF Divided, OwnedFrom
  <2>3. RingHolds(unread)' /\ n = unread + 1
    BY <1>e, <2>0, <2>2 DEF Waiting
  <2>4. InRing' = n - 1 /\ n \in 1 .. RxBufNb
    BY <1>d, <2>3 DEF RingHolds
  <2>5. HeadDesc' = NextDesc(HeadDesc)
    BY <1>c, <2>0, <2>1 DEF Divided, HeadDesc, NextDesc
  <2> HIDE DEF n
  <2>6. /\ Pending(InRing) # <<>> /\ Head(Pending(InRing)) = Whole(buffer[HeadDesc])
        /\ Pending(InRing)' = Tail(Pending(InRing))
    BY <1>0, <1>d, <2>0, <2>4, <2>5, FrameLeaves DEF Pending
  <2> QED BY <2>0, <2>1, <2>6, QueueState
<1>4. ASSUME Release PROVE UNCHANGED Queue!qvars
  <2>0. pc = "release" /\ Seg_Count = 1 /\ k = 0 /\ pc' = "input" /\ p' = p /\ buffer' = buffer
        /\ DMARxDescToGet' = DMARxDescToGet
    BY <1>0, <1>4, <1>a DEF Release, TaskRuns, OneInHand, Phases, TypeOK
  <2>1. Divided(unread)' /\ Held' = 0
    BY <1>0, <1>4, <1>b, <1>c, ReleaseDivides
  <2>2. RingHolds(unread)' /\ n = unread
    BY <1>e, <2>0, <2>1 DEF Waiting
  <2>3. InRing' = InRing /\ HeadDesc' = HeadDesc
    BY <1>d, <2>0, <2>2 DEF RingHolds, HeadDesc
  <2> QED BY <2>0, <2>3, QueueState DEF Pending, FramesFrom
<1>5. ASSUME Input \/ InputFails PROVE Queue!HandOver
  <2>1. p # NoPbuf /\ p' = NoPbuf
    BY <1>0, <1>5 DEF Input, InputFails, TaskRuns, Phases
  <2>2. Pending(InRing)' = Pending(InRing)
    BY <1>5 DEF Input, InputFails, TaskRuns, hwVars, rxVars, Pending, FramesFrom, InRing, HeadDesc
  <2> QED BY <2>1, <2>2, QueueState
<1>6. ASSUME Irq \/ Take \/ GetNone \/ Thread \/ Recv PROVE UNCHANGED Queue!qvars
  <2>1. p' = p /\ UNCHANGED <<buffer, own, dmaDesc, DMARxDescToGet, FS_Rx_Desc>>
    BY <1>6 DEF Irq, IrqGive, IrqClear, Take, GetNone, Thread, Fetch, Consume, Deliver, Recv,
                hwVars, rxVars
  <2>2. (pc = "alloc" <=> pc' = "alloc") /\ (pc = "release" <=> pc' = "release")
    BY <1>6 DEF Irq, IrqGive, IrqClear, Take, GetNone, Thread, Fetch, Consume, Deliver, Recv,
                TaskRuns
  <2>3. InRing' = InRing /\ HeadDesc' = HeadDesc
    <3>1. HeadDesc' = HeadDesc
      BY <2>1, <2>2 DEF HeadDesc
    <3>2. (pc # "release")' <=> pc # "release"
      BY <2>2
    <3>3. own'[HeadDesc] = "cpu" <=> own[HeadDesc] = "cpu"
      BY <2>1
    <3>4. (own[HeadDesc] = "cpu" /\ pc # "release")' <=> (own[HeadDesc] = "cpu" /\ pc # "release")
      BY <3>1, <3>2, <3>3
    <3>5. dmaDesc' = dmaDesc
      BY <2>1
    <3> HIDE DEF HeadDesc
    <3> QED BY <3>1, <3>4, <3>5 DEF InRing
  <2> QED BY <2>1, <2>3, QueueState DEF Pending, FramesFrom
<1>7. ~AllocFails
  BY DEF AllocFails
<1> QED BY <1>1, <1>2, <1>3, <1>4, <1>5, <1>6, <1>7 DEF Next, Task, Queue!QNext, Whole

\* The receive path is a queue of whole frames until the first frame is given up:
\* each step of the driver, the DMA and the stack is one of the queue's or changes nothing
\* of it.
THEOREM ReceivesInOrder == Spec => ImplementsQueue
<1>1. IInv /\ IInv' /\ OneInHand /\ OneInHand' /\ [Next]_vars
        => [dry' \/ Queue!QNext]_(Queue!qvars)
  <2> SUFFICES ASSUME IInv, IInv', OneInHand, OneInHand', [Next]_vars
               PROVE  dry' \/ Queue!QNext \/ UNCHANGED Queue!qvars
    OBVIOUS
  <2>1. CASE Next
    BY <2>1, QueueStep
  <2>2. CASE UNCHANGED vars
    BY <2>2, QueueState DEF vars, Pending, FramesFrom, InRing, HeadDesc
  <2> QED BY <2>1, <2>2
<1> QED BY Inductive, OneInHandInductive, QueueInit, <1>1, PTL DEF Spec, ImplementsQueue
===============================================================================

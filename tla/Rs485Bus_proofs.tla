---------------------------- MODULE Rs485Bus_proofs ----------------------------
(***************************************************************************)
(* What UART4_IRQHandler queues is what was on the line, and FepGateway    *)
(* allows it, for every number of ports and of faults.                     *)
(***************************************************************************)
EXTENDS Rs485Bus, SequenceTheorems, TLAPS

Packets == [1 .. AnswerLength -> Bytes]

QueueOK == queue \in Seq(Packets) /\ line \in Seq(Bytes) /\ synced \in BOOLEAN

\* Since a break the bytes of the line lie in the buffer from index 1 on, where the
\* break's own byte has index 0, until rx_index comes round to the first of them.
LineStored ==
    synced /\ Len(line) <= RxWrap + 1 =>
        /\ rx_index = IF Len(line) < RxWrap THEN Len(line) + 1 ELSE Len(line) - RxWrap
        /\ \A k \in 1 .. Len(line) : k <= RxWrap => data_buff[k] = line[k]

IInv == TypeOK /\ QueueOK /\ LineStored

-------------------------------------------------------------------------------
(***************************************************************************)
(* UART4_IRQHandler.                                                       *)
(***************************************************************************)
LEMMA BytesKnown ==
    /\ Null \in Bytes /\ Stray \in Bytes
    /\ \A p \in Ports, k \in 1 .. AnswerLength : <<p, k>> \in Bytes
BY DEF Bytes

LEMMA NextIndex ==
    ASSUME NEW n \in 0 .. RxWrap
    PROVE  /\ RxNext(n) \in 0 .. RxWrap /\ n \in 0 .. BuffSize
           /\ RxNext(n) = IF n < RxWrap THEN n + 1 ELSE 0
BY BusAssumption DEF RxNext

LEMMA ShiftedBuffer ==
    ASSUME data_buff \in [0 .. BuffSize -> Bytes]
    PROVE  /\ Shifted \in [0 .. BuffSize -> Bytes]
           /\ [k \in 1 .. AnswerLength |-> Shifted[k - 1]] \in Packets
           /\ \A k \in 1 .. AnswerLength : Shifted[k - 1] = data_buff[k]
<1> USE BusAssumption
<1>1. ASSUME NEW k \in 0 .. BuffSize
      PROVE  Shifted[k] \in Bytes /\ Shifted[k] = IF k < 6 THEN data_buff[k + 1] ELSE data_buff[k]
  <2>1. k < 6 => k + 1 \in 0 .. BuffSize
    OBVIOUS
  <2> QED BY <2>1 DEF Shifted
<1>2. Shifted \in [0 .. BuffSize -> Bytes]
  BY <1>1 DEF Shifted
<1>3. ASSUME NEW k \in 1 .. AnswerLength
      PROVE  Shifted[k - 1] = data_buff[k] /\ Shifted[k - 1] \in Bytes
  <2>1. k - 1 \in 0 .. BuffSize /\ k - 1 < 6 /\ (k - 1) + 1 = k
    BY DEF AnswerLength
  <2> QED BY <1>1, <2>1
<1>4. [k \in 1 .. AnswerLength |-> Shifted[k - 1]] \in Packets
  BY <1>3 DEF Packets
<1> QED BY <1>2, <1>3, <1>4

\* What a byte, and a break, leave behind.
Received == /\ data_buff \in [0 .. BuffSize -> Bytes] /\ rx_index \in 0 .. RxWrap
            /\ Len(queue) <= QueueSize
            /\ queue \in Seq(Packets) /\ line \in Seq(Bytes) /\ synced \in BOOLEAN
            /\ LineStored

LEMMA ByteReceived == ASSUME Received, NEW b \in Bytes, RxByte(b) PROVE Received'
<1> USE BusAssumption
<1>1. data_buff' \in [0 .. BuffSize -> Bytes]
  BY NextIndex DEF Received, RxByte
<1>2. rx_index' \in 0 .. RxWrap
  BY NextIndex DEF Received, RxByte
<1>3. /\ Len(line) \in Nat /\ line' \in Seq(Bytes) /\ queue' = queue /\ synced' = synced
      /\ Len(line) < LineMax =>
            /\ Len(line') = Len(line) + 1 /\ line'[Len(line) + 1] = b
            /\ \A k \in 1 .. Len(line) : line'[k] = line[k]
      /\ Len(line) >= LineMax => line' = line
  <2>1. line \in Seq(Bytes) /\ Len(line) \in Nat
    BY LenProperties DEF Received
  <2>2. /\ Append(line, b) \in Seq(Bytes) /\ Len(Append(line, b)) = Len(line) + 1
        /\ Append(line, b)[Len(line) + 1] = b
        /\ \A k \in 1 .. Len(line) : Append(line, b)[k] = line[k]
    BY <2>1, AppendProperties
  <2>3. /\ line' = IF Len(line) < LineMax THEN Append(line, b) ELSE line
        /\ queue' = queue /\ synced' = synced
    BY DEF RxByte
  <2>4. LineMax \in Nat
    BY DEF LineMax, AnswerLength
  <2> QED BY <2>1, <2>2, <2>3, <2>4
<1>4. LineStored'
  <2> SUFFICES ASSUME synced, Len(line') <= RxWrap + 1
               PROVE  /\ rx_index' = IF Len(line') < RxWrap THEN Len(line') + 1
                                                            ELSE Len(line') - RxWrap
                      /\ \A k \in 1 .. Len(line') : k <= RxWrap => data_buff'[k] = line'[k]
    BY <1>3 DEF LineStored
  <2>1. Len(line) <= RxWrap /\ Len(line) < LineMax
    BY <1>3 DEF LineMax, AnswerLength
  <2>2. rx_index = IF Len(line) < RxWrap THEN Len(line) + 1 ELSE 0
    BY <1>3, <2>1 DEF Received, LineStored
  <2>3. rx_index' = IF Len(line') < RxWrap THEN Len(line') + 1 ELSE Len(line') - RxWrap
    <3>1. rx_index \in 0 .. RxWrap /\ rx_index' = RxNext(rx_index)
      BY DEF Received, RxByte
    <3>2. rx_index' = IF rx_index < RxWrap THEN rx_index + 1 ELSE 0
      BY <3>1, NextIndex
    <3>3. Len(line') = Len(line) + 1 /\ Len(line) \in Nat
      BY <1>3, <2>1
    <3> QED BY <2>1, <2>2, <3>2, <3>3
  <2>4. ASSUME NEW k \in 1 .. Len(line'), k <= RxWrap PROVE data_buff'[k] = line'[k]
    <3>1. k \in 0 .. BuffSize /\ k \in 1 .. Len(line) + 1
      BY <1>3, <2>1, <2>4
    <3>2. data_buff' = [data_buff EXCEPT ![rx_index] = b] /\ data_buff \in [0 .. BuffSize -> Bytes]
      BY DEF RxByte, Received
    <3>3. CASE k = Len(line) + 1
      BY <1>3, <2>1, <2>2, <2>4, <3>1, <3>2, <3>3
    <3>4. CASE k \in 1 .. Len(line)
      <4>1. data_buff[k] = line[k]
        BY <1>3, <2>1, <2>4, <3>4 DEF Received, LineStored
      <4>2. k # rx_index
        BY <1>3, <2>1, <2>2, <3>4
      <4> QED BY <1>3, <2>1, <3>1, <3>2, <3>4, <4>1, <4>2
    <3> QED BY <1>3, <3>1, <3>3, <3>4
  <2> QED BY <2>3, <2>4
<1> QED BY <1>1, <1>2, <1>3, <1>4 DEF Received

LEMMA BreakReceived == ASSUME Received, RxBreak PROVE Received'
<1> USE BusAssumption
<1>1. data_buff' \in [0 .. BuffSize -> Bytes]
  BY ShiftedBuffer, BytesKnown DEF Received, RxBreak
<1>2. rx_index' = 1 /\ rx_index' \in 0 .. RxWrap
  BY NextIndex DEF RxBreak
<1>3. queue' \in Seq(Packets) /\ Len(queue') <= QueueSize
  <2> DEFINE packet == [k \in 1 .. AnswerLength |-> Shifted[k - 1]]
  <2>1. packet \in Packets
    BY ShiftedBuffer DEF Received
  <2>2. queue' = IF Len(queue) < QueueSize THEN Append(queue, packet) ELSE queue
    BY DEF RxBreak
  <2> HIDE DEF packet
  <2>3. Append(queue, packet) \in Seq(Packets) /\ Len(Append(queue, packet)) = Len(queue) + 1
        /\ Len(queue) \in Nat
    BY <2>1, AppendProperties, LenProperties DEF Received
  <2> QED BY <2>2, <2>3 DEF Received
<1>4. line' \in Seq(Bytes) /\ Len(line') = 0 /\ synced' \in BOOLEAN
  BY EmptySeq DEF RxBreak
<1>5. LineStored'
  BY <1>2, <1>4 DEF LineStored
<1> QED BY <1>1, <1>2, <1>3, <1>4, <1>5 DEF Received

-------------------------------------------------------------------------------
(***************************************************************************)
(* The inductive invariant.                                                *)
(***************************************************************************)
Others == /\ sel \in Ports \cup {0} /\ dir \in {"TRANSF", "RECE"}
          /\ pc \in {"ask", "turn", "wait"} /\ i \in Ports
          /\ todo \in [Ports -> 0 .. AnswerLength + 1] /\ faults \in 0 .. MaxFaults

LEMMA Parts == /\ IInv <=> Others /\ Received
               /\ IInv' <=> Others' /\ Received'
<1>1. ASSUME queue \in Seq(Packets)
      PROVE  \A k \in 1 .. Len(queue) : queue[k] \in [1 .. AnswerLength -> Bytes]
  BY <1>1, ElementOfSeq DEF Packets
<1>2. ASSUME queue' \in Seq(Packets)
      PROVE  \A k \in 1 .. Len(queue') : queue'[k] \in [1 .. AnswerLength -> Bytes]
  BY <1>2, ElementOfSeq DEF Packets
<1> QED BY <1>1, <1>2 DEF IInv, TypeOK, QueueOK, Others, Received

LEMMA InitInv == Init => IInv
<1> SUFFICES ASSUME Init PROVE Others /\ Received
  BY Parts
<1> USE BusAssumption
<1>1. Others
  BY DEF Init, Others, Ports, AnswerLength
<1>2. data_buff \in [0 .. BuffSize -> Bytes] /\ rx_index \in 0 .. RxWrap
  BY BytesKnown DEF Init
<1>3. queue \in Seq(Packets) /\ line \in Seq(Bytes) /\ Len(queue) <= QueueSize
  BY EmptySeq DEF Init
<1>4. synced \in BOOLEAN /\ LineStored
  BY Zenon DEF Init, LineStored
<1> QED BY <1>1, <1>2, <1>3, <1>4 DEF Received

LEMMA StepInv == ASSUME IInv, [Next]_vars PROVE IInv'
<1> USE BusAssumption
<1>0. Others /\ Received
  BY Parts
<1>1. CASE Ask \/ TurnRound \/ NextPort \/ UNCHANGED vars
  <2>1. UNCHANGED <<data_buff, rx_index, queue, line, synced>>
    BY <1>1 DEF Ask, TurnRound, NextPort, vars
  <2>2. Received'
    BY <1>0, <2>1 DEF Received, LineStored
  <2>3. sel' \in Ports \cup {0} /\ dir' \in {"TRANSF", "RECE"} /\ pc' \in {"ask", "turn", "wait"}
    BY <1>0, <1>1 DEF Others, Ask, TurnRound, NextPort, vars, RS485_sel, RS485_Dir
  <2>4. i' \in Ports
    BY <1>0, <1>1 DEF Others, Ask, TurnRound, NextPort, vars, Ports
  <2>5. todo' \in [Ports -> 0 .. AnswerLength + 1]
    BY <1>0, <1>1 DEF Others, Ask, TurnRound, NextPort, vars, AnswerLength
  <2>6. faults' \in 0 .. MaxFaults
    BY <1>0, <1>1 DEF Others, Ask, TurnRound, NextPort, vars, Fault
  <2> QED BY Parts, <2>2, <2>3, <2>4, <2>5, <2>6 DEF Others
<1>2. CASE NoiseByte \/ NoiseBreak
  <2>1. Received'
    BY <1>0, <1>2, ByteReceived, BreakReceived, BytesKnown DEF NoiseByte, NoiseBreak
  <2>2. Others'
    BY <1>0, <1>2 DEF Others, NoiseByte, NoiseBreak, Fault
  <2> QED BY Parts, <2>1, <2>2
<1>3. CASE Receive
  <2>1. queue' \in Seq(Packets) /\ Len(queue') = Len(queue) - 1 /\ Len(queue) \in Nat
    BY <1>0, <1>3, HeadTailProperties, LenProperties DEF Receive, Received
  <2>2. Received'
    BY <1>0, <1>3, <2>1 DEF Received, Receive, LineStored
  <2>3. Others'
    BY <1>0, <1>3 DEF Others, Receive
  <2> QED BY Parts, <2>2, <2>3
<1>4. CASE \E p \in Ports : Send(p)
  <2> PICK p \in Ports : Send(p)
    BY <1>4
  <2>1. todo[p] \in 1 .. AnswerLength + 1
    BY <1>0 DEF Others, Send
  <2>2. Received'
    <3>1. CASE sel = p /\ dir = "RECE" /\ todo[p] <= AnswerLength
      <4>1. todo[p] \in 1 .. AnswerLength
        BY <2>1, <3>1 DEF AnswerLength
      <4>2. <<p, todo[p]>> \in Bytes
        BY <4>1, BytesKnown
      <4>3. RxByte(<<p, todo[p]>>)
        BY <3>1 DEF Send
      <4> QED BY <1>0, <4>2, <4>3, ByteReceived
    <3>2. CASE sel = p /\ dir = "RECE" /\ ~(todo[p] <= AnswerLength)
      BY <1>0, <3>2, BreakReceived DEF Send
    <3>3. CASE ~(sel = p /\ dir = "RECE")
      BY <1>0, <3>3 DEF Send, Received, LineStored
    <3> QED BY <3>1, <3>2, <3>3
  <2>3. Others'
    <3>1. (todo[p] + 1) % (AnswerLength + 2) \in 0 .. AnswerLength + 1
      BY <2>1 DEF AnswerLength
    <3>2. todo' \in [Ports -> 0 .. AnswerLength + 1]
      BY <1>0, <3>1 DEF Others, Send
    <3> QED BY <1>0, <3>2 DEF Others, Send
  <2> QED BY Parts, <2>2, <2>3
<1>5. CASE \E p \in Ports : Cut(p)
  <2> PICK p \in Ports : Cut(p)
    BY <1>5
  <2>1. Received'
    BY <1>0 DEF Cut, Received, LineStored
  <2>2. todo' \in [Ports -> 0 .. AnswerLength + 1]
    BY <1>0 DEF Others, Cut, AnswerLength
  <2>3. Others'
    BY <1>0, <2>2 DEF Others, Cut, Fault
  <2> QED BY Parts, <2>1, <2>3
<1> QED BY <1>1, <1>2, <1>3, <1>4, <1>5 DEF Next

LEMMA Inductive == Spec => []IInv
BY InitInv, StepInv, PTL DEF Spec

\* Every variable of the line keeps its type: the index stays in the array and the one
\* byte after it, however many bytes come in between two breaks.
THEOREM TypeCorrect == Spec => []TypeOK
BY Inductive, PTL DEF IInv

-------------------------------------------------------------------------------
(***************************************************************************)
(* What a break queues.                                                    *)
(***************************************************************************)
\* The packet of a break is queued at the end, and only a break makes the queue longer.
LEMMA BreakAppends ==
    ASSUME IInv, RxBreak
    PROVE  \/ /\ Len(queue') = Len(queue) + 1
              /\ queue' = Append(queue, [k \in 1 .. AnswerLength |-> Shifted[k - 1]])
           \/ queue' = queue
<1>1. queue \in Seq(Packets)
  BY DEF IInv, QueueOK
<1>2. [k \in 1 .. AnswerLength |-> Shifted[k - 1]] \in Packets
  BY ShiftedBuffer DEF IInv, TypeOK
<1> DEFINE packet == [k \in 1 .. AnswerLength |-> Shifted[k - 1]]
<1>3. queue' = IF Len(queue) < QueueSize THEN Append(queue, packet) ELSE queue
  BY DEF RxBreak
<1> HIDE DEF packet
<1>4. Len(Append(queue, packet)) = Len(queue) + 1
  BY <1>1, <1>2, AppendProperties DEF packet
<1>5. CASE Len(queue) < QueueSize
  BY <1>3, <1>4, <1>5 DEF packet
<1>6. CASE ~(Len(queue) < QueueSize)
  BY <1>3, <1>6
<1> QED BY <1>5, <1>6

LEMMA QueueGrows ==
    ASSUME IInv, [Next]_vars, Len(queue') > Len(queue)
    PROVE  RxBreak
<1>1. queue \in Seq(Packets) /\ Len(queue) \in Nat
  BY LenProperties DEF IInv, QueueOK
<1>2. CASE Ask \/ TurnRound \/ NextPort \/ UNCHANGED vars
  <2>1. queue' = queue
    BY <1>2 DEF Ask, TurnRound, NextPort, vars
  <2> QED BY <1>1, <2>1
<1>3. CASE NoiseByte
  <2>1. queue' = queue
    BY <1>3 DEF NoiseByte, RxByte
  <2> QED BY <1>1, <2>1
<1>4. CASE NoiseBreak
  BY <1>4 DEF NoiseBreak
<1>5. CASE Receive
  <2>1. Len(queue') = Len(queue) - 1
    BY <1>1, <1>5, HeadTailProperties DEF Receive
  <2> QED BY <1>1, <2>1
<1>6. CASE \E p \in Ports : Cut(p)
  <2>1. queue' = queue
    BY <1>6 DEF Cut
  <2> QED BY <1>1, <2>1
<1>7. CASE \E p \in Ports : Send(p)
  <2> PICK p \in Ports : Send(p)
    BY <1>7
  <2>1. RxBreak \/ queue' = queue
    BY DEF Send, RxByte
  <2> QED BY <1>1, <2>1
<1> QED BY <1>2, <1>3, <1>4, <1>5, <1>6, <1>7 DEF Next

LEMMA BreakStep ==
    ASSUME IInv, [Next]_vars, Len(queue') > Len(queue), synced,
           Len(line) \in AnswerLength .. RxWrap + 1
    PROVE  Last(queue') = SubSeq(line, 1, AnswerLength)
<1> USE BusAssumption
<1> DEFINE packet == [k \in 1 .. AnswerLength |-> Shifted[k - 1]]
<1>1. queue \in Seq(Packets) /\ line \in Seq(Bytes) /\ Len(queue) \in Nat /\ Len(line) \in Nat
  BY LenProperties DEF IInv, QueueOK
<1>2. packet \in Packets /\ \A k \in 1 .. AnswerLength : Shifted[k - 1] = data_buff[k]
  BY ShiftedBuffer DEF IInv, TypeOK
<1>3. Len(queue') = Len(queue) + 1 /\ queue' = Append(queue, packet)
  BY <1>1, QueueGrows, BreakAppends
<1>4. \A k \in 1 .. AnswerLength : data_buff[k] = line[k]
  <2> SUFFICES ASSUME NEW k \in 1 .. AnswerLength PROVE data_buff[k] = line[k]
    OBVIOUS
  <2>1. k \in 1 .. Len(line) /\ k <= RxWrap /\ Len(line) <= RxWrap + 1
    BY <1>1 DEF AnswerLength
  <2> QED BY <2>1 DEF IInv, LineStored
<1>5. packet = [k \in 1 .. AnswerLength |-> line[k]]
  BY <1>2, <1>4
<1> HIDE DEF packet
<1>6. Last(queue') = packet
  <2>1. Append(queue, packet)[Len(queue) + 1] = packet
    BY <1>1, <1>2, AppendProperties
  <2> QED BY <1>3, <2>1 DEF Last
<1>7. SubSeq(line, 1, AnswerLength) = [k \in 1 .. AnswerLength |-> line[k]]
  <2>1. AnswerLength \in Nat /\ AnswerLength = 5
    BY DEF AnswerLength
  <2> QED BY <1>1, <2>1
<1> QED BY <1>5, <1>6, <1>7

\* UART4_IRQHandler queues at a break the first five bytes since the break before, in
\* order and whole, although it stores them one byte too far and shifts the buffer only
\* then, for every number of ports and every number of faults on the line.
THEOREM QueuesTheLine == Spec => BreakQueuesLine
<1>1. IInv /\ [Next]_vars =>
        [Len(queue') > Len(queue) /\ synced /\ Len(line) \in AnswerLength .. RxWrap + 1 =>
            Last(queue') = SubSeq(line, 1, AnswerLength)]_vars
  BY BreakStep
<1> QED BY <1>1, Inductive, PTL DEF Spec, BreakQueuesLine

-------------------------------------------------------------------------------
(***************************************************************************)
(* What FepGateway sees of the line.                                       *)
(***************************************************************************)
\* A packet, and the queue, as the gateway's tasks read them.
Seen(p) == IF p[1][2] = 1 /\ p[1][1] > 0
             THEN [start |-> "GETVALUE_RETURN", id |-> IF p[3][2] = 3 THEN p[3][1] ELSE 0]
             ELSE [start |-> "other", id |-> 0]
SeenQueue == [k \in 1 .. Len(queue) |-> Seen(queue[k])]
SeenBytes == [k \in {3, 4} |-> data_buff[k]]

LEMMA SeenIsPacket == ASSUME NEW p \in Packets PROVE Seen(p) \in Gateway!Packets
<1>1. p[3] \in Bytes
  BY DEF Packets, AnswerLength
<1>2. p[3][2] = 3 => p[3][1] \in Ports
  BY <1>1 DEF Bytes, Null, Stray
<1>3. (IF p[3][2] = 3 THEN p[3][1] ELSE 0) \in Ports \cup {0}
  BY <1>2
<1> QED BY <1>3 DEF Seen, Gateway!Packets, Gateway!Answers, Gateway!NoAnswer

\* A byte at index 3 or 4 is the gateway's UART4_Byte, any other does not reach it.
LEMMA ByteFeeds ==
    ASSUME IInv, NEW b \in Bytes, RxByte(b)
    PROVE  Gateway!UART4_Byte \/ UNCHANGED <<data_buff[3], data_buff[4], queue>>
<1>1. /\ data_buff \in [0 .. BuffSize -> Bytes] /\ 3 \in 0 .. BuffSize /\ 4 \in 0 .. BuffSize
      /\ data_buff' = [data_buff EXCEPT ![rx_index] = b] /\ queue' = queue
  BY BusAssumption DEF IInv, TypeOK, RxByte
<1>2. CASE rx_index \notin {3, 4}
  BY <1>1, <1>2
<1>3. CASE rx_index \in {3, 4}
  <2>1. SeenBytes' = [SeenBytes EXCEPT ![rx_index] = b]
    BY <1>1, <1>3 DEF SeenBytes
  <2>2. SeenQueue' = SeenQueue
    BY <1>1 DEF SeenQueue
  <2>3. Gateway!UART4_Byte
    BY <1>3, <2>1, <2>2 DEF SeenBytes, SeenQueue, Seen, Gateway!UART4_Byte, Gateway!Overtakes,
       Gateway!fepVars, Gateway!gvVars, Gateway!rsVars, Gateway!udpVars
  <2> QED BY <2>3
<1> QED BY <1>2, <1>3

\* A break is the gateway's UART4_Break: it shifts the bytes and queues what they were.
LEMMA BreakFeeds == ASSUME IInv, RxBreak PROVE Gateway!UART4_Break
<1> DEFINE packet == [k \in 1 .. AnswerLength |-> Shifted[k - 1]]
<1>1. /\ data_buff \in [0 .. BuffSize -> Bytes] /\ queue \in Seq(Packets)
      /\ Len(queue) \in Nat
  BY LenProperties DEF IInv, TypeOK, QueueOK
<1>2. packet \in Packets
  BY <1>1, ShiftedBuffer
<1>3. /\ data_buff' = [Shifted EXCEPT ![0] = Null]
      /\ queue' = IF Len(queue) < QueueSize THEN Append(queue, packet) ELSE queue
  BY DEF RxBreak
<1> HIDE DEF packet
<1>4. data_buff[5] \in Bytes
  BY <1>1, BusAssumption
<1>5. SeenBytes' = [SeenBytes EXCEPT ![3] = SeenBytes[4], ![4] = data_buff[5]]
  <2>1. Shifted[3] = data_buff[4] /\ Shifted[4] = data_buff[5]
    BY BusAssumption DEF Shifted
  <2>2. data_buff'[3] = Shifted[3] /\ data_buff'[4] = Shifted[4]
    BY <1>3, BusAssumption DEF Shifted
  <2> QED BY <2>1, <2>2 DEF SeenBytes
<1>6. SeenQueue' = IF Len(SeenQueue) < QueueSize THEN Append(SeenQueue, Seen(packet)) ELSE SeenQueue
  <2>1. Len(SeenQueue) = Len(queue)
    BY <1>1 DEF SeenQueue
  <2>2. CASE Len(queue) < QueueSize
    <3>1. /\ queue' = Append(queue, packet) /\ Len(queue') = Len(queue) + 1
          /\ queue'[Len(queue) + 1] = packet
          /\ \A k \in 1 .. Len(queue) : queue'[k] = queue[k]
      BY <1>1, <1>2, <1>3, <2>2, AppendProperties
    <3>2. SeenQueue' = [k \in 1 .. Len(queue) + 1 |->
                           IF k = Len(queue) + 1 THEN Seen(packet) ELSE Seen(queue[k])]
      BY <1>1, <3>1 DEF SeenQueue
    <3>3. Append(SeenQueue, Seen(packet)) =
             [k \in 1 .. Len(queue) + 1 |->
                 IF k = Len(queue) + 1 THEN Seen(packet) ELSE SeenQueue[k]]
      <4> DEFINE longer == Append(SeenQueue, Seen(packet))
      <4>1. SeenQueue \in Seq(Gateway!Packets)
        <5>1. \A k \in 1 .. Len(queue) : queue[k] \in Packets
          BY <1>1, ElementOfSeq
        <5>2. \A k \in 1 .. Len(queue) : Seen(queue[k]) \in Gateway!Packets
          BY <5>1, SeenIsPacket
        <5> QED BY <1>1, <5>2 DEF SeenQueue
      <4>2. Seen(packet) \in Gateway!Packets
        BY <1>2, SeenIsPacket
      <4>3. /\ longer \in Seq(Gateway!Packets) /\ Len(longer) = Len(queue) + 1
            /\ longer[Len(queue) + 1] = Seen(packet)
            /\ \A k \in 1 .. Len(queue) : longer[k] = SeenQueue[k]
        BY <2>1, <4>1, <4>2, AppendProperties
      <4> HIDE DEF longer
      <4>4. longer = [k \in 1 .. Len(queue) + 1 |-> longer[k]]
        BY <4>3
      <4>5. ASSUME NEW k \in 1 .. Len(queue) + 1
            PROVE  longer[k] = IF k = Len(queue) + 1 THEN Seen(packet) ELSE SeenQueue[k]
        BY <1>1, <4>3
      <4> QED BY <4>4, <4>5 DEF longer
    <3>4. \A k \in 1 .. Len(queue) : SeenQueue[k] = Seen(queue[k])
      BY DEF SeenQueue
    <3> QED BY <1>1, <2>1, <2>2, <3>2, <3>3, <3>4
  <2>3. CASE ~(Len(queue) < QueueSize)
    BY <1>3, <2>1, <2>3 DEF SeenQueue
  <2> QED BY <2>2, <2>3
<1>7. Seen(packet) \in Gateway!Packets
  BY <1>2, SeenIsPacket
<1> QED BY <1>4, <1>5, <1>6, <1>7 DEF SeenBytes, SeenQueue, Seen, Gateway!UART4_Break,
           Gateway!Overtakes, Gateway!fepVars, Gateway!gvVars, Gateway!rsVars, Gateway!udpVars

LEMMA StepFeeds ==
    ASSUME IInv, [Next]_vars
    PROVE  [Gateway!UART4_Byte \/ Gateway!UART4_Break
            \/ Receive]_<<data_buff[3], data_buff[4], queue>>
<1>1. CASE Ask \/ TurnRound \/ NextPort \/ UNCHANGED vars
  BY <1>1 DEF Ask, TurnRound, NextPort, vars
<1>2. CASE NoiseByte
  BY <1>2, ByteFeeds, BytesKnown DEF NoiseByte
<1>3. CASE NoiseBreak
  BY <1>3, BreakFeeds DEF NoiseBreak
<1>4. CASE Receive
  BY <1>4
<1>5. CASE \E p \in Ports : Cut(p)
  BY <1>5 DEF Cut
<1>6. CASE \E p \in Ports : Send(p)
  <2> PICK p \in Ports : Send(p)
    BY <1>6
  <2>1. CASE sel = p /\ dir = "RECE" /\ todo[p] <= AnswerLength
    <3>1. todo[p] \in 1 .. AnswerLength
      BY <2>1 DEF IInv, TypeOK, Send, AnswerLength
    <3>2. <<p, todo[p]>> \in Bytes
      BY <3>1, BytesKnown
    <3>3. RxByte(<<p, todo[p]>>)
      BY <2>1 DEF Send
    <3> QED BY <3>2, <3>3, ByteFeeds
  <2>2. CASE sel = p /\ dir = "RECE" /\ ~(todo[p] <= AnswerLength)
    BY <2>2, BreakFeeds DEF Send
  <2>3. CASE ~(sel = p /\ dir = "RECE")
    BY <2>3 DEF Send
  <2> QED BY <2>1, <2>2, <2>3
<1> QED BY <1>1, <1>2, <1>3, <1>4, <1>5, <1>6 DEF Next

\* Whatever the devices, the noise and the polling task do to the line, the gateway's
\* tasks see of it only what UART4_Byte and UART4_Break of FepGateway allow: the line that
\* FepGateway leaves free covers this one.
THEOREM LineFeedsGateway == Spec => FeedsGateway
BY StepFeeds, Inductive, PTL DEF Spec, FeedsGateway
===============================================================================

-------------------------- MODULE SerialDebug_proofs --------------------------
(***************************************************************************)
(* The safety properties of SerialDebug, for every set of printing tasks   *)
(* and every length of line, whether somebody types or not.                *)
(***************************************************************************)
EXTENDS SerialDebug, TLAPS

\* A task has a character left when it begins to print one, and has begun the one that
\* it enables.
CharsLeft ==
    \A t \in Printers : /\ pc[t] \in {"wait", "write"} => number[t] < LineLength
                        /\ pc[t] \in {"load", "store", "spin"} => number[t] > 0

\* What the tasks rely on while no two of them overlap.  The character in Tx is the
\* one its task has begun last ...
TxIsLatest == Tx \in Chars => Tx.number = number[Tx.from]
\* ... with nothing to send the transmit interrupt is disabled ...
EnabledHasChar == TXEIE => Tx # None
\* ... a task that has waited finds Tx empty ...
WriterFindsNone == \A t \in Printers : pc[t] = "write" => Tx = None
\* ... and its character stays in Tx, the interrupt disabled and everybody else
\* outside, until the task enables it; then it is sent.
EnablerAlone ==
    \A t \in Printers : pc[t] \in {"load", "store"} =>
        /\ Tx = [from |-> t, number |-> number[t]] /\ ~TXEIE
        /\ \A u \in Printers \ {t} : pc[u] \notin {"write", "load", "store"}
SpinnerServed ==
    \A t \in Printers : pc[t] = "spin" =>
        Tx = [from |-> t, number |-> number[t]] \/ sent[t] = number[t]

OneAtATime ==
    overlapped \/ (TxIsLatest /\ EnabledHasChar /\ WriterFindsNone /\ EnablerAlone /\ SpinnerServed)

\* While no character has come in between a load and a store of CR1, the receive
\* interrupt stays disabled once a character is there that nobody reads.
ReceiveStaysOff ==
    stale \/ (Rx => ~RXNEIE /\ \A t \in Printers : pc[t] = "store" => ~CR1[t])

IInv == TypeOK /\ CharsLeft /\ OneAtATime /\ SentWhenReturned /\ ReceiveStaysOff

-------------------------------------------------------------------------------
LEMMA NoneIsNoChar == None \notin Chars /\ Boot \notin Chars /\ None # Boot
BY DEF None, Boot, Chars

LEMMA FlagsAreBoolean ==
    ASSUME TypeOK, Next PROVE (Flags \subseteq BOOLEAN)'
<1>1. TRUE \in BOOLEAN /\ FALSE \in BOOLEAN
  OBVIOUS
<1>2. {Rx, RXNE, TXEIE, RXNEIE, overlapped, stale} \subseteq BOOLEAN
  BY DEF TypeOK, Flags
<1>3. CASE Shift \/ CharComesIn
  BY <1>2, <1>3, Zenon DEF Shift, CharComesIn, Flags
<1>4. CASE USART1_IRQHandler
  BY <1>2, <1>4, Zenon DEF USART1_IRQHandler, IrqReceive, IrqTransmit, Flags
<1>5. CASE \E t \in Printers : SER_PutChar(t)
  BY <1>2, <1>5 DEF SER_PutChar, Wait, Write, Load, Store, Return, UsartUnchanged, TypeOK, Flags
<1> QED BY <1>3, <1>4, <1>5 DEF Next

\* The character of a task that enables it is neither the one of boot nor none.
LEMMA EnabledIsChar ==
    ASSUME IInv, NEW t \in Printers, pc[t] \in {"load", "store", "spin"}
    PROVE  /\ [from |-> t, number |-> number[t]] \in Chars
           /\ [from |-> t, number |-> number[t]] \notin {None, Boot}
<1>1. number[t] \in 1 .. LineLength
  BY PrinterAssumption DEF IInv, TypeOK, CharsLeft
<1> QED BY <1>1, NoneIsNoChar DEF Chars

LEMMA InitInv == Init => IInv
<1> SUFFICES ASSUME Init PROVE IInv
  OBVIOUS
<1>1. Flags \subseteq BOOLEAN
  BY Zenon DEF Init, Flags
<1>2. TypeOK
  BY <1>1, PrinterAssumption DEF Init, TypeOK
<1>3. CharsLeft /\ OneAtATime /\ SentWhenReturned /\ ReceiveStaysOff
  BY PrinterAssumption, NoneIsNoChar
     DEF Init, CharsLeft, OneAtATime, TxIsLatest, EnabledHasChar, WriterFindsNone, EnablerAlone,
         SpinnerServed, SentWhenReturned, ReceiveStaysOff
<1> QED BY <1>2, <1>3 DEF IInv

\* The steps of the USART leave all that the tasks rely on alone.
LEMMA UsartInv == ASSUME IInv, Shift \/ CharComesIn PROVE IInv'
<1> USE DEF IInv
<1>b. (Flags \subseteq BOOLEAN)'
  BY FlagsAreBoolean DEF Next
<1>1. TypeOK'
  BY <1>b DEF Shift, CharComesIn, taskVars, TypeOK
<1>2. (CharsLeft /\ OneAtATime /\ SentWhenReturned /\ ReceiveStaysOff)'
  BY DEF Shift, CharComesIn, taskVars, CharsLeft, OneAtATime, TxIsLatest, EnabledHasChar,
         WriterFindsNone, EnablerAlone, SpinnerServed, SentWhenReturned, ReceiveStaysOff
<1> QED BY <1>1, <1>2

LEMMA IrqInv == ASSUME IInv, USART1_IRQHandler PROVE IInv'
<1> USE DEF IInv
<1>b. (Flags \subseteq BOOLEAN)'
  BY FlagsAreBoolean DEF Next
<1>0. UNCHANGED <<pc, number, CR1, overlapped>>
  BY DEF USART1_IRQHandler, taskVars
<1>1. ReceiveStaysOff'
  BY <1>0 DEF USART1_IRQHandler, IrqReceive, ReceivePending, ReceiveStaysOff, TypeOK
<1>2. CASE TransmitPending /\ Tx # None
  <2>1. DR' = Tx /\ TXEIE' = FALSE /\ Tx' = None
    BY <1>2 DEF USART1_IRQHandler, IrqTransmit
  <2>2. CASE Tx = Boot
    <3>1. sent' = sent
      BY <1>2, <2>2 DEF USART1_IRQHandler, IrqTransmit
    <3>2. TypeOK' /\ CharsLeft'
      BY <1>b, <1>0, <2>1, <3>1 DEF USART1_IRQHandler, IrqReceive, TypeOK, CharsLeft
    <3>3. SentWhenReturned'
      BY <1>0, <3>1 DEF SentWhenReturned
    <3>4. OneAtATime'
      BY <1>0, <2>1, <2>2, <3>1, <1>2, NoneIsNoChar, EnabledIsChar
         DEF OneAtATime, TxIsLatest, EnabledHasChar, WriterFindsNone, EnablerAlone, SpinnerServed,
             TransmitPending
    <3> QED BY <1>1, <3>2, <3>3, <3>4
  <2>3. CASE Tx \in Chars
    <3>1. PICK t \in Printers, n \in 1 .. LineLength : Tx = [from |-> t, number |-> n]
      BY <2>3 DEF Chars
    <3>2. sent' = [sent EXCEPT ![t] = n]
      BY <1>2, <2>3, <3>1, NoneIsNoChar DEF USART1_IRQHandler, IrqTransmit
    <3>3. TypeOK' /\ CharsLeft'
      BY <1>b, <1>0, <2>1, <3>2, PrinterAssumption DEF USART1_IRQHandler, IrqReceive, TypeOK, CharsLeft
    <3>4. overlapped \/ n = number[t]
      BY <2>3, <3>1 DEF OneAtATime, TxIsLatest
    <3>5. SentWhenReturned'
      BY <1>0, <3>2, <3>4 DEF SentWhenReturned, TypeOK
    <3>6. ASSUME ~overlapped
          PROVE  (TxIsLatest /\ EnabledHasChar /\ WriterFindsNone /\ EnablerAlone)'
      BY <1>0, <1>2, <2>1, <3>6, NoneIsNoChar
         DEF OneAtATime, TxIsLatest, EnabledHasChar, WriterFindsNone, EnablerAlone, TransmitPending
    <3>7. ASSUME ~overlapped PROVE SpinnerServed'
      <4> SUFFICES ASSUME NEW u \in Printers, pc[u] = "spin" PROVE sent'[u] = number[u]
        BY <1>0 DEF SpinnerServed
      <4>1. CASE u = t
        BY <3>2, <3>4, <3>7, <4>1 DEF TypeOK
      <4>2. CASE u # t
        <5>1. Tx # [from |-> u, number |-> number[u]]
          BY <3>1, <4>2
        <5>2. sent[u] = number[u]
          BY <3>7, <5>1 DEF OneAtATime, SpinnerServed
        <5> QED BY <3>2, <4>2, <5>2 DEF TypeOK
      <4> QED BY <4>1, <4>2
    <3> QED BY <1>0, <1>1, <3>3, <3>5, <3>6, <3>7 DEF OneAtATime
  <2> QED BY <1>2, <2>2, <2>3 DEF TypeOK
<1>3. CASE ~(TransmitPending /\ Tx # None)
  <2>1. UNCHANGED <<DR, TXEIE, Tx, sent>>
    BY <1>3 DEF USART1_IRQHandler, IrqTransmit
  <2>2. TypeOK' /\ CharsLeft' /\ SentWhenReturned'
    BY <1>b, <1>0, <2>1 DEF USART1_IRQHandler, IrqReceive, TypeOK, CharsLeft, SentWhenReturned
  <2>3. OneAtATime'
    BY <1>0, <2>1
       DEF OneAtATime, TxIsLatest, EnabledHasChar, WriterFindsNone, EnablerAlone, SpinnerServed
  <2> QED BY <1>1, <2>2, <2>3
<1> QED BY <1>2, <1>3

LEMMA PrinterInv == ASSUME IInv, NEW t \in Printers, SER_PutChar(t) PROVE IInv'
<1> USE DEF IInv, Runs, Goto, UsartUnchanged
<1>b. (Flags \subseteq BOOLEAN)'
  BY FlagsAreBoolean DEF Next
<1>1. CASE Wait(t)
  <2>1. TypeOK' /\ CharsLeft' /\ SentWhenReturned' /\ ReceiveStaysOff'
    BY <1>b, <1>1 DEF Wait, TypeOK, CharsLeft, SentWhenReturned, ReceiveStaysOff
  <2>2. OneAtATime'
    BY <1>1, NoneIsNoChar, EnabledIsChar
       DEF Wait, TypeOK, OneAtATime, TxIsLatest, EnabledHasChar, WriterFindsNone, EnablerAlone,
           SpinnerServed
  <2> QED BY <2>1, <2>2
<1>2. CASE Write(t)
  <2>0. /\ pc[t] = "write" /\ number[t] < LineLength /\ number[t] + 1 \in 1 .. LineLength
        /\ number' = [number EXCEPT ![t] = number[t] + 1]
        /\ Tx' = [from |-> t, number |-> number[t] + 1] /\ Tx' \in Chars
        /\ pc' = [pc EXCEPT ![t] = "load"]
    BY <1>2, PrinterAssumption DEF Write, TypeOK, CharsLeft, Chars
  <2>1. TypeOK'
    BY <1>b, <1>2, <2>0, PrinterAssumption DEF Write, TypeOK
  <2>2. CharsLeft'
    BY <2>0, PrinterAssumption DEF TypeOK, CharsLeft
  <2>3. SentWhenReturned'
    BY <1>2, <2>0 DEF Write, TypeOK, SentWhenReturned
  <2>4. ReceiveStaysOff'
    BY <1>2, <2>0 DEF Write, TypeOK, ReceiveStaysOff
  <2>5. ASSUME ~overlapped'
        PROVE  (TxIsLatest /\ EnabledHasChar /\ WriterFindsNone /\ EnablerAlone /\ SpinnerServed)'
    <3>1. ~overlapped /\ \A u \in Printers \ {t} : pc[u] \notin {"write", "load", "store"}
      BY <1>2, <2>5 DEF Write
    <3>2. Tx = None /\ ~TXEIE /\ TXEIE' = TXEIE /\ sent' = sent
      BY <1>2, <2>0, <3>1 DEF Write, OneAtATime, WriterFindsNone, EnabledHasChar
    <3>3. \A u \in Printers : pc[u] = "spin" => sent[u] = number[u]
      BY <3>1, <3>2, EnabledIsChar DEF OneAtATime, SpinnerServed
    <3>4. TxIsLatest' /\ EnabledHasChar' /\ WriterFindsNone' /\ EnablerAlone'
      BY <2>0, <3>1, <3>2
         DEF TypeOK, TxIsLatest, EnabledHasChar, WriterFindsNone, EnablerAlone
    <3>5. SpinnerServed'
      BY <2>0, <3>1, <3>2, <3>3 DEF TypeOK, OneAtATime, SpinnerServed
    <3> QED BY <3>4, <3>5
  <2> QED BY <2>1, <2>2, <2>3, <2>4, <2>5 DEF OneAtATime
<1>3. CASE Load(t)
  <2>1. TypeOK'
    BY <1>b, <1>3, Zenon DEF Load, TypeOK, Flags
  <2>2. CharsLeft' /\ SentWhenReturned'
    BY <1>3 DEF Load, TypeOK, CharsLeft, SentWhenReturned
  <2>3. ReceiveStaysOff'
    BY <1>3 DEF Load, TypeOK, ReceiveStaysOff
  <2>4. OneAtATime'
    BY <1>3
       DEF Load, TypeOK, OneAtATime, TxIsLatest, EnabledHasChar, WriterFindsNone, EnablerAlone,
           SpinnerServed
  <2> QED BY <2>1, <2>2, <2>3, <2>4
<1>4. CASE Store(t)
  <2>1. TypeOK' /\ CharsLeft' /\ SentWhenReturned' /\ ReceiveStaysOff'
    BY <1>b, <1>4 DEF Store, TypeOK, CharsLeft, SentWhenReturned, ReceiveStaysOff
  <2>2. OneAtATime'
    BY <1>4, EnabledIsChar
       DEF Store, TypeOK, OneAtATime, TxIsLatest, EnabledHasChar, WriterFindsNone, EnablerAlone,
           SpinnerServed
  <2> QED BY <2>1, <2>2
<1>5. CASE Return(t)
  <2>0. /\ pc[t] = "spin" /\ Tx = None /\ UNCHANGED <<Tx, TXEIE, RXNEIE, number, CR1, overlapped>>
        /\ UNCHANGED <<Rx, DR, RXNE, sent, stale>>
        /\ pc' = [pc EXCEPT ![t] = IF number[t] < LineLength THEN "wait" ELSE "done"]
    BY <1>5 DEF Return
  <2>1. overlapped \/ sent[t] = number[t]
    BY <2>0, EnabledIsChar DEF OneAtATime, SpinnerServed
  <2>2. TypeOK' /\ CharsLeft' /\ SentWhenReturned' /\ ReceiveStaysOff'
    BY <1>b, <2>0, <2>1 DEF TypeOK, CharsLeft, SentWhenReturned, ReceiveStaysOff
  <2>3. OneAtATime'
    BY <2>0
       DEF TypeOK, OneAtATime, TxIsLatest, EnabledHasChar, WriterFindsNone, EnablerAlone,
           SpinnerServed
  <2> QED BY <2>2, <2>3
<1> QED BY <1>1, <1>2, <1>3, <1>4, <1>5 DEF SER_PutChar

THEOREM Inductive == Spec => []IInv
<1>1. IInv /\ UNCHANGED vars => IInv'
  BY DEF vars, IInv, TypeOK, Flags, CharsLeft, OneAtATime, TxIsLatest, EnabledHasChar, WriterFindsNone,
         EnablerAlone, SpinnerServed, SentWhenReturned, ReceiveStaysOff
<1>2. IInv /\ [Next]_vars => IInv'
  BY <1>1, UsartInv, IrqInv, PrinterInv DEF Next
<1> QED BY InitInv, <1>2, PTL DEF Spec

\* Every variable of the debug output keeps its type; no task prints more than its line.
THEOREM TypeCorrect == Spec => []TypeOK
BY Inductive, PTL DEF IInv

\* Unless two tasks overlap, SER_PutChar returns only when its character has been sent.
THEOREM CharSent == Spec => []SentWhenReturned
BY Inductive, PTL DEF IInv

\* The interrupt is entered for ever only after one of the two races.
THEOREM StormNeedsRace == Spec => []StormOnlyAfterRace
<1>1. IInv => StormOnlyAfterRace
  BY DEF IInv, OneAtATime, EnabledHasChar, ReceiveStaysOff, StormOnlyAfterRace, Storm,
         TransmitPending, ReceivePending
<1> QED BY <1>1, Inductive, PTL
===============================================================================

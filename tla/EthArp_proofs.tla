----------------------------- MODULE EthArp_proofs -----------------------------
(***************************************************************************)
(* The safety properties of the ARP table, for tables, queues and pools of *)
(* any size, any limits of the ages and any number of hosts.               *)
(***************************************************************************)
EXTENDS EthArp, SequenceTheorems, TLAPS

NoDup(q) == \A k, l \in 1 .. Len(q) : q[k] = q[l] => k = l

-------------------------------------------------------------------------------
(***************************************************************************)
(* Queues.                                                                 *)
(***************************************************************************)
LEMMA EmptyQueue == Elements(<<>>) = {} /\ NoDup(<<>>) /\ <<>> \in Seq(Elems)
BY DEF Elements, NoDup

LEMMA QueueElements == ASSUME NEW q \in Seq(Elems) PROVE Elements(q) \subseteq Elems
BY ElementOfSeq DEF Elements

LEMMA AppendElements ==
    ASSUME NEW q \in Seq(Elems), NEW e \in Elems
    PROVE  /\ Append(q, e) \in Seq(Elems) /\ Len(Append(q, e)) = Len(q) + 1
           /\ Elements(Append(q, e)) = Elements(q) \cup {e}
           /\ NoDup(q) /\ e \notin Elements(q) => NoDup(Append(q, e))
<1>1. /\ Append(q, e) \in Seq(Elems) /\ Len(Append(q, e)) = Len(q) + 1
      /\ \A k \in 1 .. Len(q) : Append(q, e)[k] = q[k]
      /\ Append(q, e)[Len(q) + 1] = e
  BY AppendProperties
<1>2. Len(q) \in Nat
  BY LenProperties
<1>3. \A k \in 1 .. Len(Append(q, e)) : k \in 1 .. Len(q) \/ k = Len(q) + 1
  BY <1>1, <1>2
<1>4. Elements(Append(q, e)) = Elements(q) \cup {e}
  BY <1>1, <1>2, <1>3 DEF Elements
<1>5. ASSUME NoDup(q), e \notin Elements(q) PROVE NoDup(Append(q, e))
  BY <1>1, <1>2, <1>3, <1>5 DEF NoDup, Elements
<1> QED BY <1>1, <1>4, <1>5

LEMMA TailElements ==
    ASSUME NEW q \in Seq(Elems), q # <<>>, NoDup(q)
    PROVE  /\ Tail(q) \in Seq(Elems) /\ Len(Tail(q)) = Len(q) - 1
           /\ Head(q) \in Elements(q) /\ Head(q) \in Elems
           /\ Elements(Tail(q)) = Elements(q) \ {Head(q)}
           /\ NoDup(Tail(q))
<1>1. /\ Tail(q) \in Seq(Elems) /\ Len(Tail(q)) = Len(q) - 1 /\ Head(q) = q[1]
      /\ \A k \in 1 .. Len(Tail(q)) : Tail(q)[k] = q[k + 1]
  BY HeadTailProperties
<1>2. Len(q) \in Nat /\ Len(q) > 0 /\ 1 \in 1 .. Len(q)
  BY LenProperties, EmptySeq
<1>3. Head(q) \in Elements(q) /\ Head(q) \in Elems
  BY <1>1, <1>2, QueueElements DEF Elements
<1>4. \A k \in 1 .. Len(Tail(q)) : k + 1 \in 1 .. Len(q) /\ k + 1 # 1
  BY <1>1, <1>2
<1>5. \A k \in 1 .. Len(q) : k # 1 => k - 1 \in 1 .. Len(Tail(q)) /\ Tail(q)[k - 1] = q[k]
  <2> TAKE k \in 1 .. Len(q)
  <2> HAVE k # 1
  <2>1. k - 1 \in 1 .. Len(Tail(q)) /\ (k - 1) + 1 = k
    BY <1>1, <1>2
  <2> QED BY <1>1, <2>1
<1>6. Elements(Tail(q)) = Elements(q) \ {Head(q)}
  <2>1. ASSUME NEW x \in Elements(Tail(q)) PROVE x \in Elements(q) /\ x # Head(q)
    BY <1>1, <1>2, <1>4 DEF Elements, NoDup
  <2>2. ASSUME NEW x \in Elements(q), x # Head(q) PROVE x \in Elements(Tail(q))
    BY <2>2, <1>1, <1>5 DEF Elements
  <2> QED BY <2>1, <2>2
<1>7. NoDup(Tail(q))
  <2> SUFFICES ASSUME NEW k \in 1 .. Len(Tail(q)), NEW l \in 1 .. Len(Tail(q)),
                      Tail(q)[k] = Tail(q)[l]
               PROVE  k = l
    BY DEF NoDup
  <2>1. q[k + 1] = q[l + 1] /\ k + 1 \in 1 .. Len(q) /\ l + 1 \in 1 .. Len(q)
    BY <1>1, <1>4
  <2>2. k + 1 = l + 1
    BY <2>1 DEF NoDup
  <2> QED BY <2>2, <1>1, <1>2
<1> QED BY <1>1, <1>3, <1>6, <1>7

\* The queue with a new packet is the old one, without its head if it was full.
LEMMA AppendedElements ==
    ASSUME NEW q \in Seq(Elems), NEW e \in Elems, NoDup(q), e \notin Elements(q),
           Len(q) <= QueueLen
    PROVE  /\ Appended(q, e) \in Seq(Elems) /\ Len(Appended(q, e)) <= QueueLen
           /\ Elements(Appended(q, e)) \subseteq Elements(q) \cup {e}
           /\ e \in Elements(Appended(q, e))
           /\ NoDup(Appended(q, e))
<1>1. Len(q) \in Nat /\ QueueLen \in Nat /\ QueueLen > 0
  BY LenProperties, PoolAssumption
<1>2. CASE Len(q) >= QueueLen
  <2>1. q # <<>> /\ Appended(q, e) = Append(Tail(q), e)
    BY <1>1, <1>2, EmptySeq DEF Appended
  <2>2. /\ Tail(q) \in Seq(Elems) /\ Len(Tail(q)) = Len(q) - 1 /\ NoDup(Tail(q))
        /\ Elements(Tail(q)) \subseteq Elements(q)
    BY <2>1, TailElements
  <2>3. e \notin Elements(Tail(q))
    BY <2>2
  <2>4. /\ Append(Tail(q), e) \in Seq(Elems) /\ Len(Append(Tail(q), e)) = Len(Tail(q)) + 1
        /\ Elements(Append(Tail(q), e)) = Elements(Tail(q)) \cup {e}
        /\ NoDup(Append(Tail(q), e))
    BY <2>2, <2>3, AppendElements
  <2>5. Len(Append(Tail(q), e)) <= QueueLen
    BY <1>1, <2>2, <2>4
  <2> QED BY <2>1, <2>2, <2>4, <2>5
<1>3. CASE ~(Len(q) >= QueueLen)
  <2>1. Appended(q, e) = Append(q, e)
    BY <1>3 DEF Appended
  <2>2. /\ Append(q, e) \in Seq(Elems) /\ Len(Append(q, e)) = Len(q) + 1
        /\ Elements(Append(q, e)) = Elements(q) \cup {e}
        /\ NoDup(Append(q, e))
    BY AppendElements
  <2>3. Len(Append(q, e)) <= QueueLen
    BY <1>1, <1>3, <2>2
  <2> QED BY <2>1, <2>2, <2>3
<1> QED BY <1>2, <1>3

-------------------------------------------------------------------------------
(***************************************************************************)
(* The accounts of the pool: what waits where, what is free, what packet   *)
(* an element holds and whose entry it waits on.  The lemmas are about a   *)
(* step of which only these are known.                                     *)
(***************************************************************************)
Waits == [i \in Entries |-> Waiting(i)]
Addrs == [i \in Entries |-> arp_table[i].ipaddr]

Accounts ==
    /\ \A e \in Elems : e \in pool <=> \A i \in Entries : e \notin Elements(Waits[i])
    /\ \A i, j \in Entries : i # j => Elements(Waits[i]) \cap Elements(Waits[j]) = {}
    /\ \A i \in Entries : NoDup(Waits[i])
    /\ \A i \in Entries : \A e \in Elements(Waits[i]) : packet[e] = Addrs[i]

LEMMA QueuesAreAccounts == QueuesAccounted <=> (~raced => Accounts)
BY DEF QueuesAccounted, Accounts, Waits, Addrs, NoDup

\* One entry changes: its queue becomes another one, made of elements it had and of
\* free ones.
LEMMA AccountsChange ==
    ASSUME NEW i \in Entries,
           Waits \in [Entries -> Seq(Elems)], Waits' \in [Entries -> Seq(Elems)],
           pool \in SUBSET Elems,
           Accounts,
           \A j \in Entries : j # i => Waits'[j] = Waits[j] /\ Addrs'[j] = Addrs[j],
           NoDup(Waits'[i]),
           Elements(Waits'[i]) \subseteq pool \cup Elements(Waits[i]),
           pool' = (pool \cup Elements(Waits[i])) \ Elements(Waits'[i]),
           \A e \in Elements(Waits'[i]) : packet'[e] = Addrs'[i],
           \A e \in Elems : e \notin pool' /\ e \notin Elements(Waits'[i]) => packet'[e] = packet[e]
    PROVE  Accounts'
<1>0. /\ \A j \in Entries : Elements(Waits[j]) \subseteq Elems
      /\ \A j \in Entries : Elements(Waits'[j]) \subseteq Elems
  BY QueueElements
<1>1. ASSUME NEW j \in Entries, j # i
      PROVE  /\ Elements(Waits'[j]) = Elements(Waits[j])
             /\ Elements(Waits'[j]) \cap Elements(Waits'[i]) = {}
             /\ \A e \in Elements(Waits'[j]) : packet'[e] = Addrs'[j]
  <2>1. Elements(Waits'[j]) = Elements(Waits[j])
    BY <1>1
  <2>2. Elements(Waits[j]) \cap Elements(Waits[i]) = {} /\ Elements(Waits[j]) \cap pool = {}
    BY <1>0, <1>1 DEF Accounts
  <2>3. \A e \in Elements(Waits'[j]) : e \notin pool' /\ e \notin Elements(Waits'[i])
    BY <2>1, <2>2
  <2>4. \A e \in Elements(Waits'[j]) : packet'[e] = packet[e] /\ packet[e] = Addrs[j] /\ Addrs'[j] = Addrs[j]
    BY <1>0, <1>1, <2>1, <2>3 DEF Accounts
  <2> QED BY <2>1, <2>3, <2>4
<1>2. \A e \in Elems : e \in pool' <=> \A j \in Entries : e \notin Elements(Waits'[j])
  <2> TAKE e \in Elems
  <2>1. e \in pool => \A j \in Entries : e \notin Elements(Waits[j])
    BY DEF Accounts
  <2>2. (\A j \in Entries : e \notin Elements(Waits[j])) => e \in pool
    BY DEF Accounts
  <2>3. ASSUME e \in pool', NEW j \in Entries PROVE e \notin Elements(Waits'[j])
    <3>1. CASE j = i
      BY <2>3, <3>1
    <3>2. CASE j # i
      BY <1>1, <2>1, <2>3, <3>2 DEF Accounts
    <3> QED BY <3>1, <3>2
  <2>4. ASSUME \A j \in Entries : e \notin Elements(Waits'[j]) PROVE e \in pool'
    <3>1. CASE e \in Elements(Waits[i])
      BY <2>4, <3>1
    <3>2. CASE e \notin Elements(Waits[i])
      <4>1. \A j \in Entries : e \notin Elements(Waits[j])
        BY <1>1, <2>4, <3>2
      <4> QED BY <2>2, <2>4, <4>1
    <3> QED BY <3>1, <3>2
  <2> QED BY <2>3, <2>4
<1>3. \A j, k \in Entries : j # k => Elements(Waits'[j]) \cap Elements(Waits'[k]) = {}
  <2> SUFFICES ASSUME NEW j \in Entries, NEW k \in Entries, j # k
               PROVE  Elements(Waits'[j]) \cap Elements(Waits'[k]) = {}
    OBVIOUS
  <2>1. CASE j # i /\ k # i
    BY <1>1, <2>1 DEF Accounts
  <2>2. CASE j = i \/ k = i
    BY <1>1, <2>2
  <2> QED BY <2>1, <2>2
<1>4. \A j \in Entries : NoDup(Waits'[j])
  BY DEF Accounts
<1>5. \A j \in Entries : \A e \in Elements(Waits'[j]) : packet'[e] = Addrs'[j]
  BY <1>1
<1> QED BY <1>2, <1>3, <1>4, <1>5 DEF Accounts

\* The queues of some entries are given back.
LEMMA AccountsDrop ==
    ASSUME NEW S \in SUBSET Entries,
           Waits \in [Entries -> Seq(Elems)], Waits' \in [Entries -> Seq(Elems)],
           pool \in SUBSET Elems,
           Accounts,
           \A j \in Entries \ S : Waits'[j] = Waits[j] /\ Addrs'[j] = Addrs[j],
           \A j \in S : Waits'[j] = <<>>,
           \A e \in Elems : e \in pool' <=> e \in pool \/ \E j \in S : e \in Elements(Waits[j]),
           \A e \in Elems : e \notin pool' => packet'[e] = packet[e]
    PROVE  Accounts'
<1>0. \A j \in Entries : Elements(Waits[j]) \subseteq Elems
  BY QueueElements
<1>1. \A j \in S : Elements(Waits'[j]) = {} /\ NoDup(Waits'[j])
  BY EmptyQueue
<1>2. ASSUME NEW j \in Entries \ S
      PROVE  \A e \in Elements(Waits'[j]) : e \notin pool' /\ packet'[e] = Addrs'[j]
  <2> SUFFICES ASSUME NEW e \in Elements(Waits'[j]) PROVE e \notin pool' /\ packet'[e] = Addrs'[j]
    OBVIOUS
  <2>1. e \in Elements(Waits[j]) /\ e \in Elems
    BY <1>0
  <2>2. e \notin pool /\ \A k \in S : e \notin Elements(Waits[k])
    BY <2>1 DEF Accounts
  <2>3. e \notin pool'
    BY <2>1, <2>2
  <2> QED BY <2>1, <2>3 DEF Accounts
<1>3. \A e \in Elems : e \in pool' <=> \A j \in Entries : e \notin Elements(Waits'[j])
  <2> TAKE e \in Elems
  <2>1. ASSUME e \in pool', NEW j \in Entries PROVE e \notin Elements(Waits'[j])
    BY <1>1, <1>2, <2>1
  <2>2. ASSUME \A j \in Entries : e \notin Elements(Waits'[j]) PROVE e \in pool'
    <3>1. CASE \E j \in S : e \in Elements(Waits[j])
      BY <3>1
    <3>2. CASE ~\E j \in S : e \in Elements(Waits[j])
      <4>1. \A j \in Entries : e \notin Elements(Waits[j])
        BY <2>2, <3>2
      <4> QED BY <4>1 DEF Accounts
    <3> QED BY <3>1, <3>2
  <2> QED BY <2>1, <2>2
<1>4. \A j, k \in Entries : j # k => Elements(Waits'[j]) \cap Elements(Waits'[k]) = {}
  <2> SUFFICES ASSUME NEW j \in Entries, NEW k \in Entries, j # k
               PROVE  Elements(Waits'[j]) \cap Elements(Waits'[k]) = {}
    OBVIOUS
  <2>1. CASE j \in S \/ k \in S
    BY <1>1, <2>1
  <2>2. CASE j \notin S /\ k \notin S
    BY <2>2 DEF Accounts
  <2> QED BY <2>1, <2>2
<1>5. \A j \in Entries : NoDup(Waits'[j])
  BY <1>1 DEF Accounts
<1>6. \A j \in Entries : \A e \in Elements(Waits'[j]) : packet'[e] = Addrs'[j]
  BY <1>1, <1>2
<1> QED BY <1>3, <1>4, <1>5, <1>6 DEF Accounts

-------------------------------------------------------------------------------
(***************************************************************************)
(* The inductive invariant.  The link task empties the table only while    *)
(* the interface is down; a queue it is freeing is still on its entry, and *)
(* the entry it is about to clear has none.                                *)
(***************************************************************************)
StableKnows == \A i \in Entries :
    arp_table[i].state \in Stable => arp_table[i].ethaddr = arp_table[i].ipaddr

LinkTask ==
    /\ up => pc = "idle"
    /\ ~raced /\ pc = "free" => arp_table[entry].q # <<>>
    /\ ~raced /\ pc = "empty" => arp_table[entry].q = <<>>

IInv ==
    /\ TypeOK /\ StableKnows /\ LinkTask
    /\ OneEntryPerHost /\ OnlyPendingQueues /\ CleanedStaysClean
    /\ SentToItsHost /\ QueuesAccounted

LEMMA ExpiryFacts == MaxAge \in Nat /\ 0 \in 0 .. MaxAge - 1
BY AgeAssumption

LEMMA WaitsType == ASSUME TypeOK PROVE Waits \in [Entries -> Seq(Elems)]
BY DEF TypeOK, Waits, Waiting, ArpEntries

\* The same facts about the state after a step.
LEMMA PrimedWaits == ASSUME TypeOK' PROVE Waits' \in [Entries -> Seq(Elems)]
BY DEF TypeOK, Waits, Waiting, ArpEntries

LEMMA PrimedAccounts == QueuesAccounted' <=> (~raced' => Accounts')
BY DEF QueuesAccounted, Accounts, Waits, Addrs, NoDup

LEMMA InitInv == ASSUME Init PROVE IInv
<1>1. EmptyEntry \in ArpEntries /\ EmptyEntry.q = <<>> /\ Len(EmptyEntry.q) = 0
      /\ EmptyEntry.state = "EMPTY"
  BY EmptyQueue, ExpiryFacts, EmptySeq DEF EmptyEntry, ArpEntries
<1>2. 1 \in Entries /\ QueueLen \in Nat
  BY TableAssumption, PoolAssumption DEF Entries
<1>3. TypeOK
  <2>1. arp_table \in [Entries -> ArpEntries] /\ \A i \in Entries : Len(arp_table[i].q) <= QueueLen
    BY <1>1, <1>2 DEF Init
  <2>2. packet \in [Elems -> Hosts \cup {NoHost}] /\ pool \subseteq Elems /\ sent = {}
    BY DEF Init
  <2> QED BY <1>2, <2>1, <2>2, EmptyQueue DEF Init, TypeOK
<1>4. \A i \in Entries : arp_table[i] = EmptyEntry /\ Waiting(i) = <<>>
  BY <1>1 DEF Init, Waiting
<1>5. StableKnows /\ LinkTask /\ OneEntryPerHost /\ OnlyPendingQueues
      /\ CleanedStaysClean /\ SentToItsHost
  BY <1>1, <1>4 DEF Init, StableKnows, LinkTask, OneEntryPerHost, OnlyPendingQueues,
     CleanedStaysClean, SentToItsHost, Stable
<1>6. QueuesAccounted
  <2>1. pool = Elems /\ \A i \in Entries : Waits[i] = <<>>
    BY <1>4 DEF Waits, Init
  <2> QED BY <2>1, EmptyQueue, QueuesAreAccounts DEF Accounts
<1> QED BY <1>3, <1>5, <1>6 DEF IInv

-------------------------------------------------------------------------------
(***************************************************************************)
(* The tcpip thread.                                                       *)
(***************************************************************************)
\* The entry that is found, and its queue.
LEMMA Found ==
    ASSUME IInv, NEW h \in Hosts, NEW hard \in BOOLEAN, NEW i \in Entries, Finds(h, hard, i)
    PROVE  /\ Reused(h, i).q = IF i \in Match(h) THEN arp_table[i].q ELSE <<>>
           /\ \A j \in Entries : j # i => arp_table[j].state = "EMPTY" \/ arp_table[j].ipaddr # h
           /\ i \in Match(h) => arp_table[i].state # "EMPTY" /\ arp_table[i].ipaddr = h
<1>1. i \in Match(h) \/ Match(h) = {}
  BY DEF Finds
<1>2. CASE i \in Match(h)
  <2>1. Reused(h, i) = arp_table[i]
    BY <1>2 DEF Reused
  <2> QED BY <1>2, <2>1 DEF IInv, OneEntryPerHost, Match
<1>3. CASE i \notin Match(h)
  <2>1. arp_table[i].state = "EMPTY" => arp_table[i].q = <<>>
    BY DEF IInv, OnlyPendingQueues
  <2>2. Reused(h, i).q = <<>>
    BY <1>3, <2>1 DEF Reused, EmptyEntry
  <2> QED BY <1>1, <1>3, <2>2 DEF Match
<1> QED BY <1>2, <1>3

LEMMA ArpInputInv == ASSUME IInv, etharp_arp_input PROVE IInv'
<1> PICK h \in Hosts, for_us \in BOOLEAN, i \in Entries :
        Finds(h, for_us, i) /\ Update(h, i) /\ Taking({i})
  BY DEF etharp_arp_input
<1> DEFINE x == [state |-> "STABLE", ipaddr |-> h, ethaddr |-> h, ctime |-> 0, q |-> <<>>]
           f == pool \cup Elements(arp_table[i].q)
<1>1. /\ arp_table' = [arp_table EXCEPT ![i] = x]
      /\ sent' = {<<packet[e], h>> : e \in Elements(Reused(h, i).q)}
      /\ pool' = f
      /\ packet' = [e \in Elems |-> IF e \in f THEN NoHost ELSE packet[e]]
      /\ up' = up /\ pc' = pc /\ entry' = entry /\ r' = r /\ ~raced /\ cached' = cached
      /\ raced' = (raced \/ (pc = "free" /\ entry \in {i} /\ arp_table[entry].q # <<>>))
  BY DEF etharp_arp_input, Update, PoolBecomes, TcpipRuns, linkVars, Taking
<1> HIDE DEF x
<1>2. arp_table \in [Entries -> ArpEntries]
  BY DEF IInv, TypeOK
<1>3. x \in ArpEntries /\ Len(x.q) = 0 /\ x.q = <<>> /\ x.state = "STABLE" /\ x.ipaddr = h
      /\ x.ethaddr = h
  BY EmptyQueue, ExpiryFacts, EmptySeq DEF x, ArpEntries, Stable
<1>4. /\ arp_table' \in [Entries -> ArpEntries] /\ arp_table'[i] = x
      /\ \A j \in Entries : j # i => arp_table'[j] = arp_table[j]
  BY <1>1, <1>2, <1>3
<1>5. arp_table[i].q \in Seq(Elems) /\ Elements(arp_table[i].q) \subseteq Elems
  BY <1>2, QueueElements DEF ArpEntries
<1>6. Elements(Reused(h, i).q) \subseteq Elements(arp_table[i].q)
  BY Found, EmptyQueue
<1>7. TypeOK'
  <2>1. pool' \subseteq Elems /\ packet' \in [Elems -> Hosts \cup {NoHost}]
    BY <1>1, <1>5 DEF IInv, TypeOK
  <2>2. sent' \subseteq (Hosts \cup {NoHost}) \X (Hosts \cup {NoHost})
    BY <1>1, <1>5, <1>6 DEF IInv, TypeOK
  <2>3. \A j \in Entries : Len(arp_table'[j].q) <= QueueLen
    BY <1>3, <1>4, PoolAssumption DEF IInv, TypeOK
  <2>4. raced' \in BOOLEAN
    BY <1>1
  <2> QED BY <1>1, <1>4, <2>1, <2>2, <2>3, <2>4 DEF IInv, TypeOK
<1>8. StableKnows' /\ OneEntryPerHost' /\ OnlyPendingQueues'
  <2>1. StableKnows'
    BY <1>3, <1>4 DEF IInv, StableKnows
  <2>2. OneEntryPerHost'
    BY <1>3, <1>4, Found DEF IInv, OneEntryPerHost
  <2>3. OnlyPendingQueues'
    BY <1>3, <1>4 DEF IInv, OnlyPendingQueues
  <2> QED BY <2>1, <2>2, <2>3
<1>9. LinkTask' /\ CleanedStaysClean'
  <2>1. \A j \in Entries : arp_table'[j].q = arp_table[j].q \/ (j = i /\ arp_table'[j].q = <<>>)
    BY <1>3, <1>4
  <2>2. entry \in Entries
    BY DEF IInv, TypeOK
  <2>3. LinkTask'
    BY <1>1, <2>1, <2>2 DEF IInv, LinkTask
  <2>4. CleanedStaysClean'
    BY <1>1, <2>1 DEF IInv, CleanedStaysClean
  <2> QED BY <2>3, <2>4
<1>10. ASSUME ~raced' PROVE SentToItsHost' /\ QueuesAccounted'
  <2>1. ~(pc = "free" /\ entry = i)
    BY <1>1, <1>10 DEF IInv, LinkTask
  <2>2. Waits[i] = arp_table[i].q /\ Waits'[i] = <<>>
        /\ \A j \in Entries : j # i => Waits'[j] = Waits[j]
    BY <1>1, <1>3, <1>4, <2>1 DEF Waits, Waiting
  <2>3. Accounts
    BY <1>1, QueuesAreAccounts DEF IInv
  <2>4. /\ \A j \in Entries \ {i} : Waits'[j] = Waits[j] /\ Addrs'[j] = Addrs[j]
        /\ \A j \in {i} : Waits'[j] = <<>>
        /\ {i} \in SUBSET Entries
    BY <1>4, <2>2 DEF Addrs
  <2>5. \A e \in Elems : e \in pool' <=> e \in pool \/ \E j \in {i} : e \in Elements(Waits[j])
    BY <1>1, <2>2
  <2>6. \A e \in Elems : e \notin pool' => packet'[e] = packet[e]
    BY <1>1
  <2>7. Waits \in [Entries -> Seq(Elems)] /\ Waits' \in [Entries -> Seq(Elems)]
        /\ pool \in SUBSET Elems
    BY <1>1, <1>2, <1>4, EmptyQueue DEF IInv, TypeOK, Waits, Waiting, ArpEntries
  <2>8. Accounts'
    <3> DEFINE S == {i}
    <3>1. /\ \A j \in Entries \ S : Waits'[j] = Waits[j] /\ Addrs'[j] = Addrs[j]
          /\ \A j \in S : Waits'[j] = <<>>
          /\ S \in SUBSET Entries
          /\ \A e \in Elems : e \in pool' <=> e \in pool \/ \E j \in S : e \in Elements(Waits[j])
      BY <2>4, <2>5
    <3> HIDE DEF S
    <3> QED BY <2>3, <2>6, <2>7, <3>1, AccountsDrop
  <2>9. QueuesAccounted'
    BY <2>8 DEF QueuesAccounted, Accounts, Waits, Addrs, NoDup
  <2>10. \A e \in Elements(Reused(h, i).q) : packet[e] = h
    <3> TAKE e \in Elements(Reused(h, i).q)
    <3>1. i \in Match(h) /\ e \in Elements(arp_table[i].q)
      BY Found, EmptyQueue
    <3>2. arp_table[i].ipaddr = h
      BY <3>1, Found
    <3> QED BY <2>2, <2>3, <3>1, <3>2 DEF Accounts, Addrs
  <2>11. h # NoHost
    BY TableAssumption
  <2> QED BY <1>1, <2>9, <2>10, <2>11 DEF SentToItsHost
<1>11. SentToItsHost' /\ QueuesAccounted'
  BY <1>10 DEF SentToItsHost, QueuesAccounted
<1> QED BY <1>7, <1>8, <1>9, <1>11 DEF IInv

-------------------------------------------------------------------------------
LEMMA AccountsSame ==
    ASSUME Accounts, pool' = pool, packet' = packet,
           Waits \in [Entries -> Seq(Elems)],
           \A j \in Entries : Waits'[j] = Waits[j] /\ (Addrs'[j] = Addrs[j] \/ Waits[j] = <<>>)
    PROVE  Accounts'
<1>1. \A j \in Entries : Elements(Waits'[j]) = Elements(Waits[j])
  OBVIOUS
<1>2. \A j \in Entries : \A e \in Elements(Waits[j]) : Addrs'[j] = Addrs[j]
  BY EmptyQueue
<1> QED BY <1>1, <1>2 DEF Accounts

LEMMA OutputKnownInv == ASSUME IInv, NEW h \in Hosts, OutputKnown(h) PROVE IInv'
<1> PICK i \in Known(h) :
        /\ \/ UNCHANGED arp_table
           \/ /\ arp_table[i].state = "STABLE"
              /\ arp_table' = [arp_table EXCEPT ![i].state = "STABLE_REREQUESTING"]
        /\ cached' = i
        /\ sent' = {<<h, arp_table[i].ethaddr>>}
  BY DEF OutputKnown
<1>1. /\ pool' = pool /\ packet' = packet /\ raced' = raced /\ ~raced
      /\ up' = up /\ pc' = pc /\ entry' = entry /\ r' = r
  BY DEF OutputKnown, TcpipRuns, linkVars
<1>2. i \in Entries /\ arp_table[i].state \in Stable /\ arp_table[i].ipaddr = h
  BY DEF Known, Match
<1>3. arp_table \in [Entries -> ArpEntries]
  BY DEF IInv, TypeOK
<1>4. /\ arp_table' \in [Entries -> ArpEntries]
      /\ \A j \in Entries :
            /\ arp_table'[j].q = arp_table[j].q /\ arp_table'[j].ipaddr = arp_table[j].ipaddr
            /\ arp_table'[j].ethaddr = arp_table[j].ethaddr
            /\ \/ arp_table'[j].state = arp_table[j].state
               \/ arp_table[j].state \in Stable /\ arp_table'[j].state \in Stable
  <2>1. CASE UNCHANGED arp_table
    BY <1>3, <2>1
  <2>2. CASE arp_table' = [arp_table EXCEPT ![i].state = "STABLE_REREQUESTING"]
    <3> DEFINE x == [arp_table[i] EXCEPT !.state = "STABLE_REREQUESTING"]
    <3>1. arp_table[i] \in ArpEntries
      BY <1>2, <1>3
    <3>2. /\ x \in ArpEntries /\ x.state = "STABLE_REREQUESTING"
          /\ x.q = arp_table[i].q /\ x.ipaddr = arp_table[i].ipaddr
          /\ x.ethaddr = arp_table[i].ethaddr
      BY <3>1 DEF ArpEntries, Stable
    <3>3. arp_table' = [arp_table EXCEPT ![i] = x]
      BY <2>2
    <3> HIDE DEF x
    <3>4. "STABLE_REREQUESTING" \in Stable
      BY DEF Stable
    <3> QED BY <1>2, <1>3, <3>2, <3>3, <3>4
  <2> QED BY <2>1, <2>2
<1>5. arp_table[i].ethaddr = h /\ h # NoHost
  BY <1>2, TableAssumption DEF IInv, StableKnows
<1>6. TypeOK'
  BY <1>1, <1>2, <1>4, <1>5 DEF IInv, TypeOK
<1>7. StableKnows' /\ LinkTask' /\ CleanedStaysClean'
  <2>1. entry \in Entries
    BY DEF IInv, TypeOK
  <2> QED BY <1>1, <1>4, <2>1 DEF IInv, StableKnows, LinkTask, CleanedStaysClean
<1>8. OneEntryPerHost' /\ OnlyPendingQueues'
  BY <1>4 DEF IInv, OneEntryPerHost, OnlyPendingQueues, Stable
<1>9. SentToItsHost'
  BY <1>5 DEF SentToItsHost
<1>10. QueuesAccounted'
  <2>1. \A j \in Entries : Waits'[j] = Waits[j] /\ Addrs'[j] = Addrs[j]
    BY <1>1, <1>4 DEF Waits, Waiting, Addrs
  <2>2. Accounts /\ Waits \in [Entries -> Seq(Elems)]
    BY <1>1, QueuesAreAccounts, WaitsType DEF IInv
  <2>3. Accounts'
    BY <1>1, <2>1, <2>2, AccountsSame
  <2> QED BY <2>3, PrimedAccounts
<1> QED BY <1>6, <1>7, <1>8, <1>9, <1>10 DEF IInv

LEMMA TimerInv == ASSUME IInv, etharp_tmr PROVE IInv'
<1> DEFINE gone == {i \in Entries : Expires(arp_table[i])}
           freed == UNION {Elements(arp_table[i].q) : i \in gone}
<1>1. /\ arp_table' = [i \in Entries |-> Aged(arp_table[i])]
      /\ pool' = pool \cup freed
      /\ packet' = [e \in Elems |-> IF e \in pool \cup freed THEN NoHost ELSE packet[e]]
      /\ up' = up /\ pc' = pc /\ entry' = entry /\ r' = r /\ ~raced /\ cached' = cached
      /\ raced' = (raced \/ (pc = "free" /\ entry \in gone /\ arp_table[entry].q # <<>>))
      /\ sent' = {}
  BY DEF etharp_tmr, PoolBecomes, TcpipRuns, linkVars, Taking
<1>2. arp_table \in [Entries -> ArpEntries]
  BY DEF IInv, TypeOK
<1>3. EmptyEntry \in ArpEntries /\ EmptyEntry.q = <<>> /\ Len(EmptyEntry.q) = 0
      /\ EmptyEntry.state = "EMPTY"
  BY EmptyQueue, ExpiryFacts, EmptySeq DEF EmptyEntry, ArpEntries
<1>4. ASSUME NEW j \in Entries, j \in gone
      PROVE  arp_table'[j] = EmptyEntry
  BY <1>1, <1>4 DEF Aged, Expires
<1>5. ASSUME NEW j \in Entries, j \notin gone
      PROVE  /\ arp_table'[j] \in ArpEntries
             /\ arp_table'[j].q = arp_table[j].q /\ arp_table'[j].ipaddr = arp_table[j].ipaddr
             /\ arp_table'[j].ethaddr = arp_table[j].ethaddr
             /\ \/ arp_table'[j].state = arp_table[j].state
                \/ arp_table[j].state \in Stable /\ arp_table'[j].state \in Stable
  <2>1. arp_table'[j] = Aged(arp_table[j]) /\ arp_table[j] \in ArpEntries
    BY <1>1, <1>2
  <2>2. CASE arp_table[j].state = "EMPTY"
    <3>1. arp_table'[j] = arp_table[j]
      BY <2>1, <2>2 DEF Aged, Expires
    <3> QED BY <2>1, <3>1
  <2>3. CASE arp_table[j].state # "EMPTY"
    <3>1. ~Expires(arp_table[j])
      BY <1>5
    <3>2. arp_table[j].ctime + 1 \in 0 .. MaxAge - 1
      BY <2>1, <2>3, <3>1, ExpiryFacts DEF Expires, ArpEntries
    <3>3. arp_table'[j] = [arp_table[j] EXCEPT !.ctime = @ + 1,
                              !.state = IF @ = "STABLE_REREQUESTING" THEN "STABLE" ELSE @]
      BY <2>1, <2>3, <3>1 DEF Aged
    <3>4. /\ arp_table'[j].q = arp_table[j].q /\ arp_table'[j].ipaddr = arp_table[j].ipaddr
          /\ arp_table'[j].ethaddr = arp_table[j].ethaddr
          /\ arp_table'[j].state = IF arp_table[j].state = "STABLE_REREQUESTING"
                                     THEN "STABLE" ELSE arp_table[j].state
      BY <2>1, <3>3 DEF ArpEntries
    <3>5. arp_table'[j] \in ArpEntries
      BY <2>1, <3>2, <3>3 DEF ArpEntries, Stable
    <3> QED BY <3>4, <3>5 DEF Stable
  <2> QED BY <2>2, <2>3
<1>6. TypeOK'
  <2>1. \A j \in Entries : Elements(arp_table[j].q) \subseteq Elems
    BY <1>2, QueueElements DEF ArpEntries
  <2>2. pool' \subseteq Elems /\ packet' \in [Elems -> Hosts \cup {NoHost}]
    BY <1>1, <2>1 DEF IInv, TypeOK
  <2>3. arp_table' \in [Entries -> ArpEntries]
    BY <1>1, <1>3, <1>4, <1>5
  <2>4. \A j \in Entries : Len(arp_table'[j].q) <= QueueLen
    BY <1>3, <1>4, <1>5, PoolAssumption DEF IInv, TypeOK
  <2>5. raced' \in BOOLEAN
    BY <1>1
  <2> QED BY <1>1, <2>2, <2>3, <2>4, <2>5 DEF IInv, TypeOK
<1>7. StableKnows'
  BY <1>3, <1>4, <1>5 DEF IInv, StableKnows, Stable
<1>8. OneEntryPerHost'
  BY <1>3, <1>4, <1>5 DEF IInv, OneEntryPerHost, Stable
<1>9. OnlyPendingQueues'
  BY <1>3, <1>4, <1>5 DEF IInv, OnlyPendingQueues, Stable
<1>10. LinkTask' /\ CleanedStaysClean'
  <2>1. \A j \in Entries : arp_table'[j].q = arp_table[j].q \/ (j \in gone /\ arp_table'[j].q = <<>>)
    BY <1>3, <1>4, <1>5
  <2>2. entry \in Entries
    BY DEF IInv, TypeOK
  <2>3. LinkTask'
    BY <1>1, <2>1, <2>2 DEF IInv, LinkTask
  <2>4. CleanedStaysClean'
    BY <1>1, <2>1 DEF IInv, CleanedStaysClean
  <2> QED BY <2>3, <2>4
<1>11. SentToItsHost'
  BY <1>1 DEF SentToItsHost
<1>12. ASSUME ~raced' PROVE Accounts'
  <2> HIDE DEF gone, freed
  <2>0. gone \in SUBSET Entries
    BY DEF gone
  <2>1. ~(pc = "free" /\ entry \in gone)
    BY <1>1, <1>12 DEF IInv, LinkTask
  <2>2. \A j \in gone : Waits[j] = arp_table[j].q /\ Waits'[j] = <<>>
    BY <1>1, <1>3, <1>4, <2>0, <2>1 DEF Waits, Waiting
  <2>3. \A j \in Entries \ gone : Waits'[j] = Waits[j] /\ Addrs'[j] = Addrs[j]
    BY <1>1, <1>5 DEF Waits, Waiting, Addrs
  <2>4. Accounts /\ Waits \in [Entries -> Seq(Elems)]
    BY <1>1, QueuesAreAccounts, WaitsType DEF IInv
  <2>5. \A e \in Elems : e \in pool' <=> e \in pool \/ \E j \in gone : e \in Elements(Waits[j])
    BY <1>1, <2>2 DEF freed
  <2>6. \A e \in Elems : e \notin pool' => packet'[e] = packet[e]
    BY <1>1
  <2>7. pool \in SUBSET Elems /\ Waits' \in [Entries -> Seq(Elems)]
    BY <1>6, PrimedWaits DEF IInv, TypeOK
  <2>8. \A j \in gone : Waits'[j] = <<>>
    BY <2>2
  <2> QED BY <2>0, <2>3, <2>4, <2>5, <2>6, <2>7, <2>8, AccountsDrop
<1>13. QueuesAccounted'
  BY <1>12, PrimedAccounts
<1> QED BY <1>6, <1>7, <1>8, <1>9, <1>10, <1>11, <1>13 DEF IInv

LEMMA QueryInv == ASSUME IInv, NEW h \in Hosts, etharp_query(h) PROVE IInv'
<1> PICK i \in Entries : Finds(h, TRUE, i) /\ (Queue(h, i) \/ NoMemory(h, i))
                         /\ IF i \in Match(h) THEN UNCHANGED raced ELSE Taking({i})
  BY DEF etharp_query
<1> DEFINE p == Pending(h, i)
           q == Pending(h, i).q
           x == arp_table'[i]
           f == Spare(h, i)
<1>1. /\ up /\ up' = up /\ pc' = pc /\ entry' = entry /\ r' = r /\ ~raced
      /\ cached' = cached /\ sent' = {} /\ pc = "idle" /\ ~raced'
  BY DEF etharp_query, TcpipRuns, linkVars, IInv, LinkTask, Taking
<1>2. arp_table \in [Entries -> ArpEntries]
  BY DEF IInv, TypeOK
<1>3. /\ p \in ArpEntries /\ p.state = "PENDING" /\ p.ipaddr = h
      /\ q = IF i \in Match(h) THEN arp_table[i].q ELSE <<>>
  <2>1. Reused(h, i) \in ArpEntries /\ Reused(h, i).ipaddr = h
    <3>1. arp_table[i] \in ArpEntries /\ EmptyEntry \in ArpEntries
      BY <1>2, EmptyQueue, ExpiryFacts DEF EmptyEntry, ArpEntries
    <3>2. arp_table[i].q \in Seq(Elems) /\ <<>> \in Seq(Elems)
      BY <3>1, EmptyQueue DEF ArpEntries
    <3>3. CASE i \in Match(h)
      BY <3>1, <3>3 DEF Reused, Match
    <3>4. CASE i \notin Match(h)
      BY <3>1, <3>2, <3>4 DEF Reused, ArpEntries
    <3> QED BY <3>3, <3>4
  <2>2. p = [Reused(h, i) EXCEPT !.state = "PENDING"]
    BY DEF Pending
  <2>3. Reused(h, i).q = IF i \in Match(h) THEN arp_table[i].q ELSE <<>>
    BY Found
  <2> QED BY <2>1, <2>2, <2>3 DEF ArpEntries
<1>4. Accounts /\ Waits \in [Entries -> Seq(Elems)] /\ Waits[i] = arp_table[i].q
      /\ \A j \in Entries : Waits[j] = arp_table[j].q
  BY <1>1, QueuesAreAccounts, WaitsType DEF IInv, Waits, Waiting
<1>5. /\ q \in Seq(Elems) /\ NoDup(q) /\ Len(q) <= QueueLen
      /\ Elements(q) \subseteq Elements(arp_table[i].q)
      /\ Elements(arp_table[i].q) \subseteq Elems /\ Elements(arp_table[i].q) \cap pool = {}
  <2>1. /\ arp_table[i].q \in Seq(Elems) /\ Len(arp_table[i].q) <= QueueLen
        /\ Elements(arp_table[i].q) \subseteq Elems /\ NoDup(arp_table[i].q)
    BY <1>2, <1>4, QueueElements DEF IInv, TypeOK, ArpEntries, Accounts
  <2>2. Elements(arp_table[i].q) \cap pool = {}
    BY <1>4, <2>1 DEF Accounts
  <2>3. Len(<<>>) <= QueueLen
    BY EmptySeq, PoolAssumption
  <2> QED BY <1>3, <2>1, <2>2, <2>3, EmptyQueue
<1>6. f = pool \cup (Elements(arp_table[i].q) \ Elements(q)) /\ f \subseteq Elems
      /\ f \cap Elements(q) = {}
  BY <1>5 DEF Spare, Pending, IInv, TypeOK
<1> HIDE DEF p, q, f
\* Whether there was memory for it or not, the entry is pending and the elements of its
\* queue are ones it had and free ones.
<1>7. /\ arp_table' = [arp_table EXCEPT ![i] = x] /\ x \in ArpEntries
      /\ x.state = "PENDING" /\ x.ipaddr = h /\ Len(x.q) <= QueueLen /\ NoDup(x.q)
      /\ Elements(x.q) \subseteq pool \cup Elements(arp_table[i].q)
      /\ pool' = (pool \cup Elements(arp_table[i].q)) \ Elements(x.q)
      /\ packet' \in [Elems -> Hosts \cup {NoHost}]
      /\ \A e \in Elements(x.q) : packet'[e] = h
      /\ \A e \in Elems : e \notin pool' /\ e \notin Elements(x.q) => packet'[e] = packet[e]
  <2>0. \A e \in Elements(q) : packet[e] = h
    <3>1. CASE i \in Match(h)
      <4>1. q = Waits[i] /\ Addrs[i] = h
        BY <1>3, <1>4, <3>1 DEF Addrs, Match
      <4> QED BY <1>4, <4>1 DEF Accounts
    <3>2. CASE i \notin Match(h)
      BY <1>3, <3>2, EmptyQueue
    <3> QED BY <3>1, <3>2
  <2>1. CASE Queue(h, i)
    <3> PICK e \in f :
            /\ arp_table' = [arp_table EXCEPT ![i] = [p EXCEPT !.q = Appended(q, e)]]
            /\ pool' = (f \cup Elements(q)) \ Elements(Appended(q, e))
            /\ packet' = [y \in Elems |-> IF y \in pool' THEN NoHost
                                          ELSE IF y = e THEN h ELSE packet[y]]
      BY <2>1 DEF Queue, p, q, f
    <3> DEFINE q2 == Appended(q, e)
    <3>1. e \in Elems /\ e \notin Elements(q)
      BY <1>6
    <3>2. /\ q2 \in Seq(Elems) /\ Len(q2) <= QueueLen /\ NoDup(q2)
          /\ Elements(q2) \subseteq Elements(q) \cup {e}
      BY <1>5, <3>1, AppendedElements
    <3> HIDE DEF q2
    <3>3. x = [p EXCEPT !.q = q2] /\ arp_table' = [arp_table EXCEPT ![i] = x]
      BY <1>2 DEF q2
    <3>4. x \in ArpEntries /\ x.q = q2 /\ x.state = "PENDING" /\ x.ipaddr = h
      BY <1>3, <3>2, <3>3 DEF ArpEntries
    <3>5. f \cup Elements(q) = pool \cup Elements(arp_table[i].q)
      BY <1>5, <1>6
    <3>6. pool' = (pool \cup Elements(arp_table[i].q)) \ Elements(q2)
      BY <3>5 DEF q2
    <3>7. Elements(q2) \subseteq pool \cup Elements(arp_table[i].q)
      BY <3>2, <3>5
    <3>8. \A y \in Elements(q2) : y \in Elems /\ y \notin pool' /\ (y = e \/ y \in Elements(q))
      BY <1>5, <3>1, <3>2, <3>6
    <3>9. \A y \in Elements(q2) : packet'[y] = h
      BY <2>0, <3>8
    <3>10. packet' \in [Elems -> Hosts \cup {NoHost}]
      BY DEF IInv, TypeOK
    <3>11. \A y \in Elems : y \notin pool' /\ y \notin Elements(q2) => packet'[y] = packet[y]
      <4> TAKE y \in Elems
      <4> HAVE y \notin pool' /\ y \notin Elements(q2)
      <4>1. y # e
        BY <3>5, <3>6
      <4> QED BY <4>1
    <3> QED BY <3>2, <3>3, <3>4, <3>6, <3>7, <3>9, <3>10, <3>11
  <2>2. CASE NoMemory(h, i)
    <3>1. /\ arp_table' = [arp_table EXCEPT ![i] = p]
          /\ pool' = f
          /\ packet' = [e \in Elems |-> IF e \in f THEN NoHost ELSE packet[e]]
      BY <2>2 DEF NoMemory, PoolBecomes, p, f
    <3>2. x = p /\ x.q = q
      BY <1>2, <3>1 DEF p, q
    <3>3. packet' \in [Elems -> Hosts \cup {NoHost}]
      BY <3>1 DEF IInv, TypeOK
    <3>4. \A e \in Elements(q) : packet'[e] = h
      BY <1>5, <1>6, <2>0, <3>1
    <3>5. \A e \in Elems : e \notin pool' => packet'[e] = packet[e]
      BY <3>1
    <3>6. pool' = (pool \cup Elements(arp_table[i].q)) \ Elements(q)
      BY <1>5, <1>6, <3>1
    <3> QED BY <1>3, <1>5, <3>1, <3>2, <3>3, <3>4, <3>5, <3>6
  <2> QED BY <2>1, <2>2
<1> HIDE DEF x
<1>8. /\ arp_table' \in [Entries -> ArpEntries] /\ arp_table'[i] = x
      /\ \A j \in Entries : j # i => arp_table'[j] = arp_table[j]
  BY <1>2, <1>7
<1>9. TypeOK'
  <2>1. pool' \subseteq Elems
    BY <1>5, <1>7 DEF IInv, TypeOK
  <2>2. \A j \in Entries : Len(arp_table'[j].q) <= QueueLen
    BY <1>7, <1>8 DEF IInv, TypeOK
  <2>3. /\ cached' \in Entries /\ up' \in BOOLEAN /\ entry' \in Entries /\ r' \in Seq(Elems)
        /\ pc' \in {"idle", "test", "queue", "free", "empty"}
    BY <1>1 DEF IInv, TypeOK
  <2>4. raced' \in BOOLEAN
    BY DEF Taking, IInv, TypeOK
  <2>5. sent' \subseteq (Hosts \cup {NoHost}) \X (Hosts \cup {NoHost})
    BY <1>1
  <2> QED BY <1>7, <1>8, <2>1, <2>2, <2>3, <2>4, <2>5 DEF TypeOK
<1>10. StableKnows' /\ OnlyPendingQueues'
  BY <1>7, <1>8 DEF IInv, StableKnows, OnlyPendingQueues, Stable
<1>11. OneEntryPerHost'
  <2>1. \A j \in Entries : j # i => arp_table[j].state = "EMPTY" \/ arp_table[j].ipaddr # h
    BY Found
  <2>2. \A j \in Entries : j # i => arp_table'[j].state = "EMPTY" \/ arp_table'[j].ipaddr # h
    BY <1>8, <2>1
  <2> QED BY <1>7, <1>8, <2>2 DEF IInv, OneEntryPerHost
<1>12. LinkTask' /\ CleanedStaysClean' /\ SentToItsHost'
  BY <1>1 DEF LinkTask, CleanedStaysClean, SentToItsHost
<1>13. QueuesAccounted'
  <2>1. Waits' \in [Entries -> Seq(Elems)] /\ pool \in SUBSET Elems
    BY <1>9, PrimedWaits DEF IInv, TypeOK
  <2>2. Waits'[i] = x.q /\ Addrs'[i] = h
    BY <1>1, <1>7, <1>8 DEF Waits, Waiting, Addrs
  <2>3. \A j \in Entries : j # i => Waits'[j] = Waits[j] /\ Addrs'[j] = Addrs[j]
    BY <1>1, <1>4, <1>8 DEF Waits, Waiting, Addrs
  <2>4. Accounts'
    BY <1>4, <1>7, <2>1, <2>2, <2>3, AccountsChange
  <2> QED BY <2>4, PrimedAccounts
<1> QED BY <1>9, <1>10, <1>11, <1>12, <1>13 DEF IInv

-------------------------------------------------------------------------------
(***************************************************************************)
(* The link task.                                                          *)
(***************************************************************************)
\* A step that changes neither the table nor the pool, nor what waits.
LEMMA LinkStepInv ==
    ASSUME IInv, LinkRuns, UNCHANGED <<arp_table, pool, packet>>,
           up' \in BOOLEAN, pc' \in {"idle", "test", "queue", "free", "empty"},
           entry' \in Entries, r' \in Seq(Elems), LinkTask', CleanedStaysClean',
           \A j \in Entries : Waits'[j] = Waits[j]
    PROVE  IInv'
<1>1. ~raced /\ ~raced' /\ sent' = {} /\ cached' = cached
  BY DEF LinkRuns
<1>2. TypeOK'
  <2>1. sent' \subseteq (Hosts \cup {NoHost}) \X (Hosts \cup {NoHost}) /\ raced' \in BOOLEAN
    BY <1>1 DEF LinkRuns, IInv, TypeOK
  <2> QED BY <1>1, <2>1 DEF IInv, TypeOK
<1>3. StableKnows' /\ OneEntryPerHost' /\ OnlyPendingQueues' /\ SentToItsHost'
  BY <1>1 DEF IInv, StableKnows, OneEntryPerHost, OnlyPendingQueues, SentToItsHost
<1>4. QueuesAccounted'
  <2>1. \A j \in Entries : Waits'[j] = Waits[j] /\ Addrs'[j] = Addrs[j]
    BY DEF Addrs
  <2>2. Accounts /\ Waits \in [Entries -> Seq(Elems)]
    BY <1>1, QueuesAreAccounts, WaitsType DEF IInv
  <2>3. Accounts'
    BY <2>1, <2>2, AccountsSame
  <2> QED BY <2>3, PrimedAccounts
<1> QED BY <1>2, <1>3, <1>4 DEF IInv

\* The next entry is a later one, or the table has been gone through.
LEMMA NextEntryFacts ==
    ASSUME TypeOK, NextEntry
    PROVE  /\ entry' \in Entries /\ pc' \in {"idle", "test"}
           /\ \A j \in Entries : (IF pc' = "idle" THEN TRUE ELSE j < entry') => j <= entry
BY TableAssumption DEF NextEntry, TypeOK, Entries

LEMMA SetDownInv == ASSUME IInv, SetDown PROVE IInv'
<1>1. 1 \in Entries /\ \A j \in Entries : ~(j < 1)
  BY TableAssumption DEF Entries
<1>2. LinkTask' /\ CleanedStaysClean'
  BY <1>1 DEF SetDown, LinkTask, CleanedStaysClean
<1>3. \A j \in Entries : Waits'[j] = Waits[j]
  BY DEF SetDown, Waits, Waiting
<1> QED BY <1>1, <1>2, <1>3, LinkStepInv DEF SetDown, IInv, TypeOK

LEMMA SetUpInv == ASSUME IInv, SetUp PROVE IInv'
<1>1. LinkTask' /\ CleanedStaysClean'
  BY DEF SetUp, LinkTask, CleanedStaysClean, IInv
<1>2. \A j \in Entries : Waits'[j] = Waits[j]
  BY DEF SetUp, Waits, Waiting
<1> QED BY <1>1, <1>2, LinkStepInv DEF SetUp, IInv, TypeOK

LEMMA CleanupTestInv == ASSUME IInv, CleanupTest PROVE IInv'
<1>1. ~up /\ up' = up /\ entry \in Entries /\ r' = r /\ pc = "test" /\ ~raced
  BY DEF IInv, TypeOK, LinkTask, CleanupTest, LinkRuns
<1>2. pc' \in {"idle", "test", "queue"} /\ entry' \in Entries
  BY <1>1, NextEntryFacts DEF CleanupTest, IInv
<1>3. LinkTask'
  BY <1>1, <1>2 DEF LinkTask
<1>4. CleanedStaysClean'
  <2>1. arp_table' = arp_table
    BY DEF CleanupTest
  <2>2. CASE arp_table[entry].state = "EMPTY"
    <3>1. arp_table[entry].q = <<>>
      BY <1>1, <2>2 DEF IInv, OnlyPendingQueues
    <3>2. \A j \in Entries : (IF pc' = "idle" THEN TRUE ELSE j < entry') => j <= entry
      BY <2>2, NextEntryFacts DEF CleanupTest, IInv
    <3>3. \A j \in Entries : j <= entry => arp_table[j].q = <<>>
      BY <1>1, <3>1 DEF IInv, CleanedStaysClean, Entries
    <3> QED BY <2>1, <3>2, <3>3 DEF CleanedStaysClean
  <2>3. CASE arp_table[entry].state # "EMPTY"
    BY <1>1, <2>1, <2>3 DEF CleanupTest, IInv, CleanedStaysClean
  <2> QED BY <2>2, <2>3
<1>5. \A j \in Entries : Waits'[j] = Waits[j]
  BY <1>1, <1>2 DEF CleanupTest, Waits, Waiting
<1>6. r' \in Seq(Elems) /\ up' \in BOOLEAN
  BY <1>1 DEF IInv, TypeOK
<1> QED BY <1>2, <1>3, <1>4, <1>5, <1>6, LinkStepInv DEF CleanupTest

LEMMA CleanupQueueInv == ASSUME IInv, CleanupQueue PROVE IInv'
<1>1. /\ ~up /\ up' = up /\ entry' = entry /\ entry \in Entries /\ r' = arp_table[entry].q
      /\ pc' = IF r' = <<>> THEN "empty" ELSE "free"
      /\ arp_table' = arp_table /\ pc = "queue" /\ ~raced
  BY DEF IInv, TypeOK, LinkTask, CleanupQueue, LinkRuns
<1>2. r' \in Seq(Elems)
  BY <1>1 DEF IInv, TypeOK, ArpEntries
<1>3. LinkTask' /\ CleanedStaysClean'
  BY <1>1 DEF LinkTask, IInv, CleanedStaysClean
<1>4. \A j \in Entries : Waits'[j] = Waits[j]
  BY <1>1 DEF Waits, Waiting
<1> QED BY <1>1, <1>2, <1>3, <1>4, LinkStepInv DEF CleanupQueue, IInv, TypeOK

LEMMA CleanupFreeInv == ASSUME IInv, CleanupFree PROVE IInv'
<1>1. /\ ~up /\ up' = up /\ entry' = entry /\ entry \in Entries /\ pc = "free"
      /\ ~raced /\ ~raced' /\ cached' = cached /\ sent' = {} /\ r \in Seq(Elems)
      /\ pool \in SUBSET Elems
  BY DEF IInv, TypeOK, LinkTask, CleanupFree, LinkRuns
<1>2. Accounts /\ Waits \in [Entries -> Seq(Elems)] /\ Waits[entry] = r
  BY <1>1, QueuesAreAccounts, WaitsType DEF IInv, Waits, Waiting
<1>3. CASE r # <<>>
  <2> DEFINE f == pool \cup {Head(r)}
  <2>1. /\ arp_table' = arp_table /\ pc' = pc /\ r' = Tail(r) /\ pool' = f
        /\ packet' = [e \in Elems |-> IF e \in f THEN NoHost ELSE packet[e]]
    BY <1>3 DEF CleanupFree, PoolBecomes
  <2>2. /\ Tail(r) \in Seq(Elems) /\ Head(r) \in Elements(r) /\ Head(r) \in Elems
        /\ Elements(Tail(r)) = Elements(r) \ {Head(r)} /\ NoDup(Tail(r))
    BY <1>1, <1>2, <1>3, TailElements DEF Accounts
  <2>3. Elements(r) \subseteq Elems /\ Elements(r) \cap pool = {}
    BY <1>1, <1>2, QueueElements DEF Accounts
  <2>4. packet' \in [Elems -> Hosts \cup {NoHost}]
    BY <2>1 DEF IInv, TypeOK
  <2>5. TypeOK'
    <3>1. sent' \subseteq (Hosts \cup {NoHost}) \X (Hosts \cup {NoHost}) /\ raced' \in BOOLEAN
      BY <1>1 DEF CleanupFree, LinkRuns, IInv, TypeOK
    <3>2. pool' \subseteq Elems /\ r' \in Seq(Elems)
      BY <1>1, <2>1, <2>2
    <3> QED BY <1>1, <2>1, <2>4, <3>1, <3>2 DEF IInv, TypeOK
  <2>6. /\ StableKnows' /\ LinkTask' /\ OneEntryPerHost' /\ OnlyPendingQueues'
        /\ CleanedStaysClean' /\ SentToItsHost'
    BY <1>1, <2>1 DEF IInv, StableKnows, LinkTask, OneEntryPerHost, OnlyPendingQueues,
       CleanedStaysClean, SentToItsHost
  <2>7. Waits'[entry] = Tail(r) /\ \A j \in Entries : j # entry => Waits'[j] = Waits[j]
    BY <1>1, <2>1 DEF Waits, Waiting
  <2>8. \A j \in Entries : Addrs'[j] = Addrs[j]
    BY <2>1 DEF Addrs
  <2>9. pool' = (pool \cup Elements(r)) \ Elements(Tail(r))
    BY <2>1, <2>2, <2>3
  <2>10. \A e \in Elements(Tail(r)) : packet'[e] = Addrs'[entry]
    <3> TAKE e \in Elements(Tail(r))
    <3>1. e \in Elements(r) /\ e \in Elems /\ e \notin f
      BY <2>2, <2>3
    <3>2. packet'[e] = packet[e] /\ packet[e] = Addrs[entry]
      BY <1>1, <1>2, <2>1, <3>1 DEF Accounts
    <3> QED BY <1>1, <2>8, <3>2
  <2>11. \A e \in Elems : e \notin pool' => packet'[e] = packet[e]
    BY <2>1
  <2>12. Waits' \in [Entries -> Seq(Elems)]
    BY <2>5, PrimedWaits
  <2>13. Accounts'
    BY <1>1, <1>2, <2>2, <2>7, <2>8, <2>9, <2>10, <2>11, <2>12, AccountsChange
  <2> QED BY <2>5, <2>6, <2>13, PrimedAccounts DEF IInv
<1>4. CASE r = <<>>
  <2>1. /\ arp_table' = [arp_table EXCEPT ![entry].q = <<>>] /\ pc' = "empty"
        /\ pool' = pool /\ packet' = packet /\ r' = r
    BY <1>4 DEF CleanupFree
  <2> DEFINE x == [arp_table[entry] EXCEPT !.q = <<>>]
  <2>2. arp_table \in [Entries -> ArpEntries] /\ arp_table[entry] \in ArpEntries
    BY <1>1 DEF IInv, TypeOK
  <2>3. /\ x \in ArpEntries /\ x.q = <<>> /\ x.state = arp_table[entry].state
        /\ x.ipaddr = arp_table[entry].ipaddr /\ x.ethaddr = arp_table[entry].ethaddr
    BY <2>2, EmptyQueue DEF ArpEntries
  <2>4. arp_table' = [arp_table EXCEPT ![entry] = x]
    BY <2>1
  <2> HIDE DEF x
  <2>5. /\ arp_table' \in [Entries -> ArpEntries] /\ arp_table'[entry].q = <<>>
        /\ \A j \in Entries :
              /\ arp_table'[j].state = arp_table[j].state
              /\ arp_table'[j].ipaddr = arp_table[j].ipaddr
              /\ arp_table'[j].ethaddr = arp_table[j].ethaddr
              /\ j # entry => arp_table'[j].q = arp_table[j].q
    BY <1>1, <2>2, <2>3, <2>4
  <2>6. TypeOK'
    <3>1. sent' \subseteq (Hosts \cup {NoHost}) \X (Hosts \cup {NoHost}) /\ raced' \in BOOLEAN
      BY <1>1 DEF CleanupFree, LinkRuns, IInv, TypeOK
    <3>2. \A j \in Entries : Len(arp_table'[j].q) <= QueueLen
      BY <2>5, EmptySeq, PoolAssumption DEF IInv, TypeOK
    <3> QED BY <1>1, <2>1, <2>5, <3>1, <3>2 DEF IInv, TypeOK
  <2>7. StableKnows' /\ OneEntryPerHost' /\ OnlyPendingQueues'
    BY <2>5 DEF IInv, StableKnows, OneEntryPerHost, OnlyPendingQueues
  <2>8. LinkTask' /\ CleanedStaysClean' /\ SentToItsHost'
    BY <1>1, <2>1, <2>5 DEF IInv, LinkTask, CleanedStaysClean, SentToItsHost
  <2>9. \A j \in Entries : Waits'[j] = Waits[j] /\ Addrs'[j] = Addrs[j]
    BY <1>1, <1>4, <2>1, <2>5 DEF Waits, Waiting, Addrs
  <2>10. Accounts'
    BY <1>2, <2>1, <2>9, AccountsSame
  <2> QED BY <2>6, <2>7, <2>8, <2>10, PrimedAccounts DEF IInv
<1> QED BY <1>3, <1>4

LEMMA CleanupEmptyInv == ASSUME IInv, CleanupEmpty PROVE IInv'
<1> DEFINE x == [EmptyEntry EXCEPT !.q = arp_table[entry].q]
<1>1. /\ ~up /\ up' = up /\ entry \in Entries /\ pc = "empty" /\ r' = r
      /\ ~raced /\ ~raced' /\ cached' = cached /\ sent' = {}
      /\ arp_table' = [arp_table EXCEPT ![entry] = x]
      /\ pool' = pool /\ packet' = packet /\ arp_table[entry].q = <<>>
  BY DEF IInv, TypeOK, LinkTask, CleanupEmpty, LinkRuns
<1>2. x \in ArpEntries /\ x.q = <<>> /\ x.state = "EMPTY"
  BY <1>1, EmptyQueue, ExpiryFacts DEF EmptyEntry, ArpEntries
<1> HIDE DEF x
<1>3. /\ arp_table' \in [Entries -> ArpEntries] /\ arp_table'[entry] = x
      /\ \A j \in Entries : j # entry => arp_table'[j] = arp_table[j]
      /\ \A j \in Entries : arp_table'[j].q = arp_table[j].q
  BY <1>1, <1>2 DEF IInv, TypeOK
<1>4. /\ entry' \in Entries /\ pc' \in {"idle", "test"}
      /\ \A j \in Entries : (IF pc' = "idle" THEN TRUE ELSE j < entry') => j <= entry
  BY NextEntryFacts DEF CleanupEmpty, IInv
<1>5. TypeOK'
  <2>1. sent' \subseteq (Hosts \cup {NoHost}) \X (Hosts \cup {NoHost}) /\ raced' \in BOOLEAN
    BY <1>1 DEF CleanupEmpty, LinkRuns, IInv, TypeOK
  <2>2. \A j \in Entries : Len(arp_table'[j].q) <= QueueLen
    BY <1>3 DEF IInv, TypeOK
  <2> QED BY <1>1, <1>3, <1>4, <2>1, <2>2 DEF IInv, TypeOK
<1>6. StableKnows' /\ OneEntryPerHost' /\ OnlyPendingQueues'
  BY <1>1, <1>2, <1>3 DEF IInv, StableKnows, OneEntryPerHost, OnlyPendingQueues, Stable
<1>7. LinkTask' /\ SentToItsHost'
  BY <1>1, <1>4 DEF LinkTask, SentToItsHost
<1>8. CleanedStaysClean'
  <2>1. \A j \in Entries : j <= entry => arp_table[j].q = <<>>
    BY <1>1 DEF IInv, CleanedStaysClean, Entries
  <2> QED BY <1>3, <1>4, <2>1 DEF CleanedStaysClean
<1>9. QueuesAccounted'
  <2>1. \A j \in Entries : Waits'[j] = Waits[j] /\ (Addrs'[j] = Addrs[j] \/ Waits[j] = <<>>)
    BY <1>1, <1>3, <1>4 DEF Waits, Waiting, Addrs
  <2>2. Accounts /\ Waits \in [Entries -> Seq(Elems)]
    BY <1>1, QueuesAreAccounts, WaitsType DEF IInv
  <2>3. Accounts'
    BY <1>1, <2>1, <2>2, AccountsSame
  <2> QED BY <2>3, PrimedAccounts
<1> QED BY <1>5, <1>6, <1>7, <1>8, <1>9 DEF IInv

-------------------------------------------------------------------------------
LEMMA StutterInv == ASSUME IInv, UNCHANGED vars PROVE IInv'
<1> USE DEF vars
<1>1. TypeOK' /\ StableKnows' /\ LinkTask'
  BY DEF IInv, TypeOK, StableKnows, LinkTask
<1>2. OneEntryPerHost' /\ OnlyPendingQueues' /\ CleanedStaysClean' /\ SentToItsHost'
  BY DEF IInv, OneEntryPerHost, OnlyPendingQueues, CleanedStaysClean, SentToItsHost
<1>3. QueuesAccounted'
  <2>1. \A j \in Entries : Waiting(j)' = Waiting(j)
    BY DEF Waiting
  <2> QED BY <2>1 DEF IInv, QueuesAccounted
<1> QED BY <1>1, <1>2, <1>3 DEF IInv

LEMMA StepInv == IInv /\ [Next]_vars => IInv'
<1> SUFFICES ASSUME IInv, [Next]_vars PROVE IInv'
  OBVIOUS
<1>1. CASE Tcpip
  BY <1>1, ArpInputInv, OutputKnownInv, QueryInv, TimerInv DEF Tcpip, etharp_output
<1>2. CASE Link
  BY <1>2, SetDownInv, CleanupTestInv, CleanupQueueInv, CleanupFreeInv, CleanupEmptyInv,
     SetUpInv DEF Link
<1>3. CASE Undefined \/ UNCHANGED vars
  BY <1>3, StutterInv DEF Undefined
<1> QED BY <1>1, <1>2, <1>3 DEF Next

LEMMA InvHolds == Spec => []IInv
<1>1. Init => IInv
  BY InitInv
<1> QED BY <1>1, StepInv, PTL DEF Spec

\* Every variable holds a value of its type, and no queue is longer than ARP_QUEUE_LEN.
THEOREM TypeCorrect == Spec => []TypeOK
<1>1. IInv => TypeOK
  BY DEF IInv
<1> QED BY <1>1, InvHolds, PTL

\* Unless the link task and the tcpip thread have met on one queue, every element of
\* the pool is free or waits exactly once, and for the host of its entry.
THEOREM NothingLeaks == Spec => []QueuesAccounted
<1>1. IInv => QueuesAccounted
  BY DEF IInv
<1> QED BY <1>1, InvHolds, PTL

\* A packet leaves for the address of its own next hop only.
THEOREM RightAddress == Spec => []SentToItsHost
<1>1. IInv => SentToItsHost
  BY DEF IInv
<1> QED BY <1>1, InvHolds, PTL

\* No host ever has two entries.
THEOREM NoSecondEntry == Spec => []OneEntryPerHost
<1>1. IInv => OneEntryPerHost
  BY DEF IInv
<1> QED BY <1>1, InvHolds, PTL

\* Packets wait on pending entries only.
THEOREM StableSendsAll == Spec => []OnlyPendingQueues
<1>1. IInv => OnlyPendingQueues
  BY DEF IInv
<1> QED BY <1>1, InvHolds, PTL

\* What has been emptied when the link went down stays empty until it is up again.
THEOREM DownIsClean == Spec => []CleanedStaysClean
<1>1. IInv => CleanedStaysClean
  BY DEF IInv
<1> QED BY <1>1, InvHolds, PTL
====================

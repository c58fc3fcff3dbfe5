-------------------------------- MODULE EthArp --------------------------------
(***************************************************************************)
(* The ARP table of lwIP as this firmware configures and uses it: packets  *)
(* wait on a pending entry until the host has told its address, entries    *)
(* age, the least important one is recycled for a new host, and the link   *)
(* task empties the table when the link goes down.                         *)
(*                                                                         *)
(* etharp_output, etharp_arp_input and etharp_tmr run in the tcpip thread. *)
(* netif_set_down, and with it etharp_cleanup_netif, is called by the link *)
(* task, whose priority is lower: the tcpip thread may run between any two *)
(* of its accesses, and never the other way round, so that the handlers of *)
(* the tcpip thread are one action each.  (They wait only in linkoutput,   *)
(* for a semaphore that the link task holds when it announces the address, *)
(* which is not while it empties the table.)                               *)
(*                                                                         *)
(* If the tcpip thread takes the queue that the link task is freeing, the  *)
(* elements are freed twice.  What the pool does after that is undefined:  *)
(* the flag raced is raised and nothing more is said.                      *)
(***************************************************************************)
EXTENDS Naturals, Sequences

CONSTANTS
    Hosts, NoHost,      \* next hops on the local net
    TableSize,          \* ARP_TABLE_SIZE, 10
    PoolSize,           \* MEMP_NUM_ARP_QUEUE, 30
    QueueLen,           \* ARP_QUEUE_LEN, 3
    MaxAge,             \* ARP_MAXAGE, 1200
    RerequestAge,       \* ARP_AGE_REREQUEST_USED, 1140
    MaxPending,         \* ARP_MAXPENDING, 5
    AgeMod              \* the ages in etharp_find_entry are u8_t: 256

ASSUME TableAssumption == TableSize \in Nat \ {0} /\ NoHost \notin Hosts
ASSUME PoolAssumption  == PoolSize \in Nat \ {0} /\ QueueLen \in Nat \ {0}
ASSUME AgeAssumption   ==
    /\ MaxAge \in Nat \ {0} /\ RerequestAge \in Nat /\ MaxPending \in 1 .. MaxAge
    /\ AgeMod \in Nat \ {0}

Entries == 1 .. TableSize
Elems == 1 .. PoolSize

Stable == {"STABLE", "STABLE_REREQUESTING"}

\* An address is the host it belongs to.  The fields of an empty entry are dead.
EmptyEntry == [state |-> "EMPTY", ipaddr |-> NoHost, ethaddr |-> NoHost, ctime |-> 0, q |-> <<>>]

ArpEntries ==
    [state : {"EMPTY", "PENDING"} \cup Stable, ipaddr : Hosts \cup {NoHost},
     ethaddr : Hosts \cup {NoHost}, ctime : 0 .. MaxAge - 1, q : Seq(Elems)]

VARIABLES
    arp_table,      \* Entries -> etharp_entry
    cached,         \* etharp_cached_entry
    pool,           \* the elements of MEMP_ARP_QUEUE that are free
    packet,         \* Elems -> the host that the element's packet is for
    up,             \* NETIF_FLAG_UP
    pc, entry, r,   \* link task in etharp_cleanup_netif: next access, i, rest of the queue
    sent,           \* history: the packets sent by the last step, with their addresses
    raced           \* history: a queue has been taken while the link task was freeing it

linkVars == <<up, pc, entry, r>>
vars == <<arp_table, cached, pool, packet, up, pc, entry, r, sent, raced>>

Init ==
    /\ arp_table = [i \in Entries |-> EmptyEntry]
    /\ cached = 1
    /\ pool = Elems /\ packet = [e \in Elems |-> NoHost]
    /\ up = TRUE /\ pc = "idle" /\ entry = 1 /\ r = <<>>
    /\ sent = {} /\ raced = FALSE

Elements(s) == {s[k] : k \in 1 .. Len(s)}
Lowest(S) == CHOOSE x \in S : \A y \in S : x <= y

-------------------------------------------------------------------------------
(***************************************************************************)
(* etharp_find_entry.                                                      *)
(***************************************************************************)
InState(S) == {i \in Entries : arp_table[i].state \in S}

Match(h) == {i \in Entries : arp_table[i].state # "EMPTY" /\ arp_table[i].ipaddr = h}

\* The sweep for the oldest entry of S: the age of the candidate so far is held in
\* a u8_t, the ages it is compared with are not.
Oldest(S) ==
    LET age(i) == IF i = 0 THEN 0 ELSE arp_table[i].ctime % AgeMod
        candidate[i \in 0 .. TableSize] ==
            IF i = 0 THEN 0
            ELSE IF i \in S /\ arp_table[i].ctime >= age(candidate[i - 1])
                   THEN i ELSE candidate[i - 1]
    IN  candidate[TableSize]

\* What to recycle: an empty entry, the oldest stable one, the oldest pending one
\* on which nothing waits, the oldest pending one.
Recycled ==
    LET queued == {i \in InState({"PENDING"}) : arp_table[i].q # <<>>}
        quiet  == InState({"PENDING"}) \ queued
    IN  CASE InState({"EMPTY"}) # {} -> Lowest(InState({"EMPTY"}))
          [] InState({"EMPTY"}) = {} /\ InState(Stable) # {} -> Oldest(InState(Stable))
          [] InState({"EMPTY"}) = {} /\ InState(Stable) = {} /\ quiet # {} -> Oldest(quiet)
          [] OTHER -> Oldest(queued)

\* Slip: the first empty entry is taken before the search is over.
FindsEmptyFirst(h, hard, i) ==
    \/ i \in Match(h) /\ (\A j \in Match(h) : i <= j) /\ \A j \in InState({"EMPTY"}) : i < j
    \/ i = Recycled /\ hard /\ \A j \in Match(h) : \E k \in InState({"EMPTY"}) : k < j

\* The entry of host h; without one, and with ETHARP_FLAG_TRY_HARD, one to recycle.
Finds(h, hard, i) ==
    \/ i \in Match(h) /\ \A j \in Match(h) : i <= j
    \/ i = Recycled /\ Match(h) = {} /\ hard

\* That entry as etharp_find_entry leaves it: what waits on the entry of another host
\* is dropped with it.
Reused(h, i) ==
    IF i \in Match(h) THEN arp_table[i]
    ELSE [EmptyEntry EXCEPT !.ipaddr = h,
              !.q = IF arp_table[i].state = "EMPTY" THEN arp_table[i].q ELSE <<>>]

-------------------------------------------------------------------------------
(***************************************************************************)
(* The tcpip thread.                                                       *)
(***************************************************************************)
\* The thread takes the queues of the entries in S away.
Taking(S) ==
    raced' = (raced \/ (pc = "free" /\ entry \in S /\ arp_table[entry].q # <<>>))

\* Freed elements hold no packet.
PoolBecomes(free) ==
    /\ pool' = free
    /\ packet' = [e \in Elems |-> IF e \in free THEN NoHost ELSE packet[e]]

TcpipRuns == ~raced /\ UNCHANGED linkVars

\* Slip: only the packet at the head of the queue is sent.
UpdateOne(h, i) ==
    LET q == Reused(h, i).q
    IN  /\ arp_table' = [arp_table EXCEPT ![i] =
               [state |-> "STABLE", ipaddr |-> h, ethaddr |-> h, ctime |-> 0,
                q |-> IF q = <<>> THEN q ELSE Tail(q)]]
        /\ sent' = IF q = <<>> THEN {} ELSE {<<packet[Head(q)], h>>}
        /\ PoolBecomes(IF q = <<>> THEN pool ELSE pool \cup {Head(q)})

\* etharp_update_arp_entry: the packets that have waited for the address are sent.
Update(h, i) ==
    /\ arp_table' = [arp_table EXCEPT ![i] =
           [state |-> "STABLE", ipaddr |-> h, ethaddr |-> h, ctime |-> 0, q |-> <<>>]]
    /\ sent' = {<<packet[e], h>> : e \in Elements(Reused(h, i).q)}
    /\ PoolBecomes(pool \cup Elements(arp_table[i].q))

\* A request or a reply of host h, for us or not; it is looked at even when the
\* interface is down.  A message that finds no entry changes nothing.
etharp_arp_input ==
    /\ TcpipRuns
    /\ \E h \in Hosts, for_us \in BOOLEAN, i \in Entries :
         /\ Finds(h, for_us, i)
         /\ Update(h, i)
         /\ Taking({i})
    /\ UNCHANGED cached

\* Slip: the cached entry is used for any host.
KnownAnyHost(h) ==
    IF arp_table[cached].state \in Stable THEN {cached}
    ELSE {i \in Match(h) : arp_table[i].state \in Stable}

\* The entry that gives the address of h: the one used last, or the first one.
Known(h) ==
    LET known == {i \in Match(h) : arp_table[i].state \in Stable}
    IN  IF cached \in known THEN {cached} ELSE {i \in known : i = Lowest(known)}

\* etharp_output_to_arp_index.  An entry about to expire is asked for again, once a
\* tick; the request may find no memory.
OutputKnown(h) ==
    /\ TcpipRuns /\ up
    /\ \E i \in Known(h) :
         /\ \/ UNCHANGED arp_table
            \/ /\ arp_table[i].state = "STABLE" /\ arp_table[i].ctime >= RerequestAge
               /\ arp_table' = [arp_table EXCEPT ![i].state = "STABLE_REREQUESTING"]
         /\ cached' = i
         /\ sent' = {<<h, arp_table[i].ethaddr>>}
    /\ UNCHANGED <<pool, packet, raced>>

\* The entry after etharp_find_entry, marked pending if it is new.
Pending(h, i) == [Reused(h, i) EXCEPT !.state = "PENDING"]

\* What is free once the entry is recycled.
Spare(h, i) ==
    pool \cup (Elements(arp_table[i].q) \ Elements(Reused(h, i).q))

\* Slip: one element too many may wait.
AppendedLong(q, e) ==
    IF Len(q) > QueueLen THEN Append(Tail(q), e) ELSE Append(q, e)

\* The oldest packet is dropped for the new one when the queue is full.
Appended(q, e) ==
    IF Len(q) >= QueueLen THEN Append(Tail(q), e) ELSE Append(q, e)

\* Slip: the element of the packet that is dropped is not given back.
QueueLeaks(h, i) ==
    \E e \in Spare(h, i) :
        LET q == Pending(h, i).q
        IN  /\ e = Lowest(Spare(h, i))
            /\ arp_table' = [arp_table EXCEPT ![i] = [Pending(h, i) EXCEPT !.q = Appended(q, e)]]
            /\ pool' = Spare(h, i) \ {e}
            /\ packet' = [x \in Elems |-> IF x \in pool' THEN NoHost
                                          ELSE IF x = e THEN h ELSE packet[x]]

Queue(h, i) ==
    \E e \in Spare(h, i) :
        LET q == Pending(h, i).q
        IN  /\ e = Lowest(Spare(h, i))
            /\ arp_table' = [arp_table EXCEPT ![i] = [Pending(h, i) EXCEPT !.q = Appended(q, e)]]
            /\ pool' = (Spare(h, i) \cup Elements(q)) \ Elements(Appended(q, e))
            /\ packet' = [x \in Elems |-> IF x \in pool' THEN NoHost
                                          ELSE IF x = e THEN h ELSE packet[x]]

\* The packet cannot be copied, or the pool is empty: it is dropped.
NoMemory(h, i) ==
    /\ arp_table' = [arp_table EXCEPT ![i] = Pending(h, i)]
    /\ PoolBecomes(Spare(h, i))

\* etharp_query, for a host whose address is not known.
etharp_query(h) ==
    /\ TcpipRuns /\ up
    /\ Known(h) = {}
    /\ \E i \in Entries :
         /\ Finds(h, TRUE, i)
         /\ Queue(h, i) \/ NoMemory(h, i)
         /\ IF i \in Match(h) THEN UNCHANGED raced ELSE Taking({i})
    /\ sent' = {}
    /\ UNCHANGED cached

\* A packet whose next hop is h.  ip_route finds no interface that is down.
etharp_output(h) == OutputKnown(h) \/ etharp_query(h)

Expires(x) ==
    /\ x.state # "EMPTY"
    /\ \/ x.ctime + 1 >= MaxAge
       \/ x.state = "PENDING" /\ x.ctime + 1 >= MaxPending

\* Slip: the age of an entry is counted from its first answer.
AgedStable(x) ==
    IF x.state \notin Stable THEN x
    ELSE IF x.ctime + 1 >= MaxAge THEN EmptyEntry
    ELSE [x EXCEPT !.ctime = @ + 1, !.state = "STABLE"]

Aged(x) ==
    CASE x.state = "EMPTY" -> x
      [] Expires(x) -> EmptyEntry
      [] OTHER -> [x EXCEPT !.ctime = @ + 1,
                            !.state = IF @ = "STABLE_REREQUESTING" THEN "STABLE" ELSE @]

etharp_tmr ==
    /\ TcpipRuns
    /\ arp_table' = [i \in Entries |-> Aged(arp_table[i])]
    /\ LET gone == {i \in Entries : Expires(arp_table[i])}
       IN  /\ PoolBecomes(pool \cup UNION {Elements(arp_table[i].q) : i \in gone})
           /\ Taking(gone)
    /\ sent' = {}
    /\ UNCHANGED cached

Tcpip == etharp_arp_input \/ etharp_tmr \/ \E h \in Hosts : etharp_output(h)

-------------------------------------------------------------------------------
(***************************************************************************)
(* The link task.                                                          *)
(***************************************************************************)
LinkRuns == ~raced /\ sent' = {} /\ UNCHANGED <<cached, raced>>

\* Slip: the flag is still up while the table is emptied.
SetDownLate ==
    /\ LinkRuns /\ up /\ pc = "idle"
    /\ pc' = "test" /\ entry' = 1
    /\ UNCHANGED <<arp_table, pool, packet, up, r>>

\* netif_set_down.
SetDown ==
    /\ LinkRuns /\ up /\ pc = "idle"
    /\ up' = FALSE
    /\ pc' = "test" /\ entry' = 1
    /\ UNCHANGED <<arp_table, pool, packet, r>>

NextEntry ==
    IF entry < TableSize THEN pc' = "test" /\ entry' = entry + 1
                         ELSE pc' = "idle" /\ entry' = 1

CleanupTest ==
    /\ LinkRuns /\ pc = "test"
    /\ IF arp_table[entry].state = "EMPTY" THEN NextEntry ELSE pc' = "queue" /\ UNCHANGED entry
    /\ UNCHANGED <<arp_table, pool, packet, up, r>>

CleanupQueue ==
    /\ LinkRuns /\ pc = "queue"
    /\ r' = arp_table[entry].q
    /\ pc' = IF r' = <<>> THEN "empty" ELSE "free"
    /\ UNCHANGED <<arp_table, pool, packet, up, entry>>

\* free_etharp_q, an element at a time; then the entry forgets its queue.
CleanupFree ==
    /\ LinkRuns /\ pc = "free"
    /\ IF r # <<>>
         THEN /\ PoolBecomes(pool \cup {Head(r)}) /\ r' = Tail(r)
              /\ UNCHANGED <<arp_table, pc>>
         ELSE /\ arp_table' = [arp_table EXCEPT ![entry].q = <<>>]
              /\ pc' = "empty"
              /\ UNCHANGED <<pool, packet, r>>
    /\ UNCHANGED <<up, entry>>

CleanupEmpty ==
    /\ LinkRuns /\ pc = "empty"
    /\ arp_table' = [arp_table EXCEPT ![entry] = [EmptyEntry EXCEPT !.q = arp_table[entry].q]]
    /\ NextEntry
    /\ UNCHANGED <<pool, packet, up, r>>

\* netif_set_up, which announces the address.
SetUp ==
    /\ LinkRuns /\ ~up /\ pc = "idle"
    /\ up' = TRUE
    /\ UNCHANGED <<arp_table, pool, packet, pc, entry, r>>

Link == SetDown \/ CleanupTest \/ CleanupQueue \/ CleanupFree \/ CleanupEmpty \/ SetUp

\* An element has been, or will be, freed twice.
Undefined == raced /\ UNCHANGED vars

Next == Tcpip \/ Link \/ Undefined

Spec == Init /\ [][Next]_vars

\* The timer of the tcpip thread is served.
FairSpec == Spec /\ WF_vars(etharp_tmr)

-------------------------------------------------------------------------------
(***************************************************************************)
(* Properties.                                                             *)
(***************************************************************************)
\* Every variable holds a value of its C type, and no queue is longer than
\* ARP_QUEUE_LEN.
TypeOK ==
    /\ arp_table \in [Entries -> ArpEntries]
    /\ \A i \in Entries : Len(arp_table[i].q) <= QueueLen
    /\ cached \in Entries
    /\ pool \subseteq Elems /\ packet \in [Elems -> Hosts \cup {NoHost}]
    /\ up \in BOOLEAN /\ pc \in {"idle", "test", "queue", "free", "empty"}
    /\ entry \in Entries /\ r \in Seq(Elems)
    /\ sent \subseteq (Hosts \cup {NoHost}) \X (Hosts \cup {NoHost})
    /\ raced \in BOOLEAN

\* The elements that entry i still owns: the link task has freed those before r.
Waiting(i) == IF pc = "free" /\ entry = i THEN r ELSE arp_table[i].q

\* Every element is free, or waits exactly once, on one entry and for its host:
\* nothing leaks and nothing is freed twice, however entries are answered, expire,
\* are recycled or emptied by the link task, unless the two threads have met.
QueuesAccounted ==
    ~raced =>
        /\ \A e \in Elems : e \in pool <=> \A i \in Entries : e \notin Elements(Waiting(i))
        /\ \A i, j \in Entries :
              i # j => Elements(Waiting(i)) \cap Elements(Waiting(j)) = {}
        /\ \A i \in Entries : \A k, l \in 1 .. Len(Waiting(i)) :
              Waiting(i)[k] = Waiting(i)[l] => k = l
        /\ \A i \in Entries : \A e \in Elements(Waiting(i)) : packet[e] = arp_table[i].ipaddr

\* A packet only ever leaves for the address of its own next hop: neither the cached
\* entry, nor a recycled one, nor a queue lends it that of another host.
SentToItsHost == ~raced => \A s \in sent : s[1] = s[2] /\ s[1] # NoHost

\* No host has two entries.
OneEntryPerHost ==
    \A i, j \in Entries :
        arp_table[i].state # "EMPTY" /\ arp_table[j].state # "EMPTY"
            /\ arp_table[i].ipaddr = arp_table[j].ipaddr => i = j

\* Nothing waits on an entry that is stable or empty (the assertion of
\* etharp_find_entry, which is compiled out, is about the stable one): such a packet
\* would never be sent, or be sent to the entry's next host.
OnlyPendingQueues ==
    \A i \in Entries : arp_table[i].q # <<>> => arp_table[i].state = "PENDING"

\* While the link is down no packet waits where the link task has been: what was to
\* be sent before does not go out when the link comes back.
CleanedStaysClean ==
    ~raced => \A i \in Entries :
        (IF pc = "idle" THEN ~up ELSE i < entry) => arp_table[i].q = <<>>

\* A packet does not wait for ever: a host that does not answer is given up, however
\* many packets are sent to it meanwhile.
WaitingEnds ==
    \A h \in Hosts :
        (\E i \in Match(h) : arp_table[i].state = "PENDING")
            ~> (raced \/ \A i \in Match(h) : arp_table[i].state # "PENDING")
===============================================================================

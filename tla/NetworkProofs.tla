--------------------------- MODULE NetworkProofs ---------------------------
(* What MCNetwork checks on small instances, for constants of any value:     *)
(* the socket pool of libcr2, the resolver, the connection pool and the      *)
(* connections of the browser, the sharing of the NIC, jug's installs and    *)
(* window and mdnsd's list, proved here; and rntp's stream, eth's address    *)
(* and the sector cache, from the invariants proved next to those            *)
(* components.                                                               *)
EXTENDS MCNetwork, FiniteSetTheorems, WellFoundedInduction, TLAPS

-----------------------------------------------------------------------------
(* Least elements.                                                          *)

LEMMA LeastExists ==
  ASSUME NEW S, S \subseteq Nat, S # {} PROVE \E x \in S : \A y \in S : x <= y
<1>1. PICK x \in S : \A y \in S : ~(<<y, x>> \in OpToRel(<, Nat))
  BY WFMin, NatLessThanWellFounded, Zenon
<1>2. ASSUME NEW y \in S PROVE x <= y
  <2>1. ~(y < x)
    BY <1>1 DEF OpToRel
  <2> QED
    BY <2>1
<1> QED
  BY <1>2

-----------------------------------------------------------------------------
(* WebDns: nobody is told the address of another name, and a query is never  *)
(* replaced while it is under way.                                           *)

DnsMessage == [id : {"this", "old"}, host : Hosts]

\* The query and the cache hold what they should.
DnsTypes ==
    /\ dns \in [phase : {"IDLE", "UDP1", "UDP2", "TCP", "DONE"}, host : Hosts \cup {Dns!NoHost},
                answer : Hosts \cup {Dns!NoHost, Dns!Failed}]
    /\ cache \in [0 .. CacheSize - 1 -> [host : Hosts \cup {Dns!NoHost}, ip : Hosts \cup {Dns!NoHost, Dns!Failed},
                                         fresh : BOOLEAN]]
    /\ next \in 0 .. CacheSize - 1
    /\ want \in [Dns!LoaderSet -> Hosts \cup {Dns!NoHost}]
    /\ dnsWire \subseteq DnsMessage

\* Answers with the transaction's id are about its name; those of earlier transactions
\* may be about any.
AnswersFit == \A m \in dnsWire : m.id = "this" => m.host = dns.host

\* The result dnsParse() has left is of the query's name.
ResultFits == dns.phase = "DONE" => dns.answer \in {dns.host, Dns!Failed}

\* A fresh entry has its own name's address.
EntriesFit == \A i \in 0 .. CacheSize - 1 : cache[i].fresh => cache[i].ip \in {cache[i].host, Dns!Failed}

DnsInv == DnsTypes /\ AnswersFit /\ ResultFits /\ EntriesFit /\ Dns!RightAddress

LEMMA DnsInit == ASSUME CacheSize \in Nat \ {0}, Dns!Init PROVE DnsInv
<1>1. DnsTypes
  BY DEF Dns!Init, DnsTypes, Dns!Empty
<1>2. AnswersFit /\ ResultFits /\ Dns!RightAddress
  BY DEF Dns!Init, AnswersFit, ResultFits, Dns!RightAddress
<1>3. EntriesFit
  BY DEF Dns!Init, EntriesFit, Dns!Empty
<1> QED
  BY <1>1, <1>2, <1>3 DEF DnsInv

\* resolve(): what is published is of the query's name, so a hit is of the loader's.
LEMMA ResolveStep ==
  ASSUME CacheSize \in Nat \ {0}, DnsInv, NEW l \in Dns!LoaderSet, Dns!Resolve(l) PROVE DnsInv'
<1> DEFINE phase == IF dns.phase = "DONE" THEN "IDLE" ELSE dns.phase
           hits == {i \in DOMAIN cache : Dns!Published[i].fresh /\ Dns!Published[i].host = want[l]}
<1> USE DEF DnsInv
<1>1. /\ Dns!Published \in [0 .. CacheSize - 1 -> [host : Hosts \cup {Dns!NoHost}, ip : Hosts \cup {Dns!NoHost, Dns!Failed},
                                             fresh : BOOLEAN]]
      /\ \A i \in 0 .. CacheSize - 1 : Dns!Published[i].fresh => Dns!Published[i].ip \in {Dns!Published[i].host, Dns!Failed}
  BY DEF Dns!Published, DnsTypes, ResultFits, EntriesFit
<1>2. cache' = Dns!Published /\ next' \in 0 .. CacheSize - 1
  BY DEF Dns!Resolve, Dns!SlotAfter, DnsTypes
<1>3. phase # "DONE" /\ phase \in {"IDLE", "UDP1", "UDP2", "TCP", "DONE"} /\ want[l] \in Hosts
  BY DEF DnsTypes, Dns!Resolve
<1>4. EntriesFit'
  BY <1>1, <1>2 DEF EntriesFit
<1> HIDE DEF phase
<1>5. CASE hits # {}
  <2>1. /\ \E i \in hits : misled' = (misled \/ Dns!Published[i].ip \notin {want[l], Dns!Failed})
        /\ want' = [want EXCEPT ![l] = Dns!NoHost] /\ dns' = [dns EXCEPT !.phase = phase] /\ dnsWire' = dnsWire
    BY <1>5 DEF Dns!Resolve, phase
  <2>2. Dns!RightAddress'
    BY <1>1, <2>1 DEF Dns!RightAddress, DnsTypes
  <2>3. DnsTypes'
    BY <1>1, <1>2, <1>3, <2>1 DEF DnsTypes
  <2>4. AnswersFit' /\ ResultFits'
    BY <1>3, <2>1 DEF AnswersFit, ResultFits, DnsTypes
  <2> QED
    BY <1>4, <2>2, <2>3, <2>4
<1>6. CASE hits = {}
  <2>1. /\ want' = want /\ misled' = misled
        /\ \/ /\ dns' = [phase |-> "UDP1", host |-> want[l], answer |-> Dns!NoHost]
              /\ dnsWire' = {[m EXCEPT !.id = "old"] : m \in dnsWire} \cup {[id |-> "this", host |-> want[l]]}
           \/ dns' = [dns EXCEPT !.phase = phase] /\ dnsWire' = dnsWire
    BY <1>6 DEF Dns!Resolve, phase
  <2>2. DnsTypes' /\ AnswersFit' /\ ResultFits'
    <3>1. CASE /\ dns' = [phase |-> "UDP1", host |-> want[l], answer |-> Dns!NoHost]
               /\ dnsWire' = {[m EXCEPT !.id = "old"] : m \in dnsWire} \cup {[id |-> "this", host |-> want[l]]}
      <4>1. \A m \in dnsWire' : m \in DnsMessage /\ (m.id = "this" => m.host = want[l])
        BY <1>3, <3>1 DEF DnsTypes, DnsMessage
      <4>2. DnsTypes'
        BY <1>1, <1>2, <1>3, <2>1, <3>1, <4>1 DEF DnsTypes
      <4> QED
        BY <3>1, <4>1, <4>2 DEF AnswersFit, ResultFits
    <3>2. CASE dns' = [dns EXCEPT !.phase = phase] /\ dnsWire' = dnsWire
      BY <1>1, <1>2, <1>3, <2>1, <3>2 DEF AnswersFit, ResultFits, DnsTypes
    <3> QED
      BY <2>1, <3>1, <3>2
  <2> QED
    BY <1>4, <2>1, <2>2 DEF Dns!RightAddress
<1> QED
  BY <1>5, <1>6

\* onUdp() and dnsStep(): an answer is taken only with the transaction's id.
LEMMA PollStep == ASSUME DnsInv, Dns!TimesOut \/ \E m \in dnsWire : Dns!Answer(m) PROVE DnsInv'
<1> USE DEF DnsInv
<1>1. CASE Dns!TimesOut
  BY ZenonT(60), <1>1 DEF Dns!TimesOut, Dns!Done, DnsTypes, AnswersFit, ResultFits, EntriesFit, Dns!RightAddress
<1>2. CASE \E m \in dnsWire : Dns!Answer(m)
  <2>1. PICK m \in dnsWire : Dns!Answer(m)
    BY <1>2
  <2>2. \/ dns' = dns
        \/ m.id = "this" /\ \E a \in {m.host, Dns!Failed} : dns' = [dns EXCEPT !.phase = "DONE", !.answer = a]
    BY <2>1 DEF Dns!Answer, Dns!IsAnswer, Dns!Done
  <2>3. dnsWire' \subseteq dnsWire /\ UNCHANGED <<cache, next, want, misled>> /\ m \in DnsMessage
    BY <2>1 DEF Dns!Answer, DnsTypes
  <2> QED
    BY ZenonT(60), <2>2, <2>3 DEF DnsTypes, AnswersFit, ResultFits, EntriesFit, Dns!RightAddress, DnsMessage
<1> QED
  BY <1>1, <1>2

\* What loaders and the clock do beside.
LEMMA OtherStep ==
  ASSUME DnsInv,
         \/ \E l \in Dns!LoaderSet : Dns!Cancel(l) \/ Dns!Rests(l) \/ \E h \in Hosts : Dns!Begin(l, h)
         \/ Dns!Poll \/ (\E i \in DOMAIN cache : Dns!Ages(i)) \/ UNCHANGED Dns!vars
  PROVE  DnsInv'
<1>1. CASE \E i \in DOMAIN cache : Dns!Ages(i)
  <2>1. PICK i \in DOMAIN cache : Dns!Ages(i)
    BY <1>1
  <2>2. cache' = [cache EXCEPT ![i].fresh = FALSE] /\ UNCHANGED <<dns, next, want, misled, dnsWire>>
    BY <2>1 DEF Dns!Ages
  <2>3. DnsTypes'
    BY ZenonT(60), <2>2 DEF DnsInv, DnsTypes
  <2>4. EntriesFit'
    BY <2>2 DEF DnsInv, DnsTypes, EntriesFit
  <2> QED
    BY <2>2, <2>3, <2>4 DEF DnsInv, AnswersFit, ResultFits, Dns!RightAddress
<1>2. ASSUME UNCHANGED <<dns, cache, next, misled, dnsWire>>, want' \in [Dns!LoaderSet -> Hosts \cup {Dns!NoHost}]
      PROVE  DnsInv'
  <2>1. DnsTypes'
    BY <1>2 DEF DnsInv, DnsTypes
  <2> QED
    BY <1>2, <2>1 DEF DnsInv, AnswersFit, ResultFits, EntriesFit, Dns!RightAddress
<1>3. CASE \E l \in Dns!LoaderSet : Dns!Cancel(l) \/ Dns!Rests(l) \/ \E h \in Hosts : Dns!Begin(l, h)
  <2>1. UNCHANGED <<dns, cache, next, misled, dnsWire>>
    BY <1>3 DEF Dns!Cancel, Dns!Rests, Dns!Begin
  <2>2. want' \in [Dns!LoaderSet -> Hosts \cup {Dns!NoHost}]
    BY <1>3 DEF Dns!Cancel, Dns!Rests, Dns!Begin, DnsInv, DnsTypes
  <2> QED
    BY <1>2, <2>1, <2>2
<1>4. CASE Dns!Poll \/ UNCHANGED Dns!vars
  BY <1>2, <1>4 DEF Dns!Poll, Dns!vars, DnsInv, DnsTypes
<1> QED
  BY <1>1, <1>3, <1>4

LEMMA DnsStep == ASSUME CacheSize \in Nat \ {0}, DnsInv, [Dns!Next]_Dns!vars PROVE DnsInv'
  BY ResolveStep, PollStep, OtherStep DEF Dns!Next

\* The invariant holds in every state.
THEOREM DnsInductive == ASSUME CacheSize \in Nat \ {0} PROVE Dns!Spec => []DnsInv
<1>1. Dns!Init => DnsInv
  BY DnsInit
<1>2. DnsInv /\ [Dns!Next]_Dns!vars => DnsInv'
  BY DnsStep
<1> QED
  BY <1>1, <1>2, PTL DEF Dns!Spec

\* However late answers come and whoever started the query, resolve() gives a loader the
\* address of the name it asked for.
THEOREM NobodyMisled == ASSUME CacheSize \in Nat \ {0} PROVE Dns!Spec => []Dns!RightAddress
<1>1. DnsInv => Dns!RightAddress
  BY DEF DnsInv
<1> QED
  BY <1>1, DnsInductive, PTL

LEMMA QueryStays == ASSUME DnsInv, Dns!Next PROVE Dns!QueryStands
<1> USE DEF DnsInv, DnsTypes, Dns!QueryStands
<1>1. ASSUME NEW l \in Dns!LoaderSet, Dns!Resolve(l) PROVE Dns!QueryStands
  BY <1>1 DEF Dns!Resolve, Dns!MayStart
<1>2. ASSUME NEW l \in Dns!LoaderSet, Dns!Cancel(l) \/ Dns!Rests(l) \/ \E h \in Hosts : Dns!Begin(l, h) PROVE Dns!QueryStands
  BY <1>2 DEF Dns!Cancel, Dns!Rests, Dns!Begin
<1>3. CASE \E m \in dnsWire : Dns!Answer(m)
  BY <1>3 DEF Dns!Answer, Dns!Done
<1>4. CASE Dns!TimesOut \/ Dns!Poll
  BY <1>4 DEF Dns!TimesOut, Dns!Poll, Dns!Done
<1>5. CASE \E i \in DOMAIN cache : Dns!Ages(i)
  BY <1>5 DEF Dns!Ages
<1> QED
  BY <1>1, <1>2, <1>3, <1>4, <1>5 DEF Dns!Next

\* "One wire query at a time": resolve() starts one only when none is under way.
THEOREM OneQuery == ASSUME CacheSize \in Nat \ {0} PROVE Dns!Spec => [][Dns!QueryStands]_Dns!vars
<1>1. DnsInv /\ [Dns!Next]_Dns!vars => [Dns!QueryStands]_Dns!vars
  BY QueryStays
<1> QED
  BY <1>1, DnsInductive, PTL DEF Dns!Spec

-----------------------------------------------------------------------------
(* WebPool: a connection is its loader's own, ports are not shared, and the  *)
(* kernel gets back what it gave.                                            *)

ConnSizes == MaxConns \in Nat /\ PortCount \in Nat \ {0}

ConnState == {"FREE", "SYN_SENT", "ESTABLISHED", "FIN_WAIT", "CLOSE_WAIT"}
PoolType == [conns : [Conns!Slots -> [state : ConnState, failed : BOOLEAN, lport : 0 .. PortCount]],
             bound : SUBSET Conns!Ports, stuck : SUBSET Conns!Ports]

\* Of a pool, as it is or as it is in the middle of connect(): a connection has a port of
\* its own, which the kernel has not kept from an earlier one, and the kernel's entries are
\* those ports and the ones it kept.
Sound(p) ==
    /\ p \in PoolType
    /\ \A i \in Conns!Live(p) : p.conns[i].lport \in Conns!Ports \ p.stuck
    /\ \A i, j \in Conns!Live(p) : i # j => p.conns[i].lport # p.conns[j].lport
    /\ driver => p.stuck = {}
    /\ p.bound = (IF driver THEN {} ELSE {p.conns[i].lport : i \in Conns!Live(p)}) \cup p.stuck

ConnInv ==
    /\ Sound(pool) /\ nextPort \in Conns!Ports /\ driver \in BOOLEAN
    /\ held \in [Machines -> 0 .. MaxConns] /\ Conns!HandleIsOwn

\* freeConn(): the port is the kernel's again, or kept by it, and nobody else's.
LEMMA FreedParts ==
  ASSUME ConnSizes, NEW p \in PoolType, NEW i \in Conns!Slots, NEW port, NEW q \in Conns!Freed(p, i, port)
  PROVE  /\ q \in PoolType /\ q.conns = [p.conns EXCEPT ![i] = Conns!FreeSlot]
         /\ \/ q.bound = p.bound \ {port} /\ q.stuck = p.stuck
            \/ q.bound = p.bound /\ q.stuck = p.stuck \cup {port} /\ port \in p.bound
<1> DEFINE table == [p.conns EXCEPT ![i] = Conns!FreeSlot]
           r == [p EXCEPT !.conns[i] = Conns!FreeSlot]
<1>1. table \in [Conns!Slots -> [state : ConnState, failed : BOOLEAN, lport : 0 .. PortCount]]
  <2>1. Conns!FreeSlot \in [state : ConnState, failed : BOOLEAN, lport : 0 .. PortCount]
    BY DEF Conns!FreeSlot, Conns!NoPort, ConnState, ConnSizes
  <2> QED
    BY <2>1 DEF PoolType
<1>2. r = [conns |-> table, bound |-> p.bound, stuck |-> p.stuck]
  BY DEF PoolType
<1> HIDE DEF table, r
<1>3. \/ q = [r EXCEPT !.bound = p.bound \ {port}]
      \/ port \in p.bound /\ q = [r EXCEPT !.stuck = @ \cup {port}]
  BY DEF Conns!Freed, Conns!Unbound, r
<1>4. p.bound \in SUBSET Conns!Ports /\ p.stuck \in SUBSET Conns!Ports
  BY DEF PoolType
<1>5. CASE q = [r EXCEPT !.bound = p.bound \ {port}]
  <2>1. q = [conns |-> table, bound |-> p.bound \ {port}, stuck |-> p.stuck]
    BY <1>2, <1>5
  <2> QED
    BY <1>1, <1>4, <2>1 DEF PoolType, table
<1>6. CASE port \in p.bound /\ q = [r EXCEPT !.stuck = @ \cup {port}]
  <2>1. q = [conns |-> table, bound |-> p.bound, stuck |-> p.stuck \cup {port}]
    BY <1>2, <1>6
  <2> QED
    <3>1. p.stuck \cup {port} \in SUBSET Conns!Ports
      BY <1>4, <1>6
    <3>2. q \in PoolType /\ q.conns = table
      BY <1>1, <1>4, <2>1, <3>1 DEF PoolType
    <3>3. q.bound = p.bound /\ q.stuck = p.stuck \cup {port} /\ port \in p.bound
      BY <1>6, <2>1
    <3> QED
      BY <3>2, <3>3 DEF table
<1> QED
  BY <1>3, <1>5, <1>6

LEMMA FreedSound ==
  ASSUME ConnSizes, driver \in BOOLEAN, NEW p, Sound(p), NEW i \in Conns!Live(p),
         NEW q \in Conns!Freed(p, i, p.conns[i].lport)
  PROVE  /\ Sound(q) /\ q.conns = [p.conns EXCEPT ![i] = Conns!FreeSlot]
         /\ Conns!Live(q) = Conns!Live(p) \ {i}
<1> DEFINE port == p.conns[i].lport
<1>1. p \in PoolType /\ i \in Conns!Slots
  BY DEF Sound, Conns!Live
<1>2. /\ q \in PoolType /\ q.conns = [p.conns EXCEPT ![i] = Conns!FreeSlot]
      /\ \/ q.bound = p.bound \ {port} /\ q.stuck = p.stuck
         \/ q.bound = p.bound /\ q.stuck = p.stuck \cup {port} /\ port \in p.bound
  BY <1>1, FreedParts
<1>3. p.conns \in [Conns!Slots -> [state : ConnState, failed : BOOLEAN, lport : 0 .. PortCount]]
  BY <1>1 DEF PoolType
<1>4. Conns!Live(q) = Conns!Live(p) \ {i} /\ \A j \in Conns!Live(q) : q.conns[j] = p.conns[j] /\ j # i
  BY <1>1, <1>2, <1>3 DEF Conns!Live, Conns!FreeSlot
<1> HIDE DEF port
<1>5. \A j \in Conns!Live(p) \ {i} : p.conns[j].lport # port
  BY DEF Sound, port
<1>6. port \notin p.stuck /\ port \in Conns!Ports
  BY DEF Sound, port
<1>7. /\ \A j \in Conns!Live(q) : q.conns[j].lport \in Conns!Ports \ q.stuck
      /\ \A j, k \in Conns!Live(q) : j # k => q.conns[j].lport # q.conns[k].lport
  BY <1>2, <1>4, <1>5 DEF Sound
<1>8. {q.conns[j].lport : j \in Conns!Live(q)} = {p.conns[j].lport : j \in Conns!Live(p)} \ {port}
  BY <1>4, <1>5 DEF port
<1>9. ASSUME driver PROVE Sound(q)
  <2>1. port \notin p.bound
    BY <1>9 DEF Sound
  <2> QED
    BY <1>2, <1>7, <1>9, <2>1 DEF Sound
<1>10. ASSUME ~driver PROVE Sound(q)
  <2>1. p.bound = {p.conns[j].lport : j \in Conns!Live(p)} \cup p.stuck
    BY <1>10 DEF Sound
  <2>2. port \in {p.conns[j].lport : j \in Conns!Live(p)}
    BY DEF port
  <2>3. q.bound = {q.conns[j].lport : j \in Conns!Live(q)} \cup q.stuck
    BY <1>2, <1>6, <1>8, <2>1, <2>2
  <2> QED
    BY <1>2, <1>7, <1>10, <2>3 DEF Sound
<1>11. Sound(q)
  BY <1>9, <1>10
<1> QED
  BY <1>2, <1>4, <1>11

\* allocPort() and the assignments of connect(): a port nobody has becomes one connection's.
New(p, i, port) ==
    [Conns!Bound(p, port) EXCEPT !.conns[i] = [state |-> "SYN_SENT", failed |-> FALSE, lport |-> port]]

LEMMA NewSound ==
  ASSUME ConnSizes, driver \in BOOLEAN, NEW p, Sound(p), NEW i \in Conns!Slots \ Conns!Live(p),
         NEW port \in Conns!Ports, ~Conns!InUse(p, port)
  PROVE  /\ Sound(New(p, i, port))
         /\ New(p, i, port).conns = [p.conns EXCEPT ![i] = [state |-> "SYN_SENT", failed |-> FALSE, lport |-> port]]
         /\ i \in Conns!Live(New(p, i, port))
<1> DEFINE s == [state |-> "SYN_SENT", failed |-> FALSE, lport |-> port]
           table == [p.conns EXCEPT ![i] = s]
           n == New(p, i, port)
           b == IF driver THEN p.bound ELSE p.bound \cup {port}
           k == IF driver THEN p.stuck ELSE p.stuck \ {port}
<1>1. p \in PoolType /\ p.conns \in [Conns!Slots -> [state : ConnState, failed : BOOLEAN, lport : 0 .. PortCount]]
      /\ p.bound \in SUBSET Conns!Ports /\ p.stuck \in SUBSET Conns!Ports
  BY DEF Sound, PoolType
<1>2. s \in [state : ConnState, failed : BOOLEAN, lport : 0 .. PortCount]
  BY DEF Conns!Ports, ConnState, ConnSizes
<1>3. Conns!Bound(p, port) = [conns |-> p.conns, bound |-> b, stuck |-> k]
  BY <1>1 DEF Conns!Bound, PoolType
<1>4. n = [conns |-> table, bound |-> b, stuck |-> k]
  <2> DEFINE m == Conns!Bound(p, port)
  <2>1. m.conns = p.conns /\ m.bound = b /\ m.stuck = k /\ m \in [conns : {p.conns}, bound : {b}, stuck : {k}]
    BY <1>3
  <2>2. n = [m EXCEPT !.conns[i] = s]
    BY DEF New
  <2> HIDE DEF m, n
  <2> QED
    BY <2>1, <2>2
<1>5. table \in [Conns!Slots -> [state : ConnState, failed : BOOLEAN, lport : 0 .. PortCount]]
  BY <1>1, <1>2
<1>6. n \in PoolType /\ n.conns = table /\ n.bound = b /\ n.stuck = k
  BY <1>1, <1>4, <1>5 DEF PoolType
<1>7. table[i] = s /\ \A j \in Conns!Slots \ {i} : table[j] = p.conns[j]
  BY <1>1
<1> HIDE DEF n, table
<1>8. Conns!Live(n) = Conns!Live(p) \cup {i}
  BY <1>6, <1>7 DEF Conns!Live
<1>9. n.conns[i].lport = port /\ \A j \in Conns!Live(p) : n.conns[j] = p.conns[j] /\ j # i /\ p.conns[j].lport # port
  BY <1>6, <1>7 DEF Conns!Live, Conns!InUse
<1>10. /\ \A j \in Conns!Live(n) : n.conns[j].lport \in Conns!Ports
       /\ \A j, l \in Conns!Live(n) : j # l => n.conns[j].lport # n.conns[l].lport
  BY <1>8, <1>9 DEF Sound
<1>11. {n.conns[j].lport : j \in Conns!Live(n)} = {p.conns[j].lport : j \in Conns!Live(p)} \cup {port}
  BY <1>8, <1>9
<1>12. ASSUME driver PROVE Sound(n)
  <2>1. n.bound = {} /\ n.stuck = {}
    BY <1>6, <1>12 DEF Sound
  <2> QED
    BY <1>6, <1>10, <1>12, <2>1 DEF Sound
<1>13. ASSUME ~driver PROVE Sound(n)
  <2>1. n.bound = p.bound \cup {port} /\ n.stuck = p.stuck \ {port}
    BY <1>6, <1>13
  <2>2. n.bound = {n.conns[j].lport : j \in Conns!Live(n)} \cup n.stuck
    BY <1>11, <1>13, <2>1 DEF Sound
  <2>3. \A j \in Conns!Live(n) : n.conns[j].lport \notin n.stuck
    BY <1>8, <1>9, <2>1 DEF Sound
  <2> QED
    BY <1>6, <1>10, <1>13, <2>2, <2>3 DEF Sound
<1>14. Sound(n)
  BY <1>12, <1>13
<1> QED
  BY <1>6, <1>8, <1>14 DEF n, table

\* allocConn(): the slot is free afterwards, and nobody's before.
LEMMA VacatedSound ==
  ASSUME ConnSizes, ConnInv, Conns!Slot \in Conns!Slots, NEW p \in Conns!Vacated
  PROVE  /\ Sound(p) /\ Conns!Slot \notin Conns!Live(p) /\ \A l \in Machines : held[l] # Conns!Slot
         /\ \A j \in Conns!Slots \ {Conns!Slot} : p.conns[j] = pool.conns[j]
<1>1. Sound(pool) /\ driver \in BOOLEAN /\ Conns!HandleIsOwn /\ pool \in PoolType /\ MaxConns \in Nat
  BY DEF ConnInv, Sound, ConnSizes
<1>2. \A l \in Machines : held[l] \in Conns!Slots => pool.conns[held[l]].state \notin {"FREE", "FIN_WAIT"}
  BY <1>1 DEF Conns!HandleIsOwn, Conns!conns
<1>3. CASE Conns!Live(pool) # Conns!Slots
  <2> DEFINE S == Conns!Slots \ Conns!Live(pool)
  <2>1. S \subseteq Nat /\ S # {}
    BY <1>1, <1>3 DEF Conns!Slots, Conns!Live
  <2>2. \E x \in S : \A y \in S : x <= y
    BY <2>1, LeastExists
  <2>3. Conns!Min(S) \in S
    BY <2>2 DEF Conns!Min
  <2>4. Conns!Slot = Conns!Min(S) /\ p = pool
    BY <1>3 DEF Conns!Slot, Conns!Vacated
  <2>5. pool.conns[Conns!Slot].state = "FREE"
    BY <2>3, <2>4 DEF Conns!Live
  <2> QED
    BY <1>1, <1>2, <2>3, <2>4, <2>5
<1>4. CASE Conns!Live(pool) = Conns!Slots
  <2> DEFINE S == Conns!Closing
  <2>1. S # {} /\ S \subseteq Nat
    BY <1>1, <1>4 DEF Conns!Slot, Conns!Slots, Conns!Closing
  <2>2. \E x \in S : \A y \in S : x <= y
    BY <2>1, LeastExists
  <2>3. Conns!Min(S) \in S
    BY <2>2 DEF Conns!Min
  <2>4. Conns!Slot = Conns!Min(S) /\ p \in Conns!Freed(pool, Conns!Slot, pool.conns[Conns!Slot].lport)
    BY <1>4, <2>1 DEF Conns!Slot, Conns!Vacated, Conns!conns
  <2>5. pool.conns[Conns!Slot].state = "FIN_WAIT"
    BY <2>3, <2>4 DEF Conns!Closing, Conns!conns
  <2>6. Sound(p) /\ p.conns = [pool.conns EXCEPT ![Conns!Slot] = Conns!FreeSlot] /\ Conns!Live(p) = Conns!Live(pool) \ {Conns!Slot}
    BY <1>1, <1>4, <2>4, FreedSound
  <2>7. pool.conns \in [Conns!Slots -> [state : ConnState, failed : BOOLEAN, lport : 0 .. PortCount]]
    BY <1>1 DEF PoolType
  <2> QED
    BY <1>2, <2>5, <2>6, <2>7
<1> QED
  BY <1>3, <1>4

\* Where nobody holds the slot, what becomes of it is nobody's loss.
LEMMA OwnStays ==
  ASSUME ConnInv, Sound(pool'), UNCHANGED <<driver, held>>, nextPort' \in Conns!Ports, NEW i,
         \A l \in Machines : held[l] # i, \A j \in Conns!Slots \ {i} : pool'.conns[j] = pool.conns[j]
  PROVE  ConnInv'
<1>1. Sound(pool)'
  BY DEF Sound, Conns!Live, PoolType
<1>2. Conns!HandleIsOwn'
  BY DEF ConnInv, Conns!HandleIsOwn, Conns!conns
<1> QED
  BY <1>1, <1>2 DEF ConnInv

\* The ports of the round robin.
LEMMA Cycle == ASSUME ConnSizes, NEW n \in Nat PROVE n % PortCount \in Conns!Ports
  BY DEF ConnSizes, Conns!Ports

\* connect() that finds no memory: what it gives back is the slot and the port it had.
LEMMA GivenBack ==
  ASSUME ConnSizes, driver \in BOOLEAN, NEW p, Sound(p), NEW i \in Conns!Slots \ Conns!Live(p),
         NEW port \in Conns!Ports, ~Conns!InUse(p, port), NEW q \in Conns!Freed(Conns!Bound(p, port), i, port)
  PROVE  Sound(q) /\ \A j \in Conns!Slots \ {i} : q.conns[j] = p.conns[j]
<1> DEFINE s == [state |-> "SYN_SENT", failed |-> FALSE, lport |-> port]
           m == Conns!Bound(p, port)
           n == New(p, i, port)
           t == [conns : [Conns!Slots -> [state : ConnState, failed : BOOLEAN, lport : 0 .. PortCount]],
                 bound : SUBSET Conns!Ports, stuck : SUBSET Conns!Ports]
<1>1. p.conns \in [Conns!Slots -> [state : ConnState, failed : BOOLEAN, lport : 0 .. PortCount]] /\ p \in t
  BY DEF Sound, PoolType
<1>2. m \in t /\ m.conns = p.conns
  BY <1>1 DEF Conns!Bound
<1>3. n = [m EXCEPT !.conns[i] = s]
  BY DEF New
<1>4. /\ Sound(n) /\ n.conns = [p.conns EXCEPT ![i] = s] /\ i \in Conns!Live(n)
  BY NewSound
<1> HIDE DEF m, n, s
<1>5. n.bound = m.bound /\ n.stuck = m.stuck /\ n.conns = [m.conns EXCEPT ![i] = s]
  BY <1>2, <1>3
<1>6. [n EXCEPT !.conns[i] = Conns!FreeSlot] = [m EXCEPT !.conns[i] = Conns!FreeSlot]
  BY <1>2, <1>3
<1>7. Conns!Freed(n, i, port) = Conns!Freed(m, i, port)
  BY <1>5, <1>6, Zenon DEF Conns!Freed, Conns!Unbound
<1>8. n.conns[i].lport = port
  BY <1>1, <1>4 DEF s
<1>9. q \in Conns!Freed(n, i, n.conns[i].lport)
  BY <1>7, <1>8 DEF m
<1>10. Sound(q) /\ q.conns = [n.conns EXCEPT ![i] = Conns!FreeSlot]
  BY <1>4, <1>9, FreedSound
<1> QED
  BY <1>1, <1>4, <1>10

LEMMA ConnectStep ==
  ASSUME ConnSizes, ConnInv, NEW l \in Machines, Conns!Connect(l) PROVE ConnInv'
<1> DEFINE i == Conns!Slot
<1>1. /\ i \in Conns!Slots /\ held[l] = MaxConns /\ UNCHANGED <<driver, others>>
      /\ held \in [Machines -> 0 .. MaxConns] /\ driver \in BOOLEAN /\ nextPort \in Nat /\ MaxConns \in Nat
  BY DEF Conns!Connect, ConnInv, ConnSizes, Conns!Ports
<1>2. PICK p \in Conns!Vacated :
        IF Conns!Tries(p) = {} THEN pool' = p /\ UNCHANGED <<nextPort, held>>
        ELSE LET k    == Conns!Min(Conns!Tries(p))
                 port == Conns!PortAt(k)
             IN  /\ nextPort' = (nextPort + k + 1) % PortCount
                 /\ \/ /\ pool' = New(p, i, port)
                       /\ held' = [held EXCEPT ![l] = i]
                    \/ pool' \in Conns!Freed(Conns!Bound(p, port), i, port) /\ UNCHANGED held
  BY DEF Conns!Connect, New
<1>3. /\ Sound(p) /\ i \notin Conns!Live(p) /\ \A m \in Machines : held[m] # i
      /\ \A j \in Conns!Slots \ {i} : p.conns[j] = pool.conns[j]
  BY <1>1, VacatedSound
<1> HIDE DEF i
<1>4. CASE Conns!Tries(p) = {}
  <2>1. pool' = p /\ UNCHANGED <<nextPort, held>>
    BY <1>2, <1>4
  <2> QED
    BY <1>1, <1>3, <2>1, OwnStays DEF ConnInv
<1>5. CASE Conns!Tries(p) # {}
  <2> DEFINE k == Conns!Min(Conns!Tries(p))
             port == Conns!PortAt(k)
             s == [state |-> "SYN_SENT", failed |-> FALSE, lport |-> port]
  <2>1. Conns!Tries(p) \subseteq Nat
    BY DEF Conns!Tries, Conns!Ports
  <2>2. k \in Conns!Tries(p)
    BY <1>5, <2>1, LeastExists DEF Conns!Min
  <2>3. k \in Nat /\ ~Conns!InUse(p, port)
    BY <2>1, <2>2 DEF Conns!Tries
  <2> HIDE DEF k
  <2>4. port \in Conns!Ports /\ (nextPort + k + 1) % PortCount \in Conns!Ports
    BY <1>1, <2>3, Cycle DEF Conns!PortAt
  <2>5. /\ nextPort' = (nextPort + k + 1) % PortCount
        /\ \/ pool' = New(p, i, port) /\ held' = [held EXCEPT ![l] = i]
           \/ pool' \in Conns!Freed(Conns!Bound(p, port), i, port) /\ UNCHANGED held
    BY <1>2, <1>5 DEF k
  <2> HIDE DEF port
  <2>6. CASE pool' \in Conns!Freed(Conns!Bound(p, port), i, port) /\ UNCHANGED held
    <3>1. Sound(pool') /\ \A j \in Conns!Slots \ {i} : pool'.conns[j] = p.conns[j]
      BY <1>1, <1>3, <2>3, <2>4, <2>6, GivenBack DEF port
    <3> QED
      BY <1>1, <1>3, <2>4, <2>5, <2>6, <3>1, OwnStays
  <2>7. CASE pool' = New(p, i, port) /\ held' = [held EXCEPT ![l] = i]
    <3>1. Sound(pool') /\ pool'.conns = [p.conns EXCEPT ![i] = s]
      BY <1>1, <1>3, <2>3, <2>4, <2>7, NewSound DEF port
    <3>2. Sound(pool)'
      BY <1>1, <3>1 DEF Sound, Conns!Live, PoolType
    <3>3. p.conns \in [Conns!Slots -> [state : ConnState, failed : BOOLEAN, lport : 0 .. PortCount]]
      BY <1>3 DEF Sound, PoolType
    <3>4. pool'.conns[i].state = "SYN_SENT" /\ \A j \in Conns!Slots \ {i} : pool'.conns[j] = pool.conns[j]
      BY <1>1, <1>3, <3>1, <3>3
    <3>5. held'[l] = i /\ held' \in [Machines -> 0 .. MaxConns] /\ \A m \in Machines \ {l} : held'[m] = held[m]
      BY <1>1, <2>7 DEF Conns!Slots
    <3>6. Conns!HandleIsOwn'
      BY <1>1, <1>3, <3>4, <3>5 DEF ConnInv, Conns!HandleIsOwn, Conns!conns
    <3> QED
      BY <1>1, <2>4, <2>5, <3>2, <3>5, <3>6 DEF ConnInv
  <2> QED
    BY <2>5, <2>6, <2>7
<1> QED
  BY <1>4, <1>5

\* A connection that goes on in another state has the port it had.
LEMMA GoesOn ==
  ASSUME Sound(pool), UNCHANGED driver, NEW i \in Conns!Live(pool), NEW to \in ConnState \ {"FREE"},
         \/ pool' = [pool EXCEPT !.conns[i].state = to]
         \/ pool' = [pool EXCEPT !.conns[i].failed = TRUE] /\ to = pool.conns[i].state
  PROVE  /\ Sound(pool)' /\ pool'.conns[i].state = to
         /\ \A j \in Conns!Slots \ {i} : pool'.conns[j] = pool.conns[j]
<1> DEFINE r == [state : ConnState, failed : BOOLEAN, lport : 0 .. PortCount]
<1>1. pool \in PoolType /\ pool.conns \in [Conns!Slots -> r] /\ i \in Conns!Slots
  BY DEF Sound, PoolType, Conns!Live
<1> DEFINE e == IF pool' = [pool EXCEPT !.conns[i].state = to]
                THEN [pool.conns[i] EXCEPT !.state = to] ELSE [pool.conns[i] EXCEPT !.failed = TRUE]
           table == [pool.conns EXCEPT ![i] = e]
<1>2. e \in r /\ e.state = to /\ e.lport = pool.conns[i].lport
  <2>1. pool.conns[i] \in r
    BY <1>1
  <2> QED
    BY <2>1
<1>3. pool' = [pool EXCEPT !.conns = table]
  BY <1>1 DEF PoolType
<1> HIDE DEF e
<1>4. table \in [Conns!Slots -> r] /\ table[i] = e /\ \A j \in Conns!Slots \ {i} : table[j] = pool.conns[j]
  BY <1>1, <1>2
<1> HIDE DEF table
<1>5. pool' \in PoolType /\ pool'.bound = pool.bound /\ pool'.stuck = pool.stuck /\ pool'.conns = table
  BY <1>1, <1>3, <1>4 DEF PoolType
<1>6. Conns!Live(pool') = Conns!Live(pool) /\ \A j \in Conns!Live(pool) : pool'.conns[j].lport = pool.conns[j].lport
  BY <1>1, <1>2, <1>4, <1>5 DEF Conns!Live
<1>7. Sound(pool')
  BY <1>5, <1>6 DEF Sound
<1>8. Sound(pool)'
  BY <1>7 DEF Sound, Conns!Live, PoolType
<1> QED
  BY <1>2, <1>4, <1>5, <1>8

LEMMA NetworkStep ==
  ASSUME ConnSizes, ConnInv, NEW i \in Conns!Slots,
         \/ Conns!Moves(i, "SYN_SENT", "ESTABLISHED") \/ Conns!Moves(i, "ESTABLISHED", "CLOSE_WAIT")
         \/ Conns!Fails(i) \/ Conns!Finishes(i)
  PROVE  ConnInv'
<1>1. Sound(pool) /\ UNCHANGED <<driver, nextPort, held>> /\ driver \in BOOLEAN /\ i \in Conns!Live(pool)
  BY DEF ConnInv, Conns!Moves, Conns!Fails, Conns!Finishes, Conns!Live, Conns!conns
<1>2. \A l \in Machines : held[l] = i => pool.conns[i].state \notin {"FREE", "FIN_WAIT"}
  BY DEF ConnInv, Conns!HandleIsOwn, Conns!conns
<1>3. ASSUME NEW to \in ConnState \ {"FREE"}, to # "FIN_WAIT",
             \/ pool' = [pool EXCEPT !.conns[i].state = to]
             \/ pool' = [pool EXCEPT !.conns[i].failed = TRUE] /\ to = pool.conns[i].state
      PROVE  ConnInv'
  <2>1. /\ Sound(pool)' /\ pool'.conns[i].state = to
        /\ \A j \in Conns!Slots \ {i} : pool'.conns[j] = pool.conns[j]
    BY <1>1, <1>3, GoesOn
  <2>2. Conns!HandleIsOwn'
    BY <1>1, <1>3, <2>1 DEF ConnInv, Conns!HandleIsOwn, Conns!conns
  <2> QED
    BY <1>1, <2>1, <2>2 DEF ConnInv
<1>4. ASSUME pool.conns[i].state = "FIN_WAIT", pool' \in Conns!Freed(pool, i, pool.conns[i].lport) PROVE ConnInv'
  <2>1. Sound(pool') /\ pool'.conns = [pool.conns EXCEPT ![i] = Conns!FreeSlot]
    BY <1>1, <1>4, FreedSound
  <2>2. \A j \in Conns!Slots \ {i} : pool'.conns[j] = pool.conns[j]
    BY <2>1 DEF ConnInv, Sound, PoolType
  <2> QED
    BY <1>1, <1>2, <1>4, <2>1, <2>2, OwnStays DEF ConnInv
<1>5. CASE Conns!Moves(i, "SYN_SENT", "ESTABLISHED") \/ Conns!Moves(i, "ESTABLISHED", "CLOSE_WAIT")
  BY <1>3, <1>5 DEF Conns!Moves, ConnState
<1>6. CASE Conns!Fails(i)
  <2>1. pool.conns[i].state \in ConnState \ {"FREE"}
    BY <1>1 DEF Conns!Live, Sound, PoolType
  <2> QED
    BY <1>3, <1>4, <1>6, <2>1 DEF Conns!Fails, Conns!conns
<1>7. CASE Conns!Finishes(i)
  BY <1>4, <1>7 DEF Conns!Finishes, Conns!conns
<1> QED
  BY <1>5, <1>6, <1>7

LEMMA CloseStep ==
  ASSUME ConnSizes, ConnInv, NEW l \in Machines, Conns!CloseBy(l) PROVE ConnInv'
<1>0. PICK i : i = held[l]
  OBVIOUS
<1>1. /\ Sound(pool) /\ UNCHANGED <<driver, nextPort>> /\ driver \in BOOLEAN /\ i \in Conns!Live(pool)
      /\ held' = [held EXCEPT ![l] = MaxConns] /\ MaxConns \in Nat
  BY <1>0 DEF ConnInv, Conns!CloseBy, Conns!Live, Conns!HandleIsOwn, Conns!conns, ConnSizes
<1>2. held' \in [Machines -> 0 .. MaxConns] /\ held'[l] \notin Conns!Slots /\ \A m \in Machines \ {l} : held'[m] = held[m]
  BY <1>1 DEF ConnInv, Conns!Slots
<1>3. \A m \in Machines \ {l} : held[m] # i
  BY <1>0, <1>1 DEF ConnInv, Conns!HandleIsOwn, Conns!Live
<1>4. Sound(pool)' /\ \A j \in Conns!Slots \ {i} : pool'.conns[j] = pool.conns[j]
  <2>1. CASE pool' \in Conns!Freed(pool, i, pool.conns[i].lport)
    <3>1. Sound(pool') /\ pool'.conns = [pool.conns EXCEPT ![i] = Conns!FreeSlot]
      BY <1>1, <2>1, FreedSound
    <3>2. Sound(pool)'
      BY <1>1, <3>1 DEF Sound, Conns!Live, PoolType
    <3>3. pool.conns \in [Conns!Slots -> [state : ConnState, failed : BOOLEAN, lport : 0 .. PortCount]]
      BY <1>1 DEF Sound, PoolType
    <3>4. \A j \in Conns!Slots \ {i} : pool'.conns[j] = pool.conns[j]
      BY <3>1, <3>3
    <3> QED
      BY <3>2, <3>4
  <2>2. CASE pool' = [pool EXCEPT !.conns[i].state = "FIN_WAIT"]
    <3>1. "FIN_WAIT" \in ConnState \ {"FREE"}
      BY DEF ConnState
    <3> QED
      BY <1>1, <2>2, <3>1, GoesOn
  <2> QED
    BY <1>0, <2>1, <2>2 DEF Conns!CloseBy, Conns!conns
<1>5. Conns!HandleIsOwn'
  BY <1>2, <1>3, <1>4 DEF ConnInv, Conns!HandleIsOwn, Conns!conns
<1> QED
  BY <1>1, <1>2, <1>4, <1>5 DEF ConnInv

LEMMA ConnInitially == ASSUME ConnSizes, Conns!Init PROVE ConnInv
<1>1. Conns!FreeSlot \in [state : ConnState, failed : BOOLEAN, lport : 0 .. PortCount] /\ Conns!FreeSlot.state = "FREE"
  BY DEF Conns!FreeSlot, Conns!NoPort, ConnState, ConnSizes
<1>2. pool \in PoolType /\ pool.bound = {} /\ pool.stuck = {} /\ \A i \in Conns!Slots : pool.conns[i] = Conns!FreeSlot
  BY <1>1 DEF Conns!Init, PoolType
<1>3. Conns!Live(pool) = {}
  BY <1>1, <1>2 DEF Conns!Live
<1>4. Sound(pool)
  BY <1>2, <1>3 DEF Sound
<1>5. /\ held \in [Machines -> 0 .. MaxConns] /\ Conns!HandleIsOwn
      /\ nextPort \in Conns!Ports /\ driver \in BOOLEAN
  BY DEF Conns!Init, Conns!HandleIsOwn, Conns!Slots, ConnSizes
<1> QED
  BY <1>4, <1>5 DEF ConnInv

LEMMA ConnStep == ASSUME ConnSizes, ConnInv, [Conns!Next]_Conns!vars PROVE ConnInv'
<1>1. ASSUME UNCHANGED <<pool, nextPort, driver, held>> PROVE ConnInv'
  BY <1>1 DEF ConnInv, Sound, Conns!Live, PoolType, Conns!HandleIsOwn, Conns!conns
<1> QED
  BY SMTT(60), <1>1, ConnectStep, CloseStep, NetworkStep DEF Conns!Next, Conns!OthersBind, Conns!vars

\* The invariant holds in every state, for pools and port ranges of any size, whatever
\* other processes bind and whatever the kernel keeps.
THEOREM ConnInductive == ASSUME ConnSizes PROVE Conns!Spec => []ConnInv
<1>1. Conns!Init => ConnInv
  BY ConnInitially
<1>2. ConnInv /\ [Conns!Next]_Conns!vars => ConnInv'
  BY ConnStep
<1> QED
  BY <1>1, <1>2, PTL DEF Conns!Spec

\* allocConn() never takes a slot from a loader that has not closed it.
THEOREM HandlesAreOwn == ASSUME ConnSizes PROVE Conns!Spec => []Conns!HandleIsOwn
<1>1. ConnInv => Conns!HandleIsOwn
  BY DEF ConnInv
<1> QED
  BY <1>1, ConnInductive, PTL

\* allocPort() never gives a port two connections have.
THEOREM PortsAreOwn == ASSUME ConnSizes PROVE Conns!Spec => []Conns!PortsDiffer
<1>1. ConnInv => Conns!PortsDiffer
  BY DEF ConnInv, Sound, Conns!PortsDiffer, Conns!conns
<1> QED
  BY <1>1, ConnInductive, PTL

\* Neither freeConn() nor a connect() that fails half-way leaves an entry of the kernel's
\* table that belongs to no connection, apart from those the kernel refused to release.
THEOREM PortsAreReturned == ASSUME ConnSizes PROVE Conns!Spec => []Conns!NoLeak
<1>1. ConnInv => Conns!NoLeak
  BY DEF ConnInv, Sound, Conns!NoLeak, Conns!conns
<1> QED
  BY <1>1, ConnInductive, PTL

-----------------------------------------------------------------------------
(* Cr2Sockets: a tuple belongs to one connection, which has acknowledged      *)
(* what it has.                                                              *)

PoolSizes == PoolSlots \subseteq Nat /\ Pool!Listener \in PoolSlots /\ Request \in Nat /\ RxBuffer \in Nat

Socket == [state : Pool!States, host : Machines, port : {Pool!Server, Pool!Client}, seq : Nat, ack : Nat,
           rx_len : 0 .. RxBuffer]

SocketTypes == sock \in [PoolSlots -> Socket] /\ poolGot \in [PoolSlots -> Nat]

\* One slot listens, for good.
OneListens == \A i \in PoolSlots : sock[i].state = "LISTENING" <=> i = Pool!Listener

\* Nothing is received before the SYN-ACK.
NothingEarly == \A i \in PoolSlots : sock[i].state = "SYN_SENT" => sock[i].rx_len = 0

SocketInv == SocketTypes /\ OneListens /\ NothingEarly /\ Pool!OneOwner /\ Pool!DataAcked

\* got' = Restarted: a connection that changed begins with nothing, so it is enough that it
\* is open with nothing received, or not open.
LEMMA RestartedTrue ==
  ASSUME SocketInv, sock' \in [PoolSlots -> Socket], poolGot' = Pool!Restarted,
         \A i \in PoolSlots : sock'[i] = sock[i] \/ sock'[i].state # "ESTABLISHED" \/ (sock'[i].ack = 1 /\ sock'[i].rx_len = 0)
  PROVE  SocketTypes' /\ Pool!DataAcked'
<1>1. poolGot' \in [PoolSlots -> Nat]
  BY DEF Pool!Restarted, SocketInv, SocketTypes
<1>2. \A i \in PoolSlots : poolGot'[i] = IF sock'[i] # sock[i] THEN 0 ELSE poolGot[i]
  BY DEF Pool!Restarted
<1>3. ASSUME NEW i \in PoolSlots, sock'[i].state = "ESTABLISHED"
      PROVE  sock'[i].ack = 1 + poolGot'[i] /\ sock'[i].rx_len <= poolGot'[i]
  <2>1. CASE sock'[i] = sock[i]
    BY <1>2, <1>3, <2>1 DEF SocketInv, Pool!DataAcked
  <2>2. CASE sock'[i] # sock[i]
    BY <1>2, <1>3, <2>2
  <2> QED
    BY <2>1, <2>2
<1> QED
  BY <1>1, <1>3 DEF SocketTypes, Pool!DataAcked

\* A step that ends connections, or moves them on with their tuples, gives no tuple two owners.
LEMMA OwnersStay ==
  ASSUME Pool!OneOwner, \A i \in PoolSlots : \/ sock'[i].state = "CLOSED"
                                             \/ /\ sock[i].state # "CLOSED"
                                                /\ sock'[i].host = sock[i].host /\ sock'[i].port = sock[i].port
  PROVE  Pool!OneOwner'
  BY DEF Pool!OneOwner, Pool!Used

LEMMA FreeType ==
  ASSUME PoolSizes, NEW s \in Socket
  PROVE  /\ Pool!Free(s) \in Socket /\ Pool!Free(s).state = "CLOSED" /\ Pool!Free(s).rx_len = 0
         /\ Pool!Free(s).host = s.host /\ Pool!Free(s).port = s.port
<1> DEFINE r == 0 .. RxBuffer
<1>1. "CLOSED" \in Pool!States /\ 0 \in r /\ Socket = [state : Pool!States, host : Machines,
          port : {Pool!Server, Pool!Client}, seq : Nat, ack : Nat, rx_len : r]
  BY DEF Pool!States, PoolSizes, Socket
<1> HIDE DEF r
<1> QED
  BY <1>1 DEF Pool!Free

\* alloc_socket(): the slot is free or closed from this side.
LEMMA ClaimParts ==
  ASSUME PoolSizes, NEW t \in [PoolSlots -> Socket], NEW s \in Socket
  PROVE  /\ Pool!Claim(t, s) \in [PoolSlots -> Socket]
         /\ \A i \in PoolSlots : \/ Pool!Claim(t, s)[i] = t[i]
                                 \/ Pool!Claim(t, s)[i] = s /\ t[i].state \in {"CLOSED", "FIN_WAIT"}
         /\ \A i, j \in PoolSlots : Pool!Claim(t, s)[i] # t[i] /\ Pool!Claim(t, s)[j] # t[j] => i = j
<1> DEFINE free == Pool!Allocatable(t)
           m == Pool!Min(free)
<1>1. CASE free = {}
  BY <1>1 DEF Pool!Claim
<1>2. CASE free # {}
  <2>1. free \subseteq PoolSlots /\ \A i \in free : t[i].state \in {"CLOSED", "FIN_WAIT"}
    BY DEF Pool!Allocatable
  <2>2. free \subseteq Nat
    BY <2>1 DEF PoolSizes
  <2>3. m \in free
    BY <1>2, <2>2, LeastExists DEF Pool!Min
  <2>4. Pool!Claim(t, s) = [t EXCEPT ![m] = s]
    BY <1>2 DEF Pool!Claim
  <2> HIDE DEF m, free
  <2> QED
    BY <2>1, <2>3, <2>4
<1> QED
  BY <1>1, <1>2

LEMMA FreshType ==
  ASSUME PoolSizes, NEW st \in Pool!States, NEW h \in Machines, NEW q \in {Pool!Server, Pool!Client}, NEW a \in Nat
  PROVE  /\ Pool!Fresh(st, h, q, a) \in Socket /\ Pool!Fresh(st, h, q, a).state = st /\ Pool!Fresh(st, h, q, a).rx_len = 0
         /\ Pool!Fresh(st, h, q, a).host = h /\ Pool!Fresh(st, h, q, a).port = q /\ Pool!Fresh(st, h, q, a).ack = a
  BY DEF Pool!Fresh, Socket, PoolSizes

\* Packets carry a host, a local port, a position and a length.
LEMMA PacketType ==
  ASSUME PoolSizes, NEW p \in Pool!Packets
  PROVE  p.host \in Machines /\ p.port \in {Pool!Server, Pool!Client} /\ p.seq \in Nat /\ p.len \in Nat
  BY DEF Pool!Packets, PoolSizes

\* The parts that follow from what a step does to each slot.
LEMMA SlotWise ==
  ASSUME SocketInv, \A i \in PoolSlots : \/ sock'[i] = sock[i]
                                         \/ /\ i # Pool!Listener /\ sock'[i].state # "LISTENING"
                                            /\ sock'[i].state = "SYN_SENT" => sock'[i].rx_len = 0
  PROVE  OneListens' /\ NothingEarly'
  BY DEF SocketInv, OneListens, NothingEarly

\* SYN: what owned the tuple is gone before the tuple has a new owner.
LEMMA SynStep == ASSUME PoolSizes, SocketInv, NEW p \in Pool!Packets, Pool!OnSyn(p) PROVE SocketInv'
<1> DEFINE old == Pool!Duplicates(p)
           quiet == {i \in old : /\ sock[i].state = "ESTABLISHED"
                                 /\ sock[i].seq <= 1 /\ sock[i].rx_len = 0}
           t == [i \in PoolSlots |-> IF i \in old THEN Pool!Free(sock[i]) ELSE sock[i]]
           s == Pool!Fresh("ESTABLISHED", p.host, Pool!Server, 1)
<1>1. /\ sock' = IF quiet # {}
                 THEN [i \in PoolSlots |-> IF i \in quiet THEN [sock[i] EXCEPT !.ack = 1] ELSE sock[i]]
                 ELSE Pool!Claim(t, s)
      /\ poolGot' = Pool!Restarted /\ p.port = Pool!Server
  BY DEF Pool!OnSyn
<1>2. sock \in [PoolSlots -> Socket] /\ Pool!OneOwner /\ OneListens
  BY DEF SocketInv, SocketTypes
<1>3. old \subseteq PoolSlots \ {Pool!Listener} /\ \A i \in PoolSlots \ {Pool!Listener} :
          i \notin old => sock[i].state = "CLOSED" \/ sock[i].port # Pool!Server \/ sock[i].host # p.host
  BY <1>1 DEF Pool!Duplicates, Pool!Matches, Pool!Used
<1> HIDE DEF old
<1>4. CASE quiet # {}
  <2>1. sock' = [i \in PoolSlots |-> IF i \in quiet THEN [sock[i] EXCEPT !.ack = 1] ELSE sock[i]]
    BY <1>1, <1>4
  <2>2. ASSUME NEW i \in quiet
        PROVE  /\ [sock[i] EXCEPT !.ack = 1] \in Socket /\ [sock[i] EXCEPT !.ack = 1].ack = 1
               /\ [sock[i] EXCEPT !.ack = 1].rx_len = 0 /\ [sock[i] EXCEPT !.ack = 1].state = "ESTABLISHED"
               /\ [sock[i] EXCEPT !.ack = 1].host = sock[i].host /\ [sock[i] EXCEPT !.ack = 1].port = sock[i].port
    <3>1. sock[i] \in Socket
      BY <1>2, <1>3
    <3> QED
      BY <3>1 DEF Socket
  <2>3. sock' \in [PoolSlots -> Socket]
    BY <1>2, <2>1, <2>2
  <2>4. \A i \in PoolSlots : \/ sock'[i] = sock[i]
                             \/ /\ i # Pool!Listener /\ sock[i].state = "ESTABLISHED"
                                /\ sock'[i].state = "ESTABLISHED" /\ sock'[i].ack = 1 /\ sock'[i].rx_len = 0
                                /\ sock'[i].host = sock[i].host /\ sock'[i].port = sock[i].port
    BY <1>3, <2>1, <2>2
  <2>5. SocketTypes' /\ Pool!DataAcked'
    BY <1>1, <2>3, <2>4, RestartedTrue
  <2>6. OneListens' /\ NothingEarly'
    BY <2>4, SlotWise
  <2>7. Pool!OneOwner'
    BY <1>2, <2>4, OwnersStay
  <2> QED
    BY <2>5, <2>6, <2>7 DEF SocketInv
<1>5. CASE quiet = {}
  <2>1. sock' = Pool!Claim(t, s)
    BY <1>1, <1>5
  <2>2. /\ s \in Socket /\ s.state = "ESTABLISHED" /\ s.rx_len = 0 /\ s.ack = 1 /\ s.host = p.host /\ s.port = Pool!Server
    <3>1. "ESTABLISHED" \in Pool!States /\ 1 \in Nat /\ p.host \in Machines
      BY PacketType DEF Pool!States
    <3> QED
      BY <3>1, FreshType
  <2>3. \A i \in PoolSlots : t[i] \in Socket /\ ((t[i] = sock[i] /\ i \notin old) \/ (t[i].state = "CLOSED" /\ i \in old))
    BY <1>2, FreeType
  <2>4. t \in [PoolSlots -> Socket]
    BY <2>3
  <2> HIDE DEF s, t, quiet
  <2>5. /\ sock' \in [PoolSlots -> Socket]
        /\ \A i \in PoolSlots : sock'[i] = t[i] \/ (sock'[i] = s /\ t[i].state \in {"CLOSED", "FIN_WAIT"})
        /\ \A i, j \in PoolSlots : sock'[i] # t[i] /\ sock'[j] # t[j] => i = j
    <3>1. s \in Socket
      BY <2>2
    <3>2. /\ Pool!Claim(t, s) \in [PoolSlots -> Socket]
          /\ \A i \in PoolSlots : \/ Pool!Claim(t, s)[i] = t[i]
                                  \/ Pool!Claim(t, s)[i] = s /\ t[i].state \in {"CLOSED", "FIN_WAIT"}
          /\ \A i, j \in PoolSlots : Pool!Claim(t, s)[i] # t[i] /\ Pool!Claim(t, s)[j] # t[j] => i = j
      BY <2>4, <3>1, ClaimParts
    <3> QED
      BY <2>1, <3>2
  <2>6. \A i \in PoolSlots : \/ sock'[i] = sock[i]
                             \/ i # Pool!Listener /\ (sock'[i] = s \/ sock'[i].state = "CLOSED")
    BY <1>2, <1>3, <2>3, <2>5 DEF OneListens
  <2>7. SocketTypes' /\ Pool!DataAcked'
    BY <1>1, <2>2, <2>5, <2>6, RestartedTrue
  <2>8. OneListens' /\ NothingEarly'
    BY <2>2, <2>6, SlotWise
  <2>9. ASSUME NEW i \in PoolSlots \ {Pool!Listener}, NEW j \in PoolSlots \ {Pool!Listener}, i # j,
               sock'[i].state # "CLOSED", sock'[j].state # "CLOSED"
        PROVE  sock'[i].host # sock'[j].host \/ sock'[i].port # sock'[j].port
    <3>1. CASE sock'[i] = t[i] /\ sock'[j] = t[j]
      BY <1>2, <2>3, <2>9, <3>1 DEF Pool!OneOwner, Pool!Used
    <3>2. CASE sock'[i] = s /\ sock'[j] = t[j]
      BY <1>3, <2>2, <2>3, <2>9, <3>2
    <3>3. CASE sock'[j] = s /\ sock'[i] = t[i]
      BY <1>3, <2>2, <2>3, <2>9, <3>3
    <3> QED
      BY <2>5, <2>9, <3>1, <3>2, <3>3
  <2>10. Pool!OneOwner'
    BY <2>9 DEF Pool!OneOwner, Pool!Used
  <2> QED
    BY <2>7, <2>8, <2>10 DEF SocketInv
<1> QED
  BY <1>4, <1>5

\* A step at one slot that leaves it with its tuple, or ends it.
LEMMA OneSlotStep ==
  ASSUME SocketInv, NEW i \in PoolSlots \ {Pool!Listener}, NEW s \in Socket, sock' = [sock EXCEPT ![i] = s],
         s.state = "CLOSED" \/ (sock[i].state # "CLOSED" /\ s.host = sock[i].host /\ s.port = sock[i].port),
         s.state # "LISTENING", s.state = "SYN_SENT" => s.rx_len = 0,
         \/ poolGot' = Pool!Restarted /\ (s.state = "ESTABLISHED" => s.ack = 1 /\ s.rx_len = 0)
         \/ /\ poolGot' \in [PoolSlots -> Nat] /\ \A j \in PoolSlots \ {i} : poolGot'[j] = poolGot[j]
            /\ s.state = "ESTABLISHED" => s.ack = 1 + poolGot'[i] /\ s.rx_len <= poolGot'[i]
  PROVE  SocketInv'
<1>1. sock' \in [PoolSlots -> Socket] /\ sock'[i] = s /\ \A j \in PoolSlots \ {i} : sock'[j] = sock[j]
  BY DEF SocketInv, SocketTypes
<1>2. OneListens' /\ NothingEarly'
  BY <1>1, SlotWise
<1>3. Pool!OneOwner'
  BY <1>1 DEF SocketInv, Pool!OneOwner, Pool!Used
<1>4. CASE poolGot' = Pool!Restarted /\ (s.state = "ESTABLISHED" => s.ack = 1 /\ s.rx_len = 0)
  <2>1. SocketTypes' /\ Pool!DataAcked'
    BY <1>1, <1>4, RestartedTrue
  <2> QED
    BY <1>2, <1>3, <2>1 DEF SocketInv
<1>5. CASE /\ poolGot' \in [PoolSlots -> Nat] /\ \A j \in PoolSlots \ {i} : poolGot'[j] = poolGot[j]
           /\ s.state = "ESTABLISHED" => s.ack = 1 + poolGot'[i] /\ s.rx_len <= poolGot'[i]
  <2>1. SocketTypes' /\ Pool!DataAcked'
    BY <1>1, <1>5 DEF SocketInv, SocketTypes, Pool!DataAcked
  <2> QED
    BY <1>2, <1>3, <2>1 DEF SocketInv
<1> QED
  BY <1>4, <1>5

\* Socket e is s with this state, acknowledgment and buffer.
Becomes(e, s, st, a, n) ==
    e \in Socket /\ e.host = s.host /\ e.port = s.port /\ e.state = st /\ e.ack = a /\ e.rx_len = n

LEMMA Changed ==
  ASSUME NEW s \in Socket, NEW st \in Pool!States, NEW q \in Nat, NEW a \in Nat, NEW n \in 0 .. RxBuffer
  PROVE  /\ Becomes([s EXCEPT !.ack = a], s, s.state, a, s.rx_len)
         /\ Becomes([s EXCEPT !.state = st], s, st, s.ack, s.rx_len)
         /\ Becomes([s EXCEPT !.state = st, !.ack = a], s, st, a, s.rx_len)
         /\ Becomes([s EXCEPT !.rx_len = n, !.ack = a], s, s.state, a, n)
         /\ Becomes([s EXCEPT !.rx_len = n], s, s.state, s.ack, n)
         /\ Becomes([s EXCEPT !.seq = q], s, s.state, s.ack, s.rx_len)
         /\ Becomes([s EXCEPT !.state = st, !.seq = q], s, st, s.ack, s.rx_len)
<1> DEFINE b == 0 .. RxBuffer
           ports == {Pool!Server, Pool!Client}
<1>1. Socket = [state : Pool!States, host : Machines, port : ports, seq : Nat, ack : Nat, rx_len : b] /\ n \in b
  BY DEF Socket
<1> HIDE DEF b, ports
<1> QED
  BY <1>1 DEF Becomes

LEMMA OpeningStep ==
  ASSUME PoolSizes, SocketInv, NEW i \in PoolSlots, NEW p, Pool!OnSynSent(i, p) \/ Pool!OnFinWait(i, p) PROVE SocketInv'
<1>1. /\ i \in PoolSlots \ {Pool!Listener} /\ sock[i] \in Socket /\ sock \in [PoolSlots -> Socket]
      /\ sock[i].state \in {"SYN_SENT", "FIN_WAIT"} /\ poolGot' = Pool!Restarted
      /\ sock[i].state = "SYN_SENT" => sock[i].rx_len = 0
  BY DEF Pool!OnSynSent, Pool!OnFinWait, SocketInv, SocketTypes, OneListens, NothingEarly
<1>2. 0 \in Nat /\ 1 \in Nat /\ "ESTABLISHED" \in Pool!States /\ 0 \in 0 .. RxBuffer
  BY DEF Pool!States, PoolSizes
<1>3. CASE sock' = [sock EXCEPT ![i] = Pool!Free(@)]
  <2>1. sock' = [sock EXCEPT ![i] = Pool!Free(sock[i])]
    BY <1>3
  <2>2. Pool!Free(sock[i]) \in Socket /\ Pool!Free(sock[i]).state = "CLOSED"
    BY <1>1, FreeType
  <2> QED
    BY <1>1, <2>1, <2>2, OneSlotStep
<1>4. CASE sock' = [sock EXCEPT ![i].ack = 0] /\ sock[i].state = "SYN_SENT"
  <2> DEFINE e == [sock[i] EXCEPT !.ack = 0]
  <2>1. Becomes(e, sock[i], "SYN_SENT", 0, 0)
    BY <1>1, <1>2, <1>4, Changed
  <2>2. sock' = [sock EXCEPT ![i] = e]
    BY <1>4
  <2> HIDE DEF e
  <2> QED
    BY <1>1, <1>4, <2>1, <2>2, OneSlotStep DEF Becomes
<1>5. CASE sock' = [sock EXCEPT ![i].state = "ESTABLISHED", ![i].ack = 1] /\ sock[i].state = "SYN_SENT"
  <2> DEFINE e == [sock[i] EXCEPT !.state = "ESTABLISHED", !.ack = 1]
  <2>1. Becomes(e, sock[i], "ESTABLISHED", 1, 0)
    BY <1>1, <1>2, <1>5, Changed
  <2>2. sock' = [sock EXCEPT ![i] = e]
    BY <1>1, <1>5
  <2> HIDE DEF e
  <2> QED
    BY <1>1, <1>5, <2>1, <2>2, OneSlotStep DEF Becomes
<1> QED
  BY <1>3, <1>4, <1>5 DEF Pool!OnSynSent, Pool!OnFinWait

\* Data and FIN: the buffer takes what fits, and ack_num follows what it took.
LEMMA TakesBounds ==
  ASSUME PoolSizes, NEW s \in Socket, NEW p, p.len \in Nat
  PROVE  Pool!Takes(s, p) \in Nat /\ s.rx_len + Pool!Takes(s, p) \in 0 .. RxBuffer
<1>1. s.rx_len \in 0 .. RxBuffer
  BY DEF Socket
<1>2. \E x \in {p.len, RxBuffer - s.rx_len} : \A y \in {p.len, RxBuffer - s.rx_len} : x <= y
  <2>1. p.len <= RxBuffer - s.rx_len \/ RxBuffer - s.rx_len <= p.len
    BY <1>1 DEF PoolSizes
  <2> QED
    BY <1>1, <2>1 DEF PoolSizes
<1>3. LET m == Pool!Min({p.len, RxBuffer - s.rx_len}) IN m \in {p.len, RxBuffer - s.rx_len} /\ m <= p.len /\ m <= RxBuffer - s.rx_len
  BY <1>2 DEF Pool!Min
<1>4. LET m == Pool!Min({p.len, RxBuffer - s.rx_len}) IN m \in Nat /\ s.rx_len + m \in 0 .. RxBuffer
  BY <1>1, <1>3 DEF PoolSizes
<1> QED
  BY <1>1, <1>4 DEF Pool!Takes

LEMMA OpenStep ==
  ASSUME PoolSizes, SocketInv, NEW i \in PoolSlots, NEW p \in Pool!Packets, Pool!OnOpen(i, p) PROVE SocketInv'
<1> DEFINE take == Pool!Takes(sock[i], p)
           taken_ == [sock[i] EXCEPT !.rx_len = @ + take, !.ack = @ + Pool!Acks(sock[i], p)]
           fin == Pool!AfterFin([taken_ EXCEPT !.ack = p.seq + p.len + 1])
           e == IF p.flag = "RST" THEN Pool!Free(sock[i]) ELSE IF p.flag = "FIN" THEN fin ELSE taken_
<1>1. /\ i \in PoolSlots \ {Pool!Listener} /\ sock[i] \in Socket /\ sock \in [PoolSlots -> Socket]
      /\ sock[i].state \in {"ESTABLISHED", "CLOSE_WAIT"} /\ poolGot \in [PoolSlots -> Nat]
      /\ sock[i].state = "ESTABLISHED" => sock[i].ack = 1 + poolGot[i] /\ sock[i].rx_len <= poolGot[i]
  BY DEF Pool!OnOpen, SocketInv, SocketTypes, OneListens, Pool!DataAcked
<1>2. /\ sock' = [sock EXCEPT ![i] = e]
      /\ poolGot' = IF sock'[i].state = "CLOSED" THEN Pool!Restarted
                    ELSE [poolGot EXCEPT ![i] = @ + take]
  BY <1>1 DEF Pool!OnOpen
<1>3. take \in Nat /\ sock[i].rx_len + take \in 0 .. RxBuffer /\ p.seq + p.len + 1 \in Nat /\ Pool!Acks(sock[i], p) = take
  <2>1. p.len \in Nat /\ p.seq \in Nat
    BY SMTT(60), PacketType
  <2> QED
    BY <1>1, <2>1, TakesBounds DEF Pool!Acks
<1> HIDE DEF take
<1>4. Becomes(taken_, sock[i], sock[i].state, sock[i].ack + take, sock[i].rx_len + take)
  <2>1. sock[i].ack + take \in Nat /\ sock[i].state \in Pool!States
    BY <1>1, <1>3 DEF Socket
  <2> QED
    BY <1>1, <1>3, <2>1, Changed
<1>5. fin \in Socket /\ (fin.state = "CLOSED" \/ (fin.state = "CLOSE_WAIT" /\ fin.host = sock[i].host /\ fin.port = sock[i].port))
  <2> DEFINE f == [taken_ EXCEPT !.ack = p.seq + p.len + 1]
  <2> HIDE DEF taken_
  <2>1. Becomes(f, taken_, taken_.state, p.seq + p.len + 1, taken_.rx_len)
    BY <1>1, <1>3, <1>4, Changed DEF Becomes, Socket
  <2>2. "CLOSE_WAIT" \in Pool!States /\ f \in Socket
    BY SMTT(60), <2>1 DEF Pool!States, Becomes
  <2> HIDE DEF f
  <2>3. Becomes([f EXCEPT !.state = "CLOSE_WAIT"], f, "CLOSE_WAIT", f.ack, f.rx_len)
    BY <2>2, Changed DEF Socket
  <2>4. Pool!Free(f) \in Socket /\ Pool!Free(f).state = "CLOSED"
    BY <2>2, FreeType
  <2> QED
    BY <1>4, <2>1, <2>3, <2>4 DEF Pool!AfterFin, Becomes, f
<1> HIDE DEF fin, taken_
<1>6. /\ e \in Socket
      /\ e.state = "CLOSED" \/ (e.state \in {"ESTABLISHED", "CLOSE_WAIT"} /\ e.host = sock[i].host /\ e.port = sock[i].port)
      /\ e.state = "ESTABLISHED" => /\ e.ack = sock[i].ack + take /\ e.rx_len = sock[i].rx_len + take
                                    /\ sock[i].state = "ESTABLISHED"
  BY <1>1, <1>4, <1>5, FreeType DEF Becomes
<1> HIDE DEF e
<1>7. sock'[i] = e
  BY <1>1, <1>2
<1>8. CASE e.state = "CLOSED"
  BY <1>1, <1>2, <1>6, <1>7, <1>8, OneSlotStep
<1>9. CASE e.state # "CLOSED"
  <2>1. poolGot' = [poolGot EXCEPT ![i] = @ + take]
    BY <1>2, <1>7, <1>9
  <2>2. /\ poolGot' \in [PoolSlots -> Nat] /\ poolGot'[i] = poolGot[i] + take
        /\ \A j \in PoolSlots \ {i} : poolGot'[j] = poolGot[j]
    BY <1>1, <1>3, <2>1
  <2>3. e.state = "ESTABLISHED" => e.ack = 1 + poolGot'[i] /\ e.rx_len <= poolGot'[i]
    BY <1>1, <1>3, <1>6, <2>2 DEF Socket
  <2> QED
    BY <1>1, <1>2, <1>6, <1>9, <2>2, <2>3, OneSlotStep
<1> QED
  BY <1>8, <1>9

\* tcp_connect(): its port is nobody's.
LEMMA ConnectingStep == ASSUME PoolSizes, SocketInv, NEW h \in Machines, Pool!Connect(h) PROVE SocketInv'
<1> DEFINE s == Pool!Fresh("SYN_SENT", h, Pool!Client, 0)
<1>1. /\ sock' = Pool!Claim(sock, s) /\ poolGot' = Pool!Restarted /\ sock \in [PoolSlots -> Socket]
      /\ \A i \in PoolSlots : sock[i].state # "CLOSED" => sock[i].port # Pool!Client
  BY DEF Pool!Connect, Pool!Used, SocketInv, SocketTypes
<1>2. s \in Socket /\ s.state = "SYN_SENT" /\ s.rx_len = 0 /\ s.port = Pool!Client
  <2>1. "SYN_SENT" \in Pool!States /\ 0 \in Nat
    BY DEF Pool!States
  <2> QED
    BY <2>1, FreshType
<1> HIDE DEF s
<1>3. /\ sock' \in [PoolSlots -> Socket]
      /\ \A i \in PoolSlots : sock'[i] = sock[i] \/ (sock'[i] = s /\ sock[i].state \in {"CLOSED", "FIN_WAIT"})
      /\ \A i, j \in PoolSlots : sock'[i] # sock[i] /\ sock'[j] # sock[j] => i = j
  <2>1. s \in Socket /\ sock \in [PoolSlots -> Socket]
    BY <1>1, <1>2
  <2>2. /\ Pool!Claim(sock, s) \in [PoolSlots -> Socket]
        /\ \A i \in PoolSlots : \/ Pool!Claim(sock, s)[i] = sock[i]
                                \/ Pool!Claim(sock, s)[i] = s /\ sock[i].state \in {"CLOSED", "FIN_WAIT"}
        /\ \A i, j \in PoolSlots : Pool!Claim(sock, s)[i] # sock[i] /\ Pool!Claim(sock, s)[j] # sock[j] => i = j
    BY <2>1, ClaimParts
  <2> QED
    BY <1>1, <2>2
<1>4. \A i \in PoolSlots : sock'[i] = sock[i] \/ (sock'[i] = s /\ i # Pool!Listener)
  BY <1>3 DEF SocketInv, OneListens
<1>5. SocketTypes' /\ Pool!DataAcked'
  BY <1>1, <1>2, <1>3, <1>4, RestartedTrue
<1>6. OneListens' /\ NothingEarly'
  BY <1>2, <1>4, SlotWise
<1>7. Pool!OneOwner'
  BY <1>1, <1>2, <1>3 DEF SocketInv, Pool!OneOwner, Pool!Used
<1> QED
  BY <1>5, <1>6, <1>7 DEF SocketInv

LEMMA UseStep ==
  ASSUME PoolSizes, SocketInv, NEW i \in PoolSlots, Pool!Read(i) \/ Pool!Write(i) \/ Pool!Close(i) PROVE SocketInv'
<1>1. /\ i \in PoolSlots \ {Pool!Listener} /\ sock[i] \in Socket /\ sock \in [PoolSlots -> Socket] /\ sock[i].state # "CLOSED"
      /\ sock[i].state # "LISTENING" /\ poolGot \in [PoolSlots -> Nat]
      /\ sock[i].state = "ESTABLISHED" => sock[i].ack = 1 + poolGot[i] /\ sock[i].rx_len <= poolGot[i]
  BY DEF Pool!Read, Pool!Write, Pool!Close, SocketInv, SocketTypes, OneListens, Pool!DataAcked
<1>2. 2 \in Nat /\ 0 \in 0 .. RxBuffer /\ "FIN_WAIT" \in Pool!States /\ sock[i].state \in Pool!States
  BY <1>1 DEF PoolSizes, Pool!States, Socket
<1>3. CASE Pool!Read(i)
  <2> DEFINE e == [sock[i] EXCEPT !.rx_len = 0]
  <2>1. sock' = [sock EXCEPT ![i] = e] /\ poolGot' = poolGot /\ sock[i].state \in {"ESTABLISHED", "CLOSE_WAIT"}
    BY SMTT(60), <1>3 DEF Pool!Read
  <2>2. Becomes(e, sock[i], sock[i].state, sock[i].ack, 0)
    BY <1>1, <1>2, Changed
  <2> HIDE DEF e
  <2>3. /\ poolGot' \in [PoolSlots -> Nat] /\ \A j \in PoolSlots \ {i} : poolGot'[j] = poolGot[j]
        /\ e.state = "ESTABLISHED" => e.ack = 1 + poolGot'[i] /\ e.rx_len <= poolGot'[i]
    BY <1>1, <2>1, <2>2 DEF Becomes
  <2> QED
    BY <1>1, <2>1, <2>2, <2>3, OneSlotStep DEF Becomes
<1>4. CASE Pool!Write(i)
  <2> DEFINE e == [sock[i] EXCEPT !.seq = 2]
  <2>1. sock' = [sock EXCEPT ![i] = e] /\ poolGot' = poolGot /\ sock[i].state \in {"ESTABLISHED", "CLOSE_WAIT"}
    BY SMTT(60), <1>4 DEF Pool!Write
  <2>2. Becomes(e, sock[i], sock[i].state, sock[i].ack, sock[i].rx_len)
    BY <1>1, <1>2, Changed
  <2> HIDE DEF e
  <2> QED
    BY <1>1, <2>1, <2>2, OneSlotStep DEF Becomes
<1>5. CASE Pool!Close(i)
  <2> DEFINE w == [sock[i] EXCEPT !.state = "FIN_WAIT", !.seq = 2]
             e == IF sock[i].state = "SYN_SENT" THEN Pool!Free(sock[i]) ELSE w
  <2>1. sock' = [sock EXCEPT ![i] = e] /\ poolGot' = Pool!Restarted
    BY <1>5 DEF Pool!Close
  <2>2. Becomes(w, sock[i], "FIN_WAIT", sock[i].ack, sock[i].rx_len) /\ Pool!Free(sock[i]) \in Socket /\ Pool!Free(sock[i]).state = "CLOSED"
    BY <1>1, <1>2, Changed, FreeType
  <2> HIDE DEF w
  <2>3. e \in Socket /\ (e.state = "CLOSED" \/ (e.state = "FIN_WAIT" /\ e.host = sock[i].host /\ e.port = sock[i].port))
    BY <2>2 DEF Becomes
  <2> HIDE DEF e
  <2> QED
    BY <1>1, <2>1, <2>3, OneSlotStep
<1> QED
  BY <1>3, <1>4, <1>5

LEMMA ReapStep == ASSUME PoolSizes, SocketInv, NEW idle \in SUBSET Pool!Reapable, Pool!Reap(idle) PROVE SocketInv'
<1>1. /\ sock' = [i \in PoolSlots |-> IF i \in idle THEN Pool!Free(sock[i]) ELSE sock[i]] /\ poolGot' = Pool!Restarted
      /\ sock \in [PoolSlots -> Socket]
  BY DEF Pool!Reap, SocketInv, SocketTypes
<1>2. \A i \in PoolSlots : sock'[i] \in Socket /\ (sock'[i] = sock[i] \/ (sock'[i].state = "CLOSED" /\ i # Pool!Listener))
  BY <1>1, FreeType DEF Pool!Reapable
<1>3. sock' \in [PoolSlots -> Socket]
  BY <1>1, <1>2
<1>4. SocketTypes' /\ Pool!DataAcked'
  BY <1>1, <1>2, <1>3, RestartedTrue
<1>5. OneListens' /\ NothingEarly'
  BY <1>2, SlotWise
<1>6. Pool!OneOwner'
  BY <1>2 DEF SocketInv, Pool!OneOwner, Pool!Used
<1> QED
  BY <1>4, <1>5, <1>6 DEF SocketInv

LEMMA SocketInit == ASSUME PoolSizes, Pool!Init PROVE SocketInv
<1>1. PICK h \in Machines :
        sock = [i \in PoolSlots |-> [Pool!Fresh("CLOSED", h, Pool!Server, 0) EXCEPT
                                    !.state = IF i = Pool!Listener THEN "LISTENING" ELSE "CLOSED"]]
  BY DEF Pool!Init
<1>2. ASSUME NEW i \in PoolSlots
      PROVE  /\ sock[i] \in Socket /\ sock[i].state = (IF i = Pool!Listener THEN "LISTENING" ELSE "CLOSED")
  <2> DEFINE st == IF i = Pool!Listener THEN "LISTENING" ELSE "CLOSED"
             f == Pool!Fresh("CLOSED", h, Pool!Server, 0)
  <2>1. st \in Pool!States /\ "CLOSED" \in Pool!States /\ 0 \in Nat /\ 0 \in 0 .. RxBuffer
    BY DEF Pool!States, PoolSizes
  <2>2. f \in Socket /\ sock[i] = [f EXCEPT !.state = st]
    BY SMTT(60), <1>1, <2>1, FreshType
  <2> HIDE DEF f, st
  <2>3. Becomes([f EXCEPT !.state = st], f, st, f.ack, f.rx_len)
    BY <2>1, <2>2, Changed DEF Socket
  <2> QED
    BY <2>2, <2>3 DEF Becomes, st
<1>3. SocketTypes
  BY <1>1, <1>2 DEF SocketTypes, Pool!Init
<1>4. OneListens /\ NothingEarly /\ Pool!OneOwner /\ Pool!DataAcked
  BY <1>2 DEF OneListens, NothingEarly, Pool!OneOwner, Pool!Used, Pool!DataAcked
<1> QED
  BY <1>3, <1>4 DEF SocketInv

LEMMA SocketStep == ASSUME PoolSizes, SocketInv, [Pool!Next]_Pool!vars PROVE SocketInv'
<1>1. ASSUME NEW p \in Pool!Packets, Pool!Receive(p) PROVE SocketInv'
  BY <1>1, SynStep, OpeningStep, OpenStep DEF Pool!Receive
<1>2. ASSUME Pool!Application PROVE SocketInv'
  BY <1>2, ConnectingStep, UseStep, ReapStep DEF Pool!Application
<1>3. ASSUME UNCHANGED Pool!vars PROVE SocketInv'
  BY <1>3 DEF Pool!vars, SocketInv, SocketTypes, OneListens, NothingEarly, Pool!OneOwner, Pool!Used, Pool!DataAcked
<1> QED
  BY <1>1, <1>2, <1>3 DEF Pool!Next

LEMMA SocketsKept == ASSUME PoolSizes, SocketInv, Pool!Next PROVE Pool!LiveNotEvicted /\ Pool!UnreadKept
<1>0. sock \in [PoolSlots -> Socket] /\ OneListens
  BY DEF SocketInv, SocketTypes
<1>1. ASSUME NEW p \in Pool!Packets, Pool!OnSyn(p) PROVE Pool!LiveNotEvicted /\ Pool!UnreadKept
  <2> DEFINE old == Pool!Duplicates(p)
             quiet == {i \in old : /\ sock[i].state = "ESTABLISHED"
                                   /\ sock[i].seq <= 1 /\ sock[i].rx_len = 0}
             t == [i \in PoolSlots |-> IF i \in old THEN Pool!Free(sock[i]) ELSE sock[i]]
             s == Pool!Fresh("ESTABLISHED", p.host, Pool!Server, 1)
  <2>1. /\ sock' = IF quiet # {}
                   THEN [i \in PoolSlots |-> IF i \in quiet THEN [sock[i] EXCEPT !.ack = 1] ELSE sock[i]]
                   ELSE Pool!Claim(t, s)
        /\ event' \in {"REPEAT", "SYN"} /\ p.port = Pool!Server
    BY <1>1 DEF Pool!OnSyn
  <2>2. old \subseteq PoolSlots /\ \A i \in old : sock[i].port = Pool!Server /\ sock[i].host = p.host
    BY <2>1 DEF Pool!Duplicates, Pool!Matches
  <2>3. Pool!UnreadKept
    BY <2>1 DEF Pool!UnreadKept
  <2> HIDE DEF old
  <2>4. CASE quiet # {}
    <3>1. \A i \in PoolSlots : sock'[i].host = sock[i].host /\ sock'[i].port = sock[i].port
      <4>1. ASSUME NEW i \in PoolSlots PROVE Becomes([sock[i] EXCEPT !.ack = 1], sock[i], sock[i].state, 1, sock[i].rx_len)
        <5>1. sock[i] \in Socket /\ 1 \in Nat /\ sock[i].state \in Pool!States /\ 0 \in 0 .. RxBuffer
          BY <1>0 DEF Socket, PoolSizes
        <5> QED
          BY <5>1, Changed
      <4> QED
        BY SMTT(60), <2>1, <2>4, <4>1 DEF Becomes
    <3> QED
      BY <2>3, <3>1 DEF Pool!LiveNotEvicted
  <2>5. CASE quiet = {}
    <3>1. s \in Socket /\ s.host = p.host /\ s.port = Pool!Server
      <4>1. "ESTABLISHED" \in Pool!States /\ 1 \in Nat /\ p.host \in Machines
        BY PacketType DEF Pool!States
      <4> QED
        BY <4>1, FreshType
    <3>2. \A i \in PoolSlots : t[i] \in Socket /\ ((t[i] = sock[i] /\ i \notin old) \/ (t[i].state = "CLOSED" /\ i \in old))
      BY <1>0, FreeType
    <3>3. t \in [PoolSlots -> Socket] /\ s \in Socket
      BY <3>1, <3>2
    <3> HIDE DEF s, t
    <3>4. \A i \in PoolSlots : \/ Pool!Claim(t, s)[i] = t[i]
                               \/ Pool!Claim(t, s)[i] = s /\ t[i].state \in {"CLOSED", "FIN_WAIT"}
      BY <3>3, ClaimParts
    <3>5. \A i \in PoolSlots : sock'[i] = t[i] \/ (sock'[i] = s /\ t[i].state \in {"CLOSED", "FIN_WAIT"})
      BY <2>1, <2>5, <3>4
    <3> QED
      BY <2>2, <2>3, <3>1, <3>2, <3>5 DEF Pool!LiveNotEvicted
  <2> QED
    BY <2>4, <2>5
<1>2. ASSUME NEW i \in PoolSlots, NEW p \in Pool!Packets, Pool!OnSynSent(i, p) \/ Pool!OnFinWait(i, p)
      PROVE  Pool!LiveNotEvicted /\ Pool!UnreadKept
  <2>1. /\ sock[i] \in Socket /\ sock[i].state \in {"SYN_SENT", "FIN_WAIT"} /\ 0 \in Nat /\ 1 \in Nat
        /\ sock[i].state = "SYN_SENT" => sock[i].rx_len = 0
    BY <1>0, <1>2 DEF Pool!OnSynSent, Pool!OnFinWait, SocketInv, NothingEarly
  <2>2. \E e : sock' = [sock EXCEPT ![i] = e] /\ (e.state = "CLOSED" \/ (e.host = sock[i].host /\ e.port = sock[i].port))
    <3>0. "ESTABLISHED" \in Pool!States /\ sock[i].state \in Pool!States /\ 0 \in 0 .. RxBuffer
      BY <2>1 DEF Pool!States, Socket, PoolSizes
    <3>1. /\ Becomes([sock[i] EXCEPT !.ack = 0], sock[i], sock[i].state, 0, sock[i].rx_len)
          /\ Becomes([sock[i] EXCEPT !.state = "ESTABLISHED", !.ack = 1], sock[i], "ESTABLISHED", 1, sock[i].rx_len)
          /\ Pool!Free(sock[i]).state = "CLOSED"
      BY <2>1, <3>0, Changed, FreeType
    <3>2. \/ sock' = [sock EXCEPT ![i] = Pool!Free(sock[i])] \/ sock' = [sock EXCEPT ![i] = [sock[i] EXCEPT !.ack = 0]]
          \/ sock' = [sock EXCEPT ![i] = [sock[i] EXCEPT !.state = "ESTABLISHED", !.ack = 1]]
      BY <1>0, <1>2 DEF Pool!OnSynSent, Pool!OnFinWait
    <3> QED
      BY <3>1, <3>2 DEF Becomes
  <2>3. \A j \in PoolSlots \ {i} : sock'[j] = sock[j]
    BY <1>0, <2>2
  <2>4. \A j \in PoolSlots : sock[j].rx_len \in 0 .. RxBuffer
    BY <1>0 DEF Socket
  <2> QED
    BY <1>0, <2>1, <2>2, <2>3, <2>4 DEF Pool!LiveNotEvicted, Pool!UnreadKept
<1>3. ASSUME NEW i \in PoolSlots, NEW p \in Pool!Packets, Pool!OnOpen(i, p) PROVE Pool!LiveNotEvicted /\ Pool!UnreadKept
  <2> DEFINE take == Pool!Takes(sock[i], p)
             taken_ == [sock[i] EXCEPT !.rx_len = @ + take, !.ack = @ + Pool!Acks(sock[i], p)]
             f == [taken_ EXCEPT !.ack = p.seq + p.len + 1]
             e == IF p.flag = "RST" THEN Pool!Free(sock[i]) ELSE IF p.flag = "FIN" THEN Pool!AfterFin(f) ELSE taken_
  <2>1. sock' = [sock EXCEPT ![i] = e] /\ event' = p.flag
    BY <1>0, <1>3 DEF Pool!OnOpen
  <2>2. /\ take \in Nat /\ sock[i].rx_len + take \in 0 .. RxBuffer /\ p.seq + p.len + 1 \in Nat
        /\ Pool!Acks(sock[i], p) = take /\ sock[i] \in Socket
    <3>1. p.len \in Nat /\ p.seq \in Nat /\ sock[i] \in Socket
      BY SMTT(60), <1>0, PacketType
    <3> QED
      BY <3>1, TakesBounds DEF Pool!Acks
  <2> HIDE DEF take
  <2>3. Becomes(taken_, sock[i], sock[i].state, sock[i].ack + take, sock[i].rx_len + take)
    <3>1. sock[i].ack + take \in Nat /\ sock[i].state \in Pool!States
      BY <2>2 DEF Socket
    <3> QED
      BY <2>2, <3>1, Changed
  <2> HIDE DEF taken_
  <2>4. Becomes(f, taken_, taken_.state, p.seq + p.len + 1, taken_.rx_len)
    BY <2>2, <2>3, Changed DEF Becomes, Socket
  <2>5. "CLOSE_WAIT" \in Pool!States /\ f \in Socket
    BY SMTT(60), <2>4 DEF Pool!States, Becomes
  <2> HIDE DEF f
  <2>6. Becomes([f EXCEPT !.state = "CLOSE_WAIT"], f, "CLOSE_WAIT", f.ack, f.rx_len)
    BY <2>5, Changed DEF Socket
  <2>7. Pool!Free(f).state = "CLOSED" /\ Pool!Free(sock[i]).state = "CLOSED"
    BY <2>2, <2>5, FreeType
  <2>8. e.state = "CLOSED" \/ (e.host = sock[i].host /\ e.port = sock[i].port)
    BY <2>3, <2>4, <2>6, <2>7 DEF Becomes, Pool!AfterFin
  <2>9. p.flag = "FIN" /\ sock[i].rx_len > 0 => e.rx_len > 0
    BY <2>2, <2>3, <2>4, <2>6 DEF Becomes, Pool!AfterFin, Socket
  <2> HIDE DEF e
  <2>10. sock'[i] = e /\ \A j \in PoolSlots \ {i} : sock'[j] = sock[j]
    BY <1>0, <2>1
  <2> QED
    BY <2>1, <2>8, <2>9, <2>10 DEF Pool!LiveNotEvicted, Pool!UnreadKept
<1>4. ASSUME Pool!Application, event' = "application" PROVE Pool!LiveNotEvicted /\ Pool!UnreadKept
  <2>1. Pool!UnreadKept
    BY <1>4 DEF Pool!UnreadKept
  <2>2. ASSUME NEW h \in Machines, Pool!Connect(h) PROVE Pool!LiveNotEvicted
    <3> DEFINE s == Pool!Fresh("SYN_SENT", h, Pool!Client, 0)
    <3>1. s \in Socket /\ sock \in [PoolSlots -> Socket]
      <4>1. "SYN_SENT" \in Pool!States /\ 0 \in Nat
        BY DEF Pool!States
      <4> QED
        BY <1>0, <4>1, FreshType
    <3> HIDE DEF s
    <3>2. \A i \in PoolSlots : \/ Pool!Claim(sock, s)[i] = sock[i]
                               \/ Pool!Claim(sock, s)[i] = s /\ sock[i].state \in {"CLOSED", "FIN_WAIT"}
      BY <3>1, ClaimParts
    <3>3. sock' = Pool!Claim(sock, s)
      BY <2>2 DEF Pool!Connect, s
    <3> QED
      BY <3>2, <3>3 DEF Pool!LiveNotEvicted
  <2>3. ASSUME NEW i \in PoolSlots, Pool!Read(i) \/ Pool!Write(i) \/ Pool!Close(i) PROVE Pool!LiveNotEvicted
    <3>1. sock[i] \in Socket /\ 2 \in Nat /\ 0 \in 0 .. RxBuffer /\ "FIN_WAIT" \in Pool!States /\ sock[i].state \in Pool!States
      BY SMTT(60), <1>0 DEF Socket, PoolSizes, Pool!States
    <3>2. \A st \in Pool!States :
              /\ Becomes([sock[i] EXCEPT !.rx_len = 0], sock[i], sock[i].state, sock[i].ack, 0)
              /\ Becomes([sock[i] EXCEPT !.seq = 2], sock[i], sock[i].state, sock[i].ack, sock[i].rx_len)
              /\ Becomes([sock[i] EXCEPT !.state = "FIN_WAIT", !.seq = 2], sock[i], "FIN_WAIT", sock[i].ack, sock[i].rx_len)
              /\ Pool!Free(sock[i]).state = "CLOSED"
      BY <3>1, Changed, FreeType
    <3>3. \E e : sock' = [sock EXCEPT ![i] = e] /\ (e.state = "CLOSED" \/ (e.host = sock[i].host /\ e.port = sock[i].port))
      BY <2>3, <3>1, <3>2 DEF Pool!Read, Pool!Write, Pool!Close, Becomes
    <3> QED
      BY <1>0, <3>3 DEF Pool!LiveNotEvicted
  <2>4. ASSUME NEW idle \in SUBSET Pool!Reapable, Pool!Reap(idle) PROVE Pool!LiveNotEvicted
    BY <1>0, <2>4, FreeType DEF Pool!Reap, Pool!LiveNotEvicted
  <2> QED
    BY <1>4, <2>1, <2>2, <2>3, <2>4 DEF Pool!Application
<1> QED
  BY <1>1, <1>2, <1>3, <1>4 DEF Pool!Next, Pool!Receive

\* A full pool never costs a live connection: alloc_socket() takes what is free or closed
\* from this side, and a SYN of the same peer its own slot.  And a FIN never costs a request
\* that was not read.
THEOREM LiveSocketsKept == ASSUME PoolSizes PROVE Pool!Spec => [][Pool!LiveNotEvicted /\ Pool!UnreadKept]_Pool!vars
<1>1. Pool!Init => SocketInv
  BY SocketInit
<1>2. SocketInv /\ [Pool!Next]_Pool!vars => SocketInv'
  BY SocketStep
<1>3. SocketInv /\ [Pool!Next]_Pool!vars => [Pool!LiveNotEvicted /\ Pool!UnreadKept]_Pool!vars
  BY SocketsKept
<1> QED
  BY <1>1, <1>2, <1>3, PTL DEF Pool!Spec

-----------------------------------------------------------------------------
(* WebStream: the server gets what send() accepted and the loader reads what *)
(* the server sent.  The send buffer is what was accepted and not yet        *)
(* acknowledged, whatever is in flight; the ring is what came in and was not *)
(* yet read; a segment, however old, holds bytes of their numbers.           *)

\* RX_WINDOW is at most RX_CAP (net_r2.cpp:53, 64).
PageSizes == /\ PageRequest \in Nat /\ TxCap \in Nat /\ SegMax \in Nat /\ PageReply \in Nat /\ RxCap \in Nat
             /\ RxWindow \in Nat /\ RxWindow <= RxCap /\ MssIn \in Nat \ {0} /\ MaxRetries \in Nat

PageConn == [state : {"FREE", "SYN_SENT"} \cup Page!Open, failed : BOOLEAN, una : Nat, tx : Seq(Nat),
             inflight : Nat, fin : {"no", "queued", "sent", "acked"}, peerFin : BOOLEAN, retries : Nat,
             arpWait : BOOLEAN, rx : Seq(Nat), rcv : Nat, adv : Int]

\* The bytes that follow byte a of a stream.
Follows(x, a) == x \in Seq(Nat) /\ \A i \in 1 .. Len(x) : x[i] = a + i

\* The send buffer is what was accepted and not acknowledged; g bytes were accepted.
SendSide(d, g) ==
    IF d.state = "FREE" THEN d.inflight = 0 /\ d.fin = "no" ELSE
        /\ d.fin # "acked" => Follows(d.tx, d.una) /\ d.una + Len(d.tx) = g
        /\ d.fin \in {"sent", "acked"} => d.tx = <<>>
        /\ d.inflight <= Len(d.tx)
        /\ d.fin = "no" <=> d.state # "FIN_WAIT"
        /\ d.state = "SYN_SENT" => d.inflight = 0

\* The ring is what was received and not read; r bytes were read.
ReceiveSide(d, r) ==
    /\ Len(d.rx) <= RxCap
    /\ d.state \in {"FREE", "SYN_SENT", "FIN_WAIT"} => d.rx = <<>>
    /\ d.state \in {"SYN_SENT", "ESTABLISHED"} => ~d.peerFin /\ d.rcv = r + Len(d.rx)
    /\ d.state = "CLOSE_WAIT" => d.peerFin /\ r + Len(d.rx) = PageReply /\ d.rcv = PageReply + 1
    /\ d.state \in {"ESTABLISHED", "CLOSE_WAIT"} => Follows(d.rx, r)

\* The peer has been told of all but less than a segment of the room there is.
ToldRoom(d) == d.state = "ESTABLISHED" /\ ~d.failed => Page!Window(d) < d.adv + MssIn

PageGood(d, g, r) == d \in PageConn /\ SendSide(d, g) /\ ReceiveSide(d, r) /\ ToldRoom(d)

\* A segment on the wire holds bytes that were accepted, and a FIN follows the last of them.
SegmentGood(s, g, st) ==
    /\ s.first \in Nat \ {0} /\ s.fin \in BOOLEAN
    /\ Follows(s.data, s.first - 1)
    /\ s.first - 1 + Len(s.data) <= g
    /\ s.fin => s.first - 1 + Len(s.data) = g /\ st \in {"FIN_WAIT", "FREE"}

ServerGood ==
    /\ server \in [got : Seq(Nat), fin : BOOLEAN]
    /\ Follows(server.got, 0) /\ Len(server.got) <= given
    /\ server.fin => Len(server.got) = given /\ c.state \in {"FIN_WAIT", "FREE"}

\* The number of bytes the server has, a FIN counted as one.
Has(sv) == Len(sv.got) + (IF sv.fin THEN 1 ELSE 0)

\* What is taken from the send buffer has reached the server.
NothingForgotten == c.state # "FREE" => c.una <= Has(server)

PageInv ==
    /\ given \in Nat /\ read \in Nat
    /\ PageGood(c, given, read)
    /\ \A s \in pageWire : SegmentGood(s, given, c.state)
    /\ ServerGood /\ NothingForgotten

LEMMA LesserOf ==
  ASSUME NEW a \in Int, NEW b \in Int
  PROVE  /\ Page!Min({a, b}) \in {a, b} /\ Page!Min({a, b}) <= a /\ Page!Min({a, b}) <= b
<1>1. \E x \in {a, b} : \A y \in {a, b} : x <= y
  OBVIOUS
<1> QED
  BY <1>1 DEF Page!Min

LEMMA BytesFollow ==
  ASSUME NEW a \in Nat, NEW b \in Nat, a <= b
  PROVE  Follows(Page!Bytes(a + 1, b), a) /\ Len(Page!Bytes(a + 1, b)) = b - a
<1>1. b - (a + 1) + 1 = b - a /\ b - a \in Nat /\ \A i \in 1 .. b - a : (a + 1) + i - 1 = a + i /\ a + i \in Nat
  OBVIOUS
<1>2. Page!Bytes(a + 1, b) = [i \in 1 .. b - a |-> (a + 1) + i - 1]
  BY <1>1 DEF Page!Bytes
<1> QED
  BY <1>1, <1>2 DEF Follows

LEMMA FollowsIs == ASSUME NEW x, NEW a \in Nat, Follows(x, a) PROVE x = Page!Bytes(a + 1, a + Len(x))
<1>1. x = [i \in 1 .. Len(x) |-> x[i]] /\ Len(x) \in Nat
  BY DEF Follows
<1>2. (a + Len(x)) - (a + 1) + 1 = Len(x) /\ \A i \in 1 .. Len(x) : (a + 1) + i - 1 = a + i
  BY <1>1
<1> QED
  BY <1>1, <1>2 DEF Page!Bytes, Follows

LEMMA NothingFollows == ASSUME NEW a \in Nat PROVE Follows(<<>>, a) /\ Len(<<>>) = 0
  BY DEF Follows

\* A part of consecutive bytes.
LEMMA PartFollows ==
  ASSUME NEW x, NEW a \in Nat, Follows(x, a), NEW m \in Nat, NEW n \in Nat, m <= n, n <= Len(x)
  PROVE  Follows(SubSeq(x, m + 1, n), a + m) /\ Len(SubSeq(x, m + 1, n)) = n - m
<1>1. x \in Seq(Nat) /\ Len(x) \in Nat
  BY DEF Follows
<1>2. /\ SubSeq(x, m + 1, n) \in Seq(Nat) /\ Len(SubSeq(x, m + 1, n)) = n - m
      /\ \A i \in 1 .. n - m : SubSeq(x, m + 1, n)[i] = x[m + i] /\ m + i \in 1 .. Len(x)
  <2>1. PICK k \in Nat : k = m + 1 /\ n - k + 1 = n - m
    OBVIOUS
  <2>2. /\ SubSeq(x, k, n) \in Seq(Nat) /\ Len(SubSeq(x, k, n)) = n - k + 1
        /\ \A i \in 1 .. n - k + 1 : SubSeq(x, k, n)[i] = x[k + i - 1]
    BY <1>1, <2>1
  <2>3. \A i \in 1 .. n - m : k + i - 1 = m + i /\ m + i \in 1 .. Len(x)
    BY <1>1, <2>1
  <2> QED
    BY <2>1, <2>2, <2>3
<1> QED
  BY <1>1, <1>2 DEF Follows

LEMMA FrontFollows ==
  ASSUME NEW x, NEW a \in Nat, Follows(x, a), NEW n \in Nat, n <= Len(x)
  PROVE  Follows(SubSeq(x, 1, n), a) /\ Len(SubSeq(x, 1, n)) = n
<1>1. x \in Seq(Nat) /\ Len(x) \in Nat
  BY DEF Follows
<1>2. /\ SubSeq(x, 1, n) \in Seq(Nat) /\ Len(SubSeq(x, 1, n)) = n
      /\ \A i \in 1 .. n : SubSeq(x, 1, n)[i] = x[i] /\ i \in 1 .. Len(x)
  BY <1>1
<1> QED
  BY <1>1, <1>2 DEF Follows

\* Two runs of consecutive bytes, the second after the first.
LEMMA BothFollow ==
  ASSUME NEW x, NEW y, NEW a \in Nat, Follows(x, a), Follows(y, a + Len(x))
  PROVE  Follows(x \o y, a) /\ Len(x \o y) = Len(x) + Len(y)
<1>1. x \in Seq(Nat) /\ Len(x) \in Nat /\ y \in Seq(Nat) /\ Len(y) \in Nat
  BY DEF Follows
<1>2. x \o y \in Seq(Nat) /\ Len(x \o y) = Len(x) + Len(y)
  BY <1>1
<1>3. ASSUME NEW i \in 1 .. Len(x) + Len(y) PROVE (x \o y)[i] = a + i
  <2>1. CASE i <= Len(x)
    BY <1>1, <2>1 DEF Follows
  <2>2. CASE i > Len(x)
    <3>1. (x \o y)[i] = y[i - Len(x)] /\ i - Len(x) \in 1 .. Len(y)
      BY <1>1, <2>2
    <3> QED
      BY <1>1, <3>1 DEF Follows
  <2> QED
    BY <1>1, <2>1, <2>2
<1> QED
  BY <1>2, <1>3 DEF Follows

LEMMA WindowIs ==
  ASSUME PageSizes, NEW d, d.rx \in Seq(Nat)
  PROVE  /\ Page!Window(d) \in Int /\ Page!Window(d) <= RxCap - Len(d.rx) /\ Page!Window(d) <= RxWindow
         /\ Page!Window(d) \in {RxCap - Len(d.rx), RxWindow}
<1>1. RxCap - Len(d.rx) \in Int /\ RxWindow \in Int
  BY DEF PageSizes
<1> QED
  BY <1>1, LesserOf DEF Page!Window

LEMMA Announced ==
  ASSUME PageSizes, NEW d, NEW g \in Nat, NEW r \in Nat, d \in PageConn, SendSide(d, g), ReceiveSide(d, r)
  PROVE  /\ PageGood(Page!Announces(d), g, r)
         /\ Page!Announces(d).state = d.state /\ Page!Announces(d).una = d.una /\ Page!Announces(d).tx = d.tx
         /\ Page!Announces(d).inflight = d.inflight /\ Page!Announces(d).fin = d.fin
<1> DEFINE e == [d EXCEPT !.adv = Page!Window(d)]
<1>1. Page!Window(d) \in Int
  BY WindowIs DEF PageConn
<1>2. e \in PageConn /\ e.adv = Page!Window(d)
  BY <1>1 DEF PageConn
<1>3. /\ e.state = d.state /\ e.failed = d.failed /\ e.una = d.una /\ e.tx = d.tx /\ e.inflight = d.inflight
      /\ e.fin = d.fin /\ e.peerFin = d.peerFin /\ e.rx = d.rx /\ e.rcv = d.rcv
  BY DEF PageConn
<1>4. Page!Window(e) = Page!Window(d)
  BY <1>3 DEF Page!Window
<1>5. e = Page!Announces(d)
  BY DEF Page!Announces
<1> HIDE DEF e
<1>6. SendSide(e, g) /\ ReceiveSide(e, r)
  BY <1>3 DEF SendSide, ReceiveSide
<1>7. ToldRoom(e)
  BY <1>1, <1>2, <1>4 DEF ToldRoom, PageSizes
<1> QED
  BY <1>2, <1>3, <1>5, <1>6, <1>7 DEF PageGood

\* What pump() sends is the next of what was accepted, or the FIN after all of it.
LEMMA SegmentIs ==
  ASSUME NEW d, NEW g \in Nat, d \in PageConn, SendSide(d, g), d.state # "FREE", d.fin # "acked"
  PROVE  SegmentGood(Page!Segment(d), g, d.state)
<1> DEFINE x == SubSeq(d.tx, 1, d.inflight)
<1>1. /\ d.una \in Nat /\ Follows(d.tx, d.una) /\ d.una + Len(d.tx) = g /\ d.inflight \in Nat /\ d.inflight <= Len(d.tx)
      /\ Len(d.tx) \in Nat /\ (d.fin = "sent" => d.tx = <<>> /\ d.state = "FIN_WAIT")
  BY DEF SendSide, PageConn
<1>2. Follows(x, d.una) /\ Len(x) = d.inflight
  BY <1>1, FrontFollows
<1>3. d.fin = "sent" => d.una + d.inflight = g
  BY <1>1
<1> HIDE DEF x
<1> DEFINE s == Page!Segment(d)
<1>4. s.first = d.una + 1 /\ s.data = x /\ s.fin = (d.fin = "sent")
  BY DEF Page!Segment, x
<1> HIDE DEF s
<1>5. s.first \in Nat \ {0} /\ s.first - 1 = d.una /\ Len(s.data) = d.inflight /\ d.una + d.inflight <= g
  BY <1>1, <1>2, <1>4
<1>6. SegmentGood(s, g, d.state)
  BY <1>1, <1>2, <1>3, <1>4, <1>5 DEF SegmentGood
<1> QED
  BY <1>6 DEF s

LEMMA PumpGood ==
  ASSUME PageSizes, NEW d, NEW g \in Nat, NEW r \in Nat, PageGood(d, g, r), d.state # "FREE"
  PROVE  /\ PageGood(Page!Pump(d), g, r) /\ Page!Pump(d).state = d.state /\ Page!Pump(d).una = d.una
         /\ Page!Pump(d) # d => SegmentGood(Page!Segment(Page!Pump(d)), g, d.state)
<1>1. CASE Page!Pump(d) = d
  BY <1>1
<1>2. CASE ~Page!Waiting(d) /\ ~d.failed /\ Page!NothingLeftToSend(d) /\ d.fin = "queued"
  <2> DEFINE e == [d EXCEPT !.fin = "sent", !.retries = 0]
  <2>1. Page!Pump(d) = Page!Announces(e)
    BY <1>2 DEF Page!Pump
  <2>2. e \in PageConn
    BY DEF PageGood, PageConn
  <2>3. /\ e.state = d.state /\ e.failed = d.failed /\ e.una = d.una /\ e.tx = d.tx /\ e.inflight = d.inflight
        /\ e.fin = "sent" /\ e.peerFin = d.peerFin /\ e.rx = d.rx /\ e.rcv = d.rcv
    BY DEF PageGood, PageConn
  <2> HIDE DEF e
  <2>4. SendSide(e, g) /\ ReceiveSide(e, r)
    BY <1>2, <2>3 DEF PageGood, SendSide, ReceiveSide, Page!NothingLeftToSend
  <2>5. /\ PageGood(Page!Announces(e), g, r) /\ Page!Announces(e).state = d.state
        /\ Page!Announces(e).una = d.una /\ Page!Announces(e).fin # "acked"
    BY <2>2, <2>3, <2>4, Announced
  <2>6. SegmentGood(Page!Segment(Page!Announces(e)), g, d.state)
    BY <2>5, SegmentIs DEF PageGood
  <2> QED
    BY <2>1, <2>5, <2>6
<1>3. CASE ~Page!Waiting(d) /\ ~d.failed /\ ~(Page!NothingLeftToSend(d) /\ d.fin = "queued") /\ d.tx # <<>>
  <2> DEFINE n == Page!Min({Len(d.tx), SegMax})
             e == [d EXCEPT !.inflight = n, !.retries = 0]
  <2>1. Page!Pump(d) = Page!Announces(e)
    BY <1>3 DEF Page!Pump
  <2>2. n \in Nat /\ n <= Len(d.tx)
    <3>1. PICK l \in Int : l = Len(d.tx) /\ l >= 0 /\ SegMax \in Int /\ SegMax >= 0
      BY DEF PageGood, PageConn, PageSizes
    <3>2. n \in {l, SegMax} /\ n <= l
      BY <3>1, LesserOf
    <3> QED
      BY <3>1, <3>2
  <2> HIDE DEF n
  <2>3. e \in PageConn
    BY <2>2 DEF PageGood, PageConn
  <2>4. /\ e.state = d.state /\ e.failed = d.failed /\ e.una = d.una /\ e.tx = d.tx /\ e.inflight = n
        /\ e.fin = d.fin /\ e.peerFin = d.peerFin /\ e.rx = d.rx /\ e.rcv = d.rcv
    BY DEF PageGood, PageConn
  <2>5. d.fin \notin {"sent", "acked"} /\ d.state # "SYN_SENT"
    BY <1>3 DEF PageGood, SendSide, Page!Waiting
  <2> HIDE DEF e
  <2>6. SendSide(e, g) /\ ReceiveSide(e, r)
    BY <2>2, <2>4, <2>5 DEF PageGood, SendSide, ReceiveSide
  <2>7. /\ PageGood(Page!Announces(e), g, r) /\ Page!Announces(e).state = d.state
        /\ Page!Announces(e).una = d.una /\ Page!Announces(e).fin # "acked"
    BY <2>3, <2>4, <2>5, <2>6, Announced
  <2>8. SegmentGood(Page!Segment(Page!Announces(e)), g, d.state)
    BY <2>7, SegmentIs DEF PageGood
  <2> QED
    BY <2>1, <2>7, <2>8
<1> QED
  BY <1>1, <1>2, <1>3 DEF Page!Pump

LEMMA BecomesGood ==
  ASSUME PageSizes, NEW d, NEW g \in Nat, NEW r \in Nat, PageGood(d, g, r), d.state # "FREE",
         \A s \in pageWire : SegmentGood(s, g, d.state), Page!Becomes(d)
  PROVE  /\ PageGood(c', g, r) /\ c'.state = d.state /\ c'.una = d.una
         /\ \A s \in pageWire' : SegmentGood(s, g, d.state)
<1> DEFINE p == Page!Pump(d)
<1>1. PICK known \in BOOLEAN : /\ c' = IF p # d THEN [p EXCEPT !.arpWait = ~known] ELSE p
                               /\ pageWire' = IF p # d /\ known THEN pageWire \cup {Page!Segment(p)} ELSE pageWire
  BY DEF Page!Becomes
<1>2. /\ PageGood(p, g, r) /\ p.state = d.state /\ p.una = d.una
      /\ p # d => SegmentGood(Page!Segment(p), g, d.state)
  BY PumpGood
<1> HIDE DEF p
<1>3. \A s \in pageWire' : SegmentGood(s, g, d.state)
  BY <1>1, <1>2
<1>4. CASE p # d
  <2> DEFINE e == [p EXCEPT !.arpWait = ~known]
  <2>1. c' = e
    BY <1>1, <1>4
  <2>2. e \in PageConn
    BY <1>2 DEF PageGood, PageConn
  <2>3. /\ e.state = p.state /\ e.failed = p.failed /\ e.una = p.una /\ e.tx = p.tx /\ e.inflight = p.inflight
        /\ e.fin = p.fin /\ e.peerFin = p.peerFin /\ e.rx = p.rx /\ e.rcv = p.rcv /\ e.adv = p.adv
    BY <1>2 DEF PageGood, PageConn
  <2> HIDE DEF e
  <2>4. SendSide(e, g) /\ ReceiveSide(e, r) /\ ToldRoom(e)
    BY <1>2, <2>3 DEF PageGood, SendSide, ReceiveSide, ToldRoom, Page!Window
  <2> QED
    BY <1>2, <1>3, <2>1, <2>2, <2>3, <2>4 DEF PageGood
<1> QED
  BY <1>1, <1>2, <1>3, <1>4

LEMMA PageFree == ASSUME PageSizes, NEW g \in Nat, NEW r \in Nat PROVE PageGood(Page!Free, g, r)
<1> DEFINE d == Page!Free
<1>1. /\ d \in PageConn /\ d.state = "FREE" /\ d.inflight = 0 /\ d.fin = "no" /\ d.rx = <<>>
  BY DEF Page!Free, PageConn
<1> HIDE DEF d
<1>2. SendSide(d, g) /\ ReceiveSide(d, r) /\ ToldRoom(d)
  BY <1>1 DEF SendSide, ReceiveSide, ToldRoom, PageSizes
<1>3. PageGood(d, g, r)
  BY <1>1, <1>2 DEF PageGood
<1> QED
  BY <1>3 DEF d

\* A segment stays good while the connection does not come back from its end.
LEMMA SegmentStays ==
  ASSUME NEW g \in Nat, NEW h \in Nat, NEW s, NEW st, NEW tt, SegmentGood(s, g, st), g <= h,
         st \in {"FIN_WAIT", "FREE"} => tt \in {"FIN_WAIT", "FREE"} /\ g = h
  PROVE  SegmentGood(s, h, tt)
  BY DEF SegmentGood

LEMMA HasIs ==
  ASSUME NEW sv \in [got : Seq(Nat), fin : BOOLEAN]
  PROVE  Has(sv) \in Nat /\ Has(sv) >= Len(sv.got) /\ (~sv.fin => Has(sv) = Len(sv.got))
<1>1. CASE sv.fin
  BY <1>1 DEF Has
<1>2. CASE ~sv.fin
  BY <1>2 DEF Has
<1> QED
  BY <1>1, <1>2

\* The connection is over.
LEMMA FreeStep ==
  ASSUME PageSizes, PageInv, c' = Page!Free, given' = given, read' = read, pageWire' = pageWire, server' = server
  PROVE  PageInv'
<1>1. PageGood(c', given', read') /\ c'.state = "FREE"
  BY PageFree DEF PageInv, Page!Free
<1>2. \A s \in pageWire' : SegmentGood(s, given', c'.state)
  BY <1>1, SegmentStays DEF PageInv
<1>3. ServerGood' /\ NothingForgotten'
  BY <1>1 DEF PageInv, ServerGood, NothingForgotten
<1> QED
  BY <1>1, <1>2, <1>3 DEF PageInv

\* The connection has changed and pump() has run.
LEMMA GoodStep ==
  ASSUME PageSizes, PageInv, NEW d, d.state # "FREE", given' \in Nat, read' \in Nat, given <= given',
         PageGood(d, given', read'), Page!Becomes(d), server' = server,
         c.state \in {"FIN_WAIT", "FREE"} => d.state = "FIN_WAIT" /\ given' = given,
         d.una <= Has(server)
  PROVE  PageInv'
<1>1. \A s \in pageWire : SegmentGood(s, given', d.state)
  BY SegmentStays DEF PageInv
<1>2. /\ PageGood(c', given', read') /\ c'.state = d.state /\ c'.una = d.una
      /\ \A s \in pageWire' : SegmentGood(s, given', d.state)
  BY <1>1, BecomesGood
<1>3. ServerGood'
  BY <1>2 DEF PageInv, ServerGood
<1>4. NothingForgotten'
  BY <1>2 DEF NothingForgotten
<1> QED
  BY <1>2, <1>3, <1>4 DEF PageInv

LEMMA SendStep == ASSUME PageSizes, PageInv, NEW n \in 1 .. PageRequest, Page!Send(n) PROVE PageInv'
<1> DEFINE b == Page!Bytes(given + 1, given + n)
           x == c.tx \o b
           d == [c EXCEPT !.tx = x]
<1>1. given \in Nat /\ read \in Nat /\ n \in Nat /\ c \in PageConn /\ given + n \in Nat
  BY DEF PageInv, PageSizes, PageGood
<1>2. Follows(b, given) /\ Len(b) = n
  <2>1. PICK e \in Nat : e = given + n /\ given <= e /\ e - given = n
    BY <1>1
  <2>2. Follows(Page!Bytes(given + 1, e), given) /\ Len(Page!Bytes(given + 1, e)) = e - given
    BY <1>1, <2>1, BytesFollow
  <2> QED
    BY <2>1, <2>2
<1>3. c.state \in {"SYN_SENT", "ESTABLISHED", "CLOSE_WAIT"} /\ Page!Becomes(d)
  BY DEF Page!Send
<1>4. given' = given + n /\ read' = read /\ server' = server
  BY DEF Page!Send
<1> HIDE DEF b
<1>5. /\ c.una \in Nat /\ c.tx \in Seq(Nat) /\ Len(c.tx) \in Nat /\ c.inflight \in Nat
      /\ Follows(c.tx, c.una) /\ c.una + Len(c.tx) = given /\ c.fin = "no" /\ c.inflight <= Len(c.tx)
      /\ c.state = "SYN_SENT" => c.inflight = 0
  BY SMTT(60), <1>1, <1>3 DEF PageInv, PageGood, SendSide, PageConn
<1>6. Follows(x, c.una) /\ Len(x) = Len(c.tx) + n /\ x \in Seq(Nat)
  <2>1. Follows(b, c.una + Len(c.tx))
    BY <1>2, <1>5
  <2>2. Follows(x, c.una) /\ Len(x) = Len(c.tx) + Len(b)
    BY <1>5, <2>1, BothFollow
  <2> QED
    BY <1>2, <2>2 DEF Follows
<1> HIDE DEF x
<1>7. /\ d \in PageConn /\ d.tx = x
      /\ d.state = c.state /\ d.failed = c.failed /\ d.una = c.una /\ d.inflight = c.inflight
      /\ d.fin = c.fin /\ d.peerFin = c.peerFin /\ d.rx = c.rx /\ d.rcv = c.rcv /\ d.adv = c.adv
  BY <1>1, <1>6 DEF PageConn
<1> HIDE DEF d
<1>8. SendSide(d, given')
  <2>1. c.inflight <= Len(c.tx) + n /\ c.una + (Len(c.tx) + n) = given + n
    BY SMTT(60), <1>1, <1>5
  <2> QED
    BY <1>3, <1>4, <1>5, <1>6, <1>7, <2>1 DEF SendSide
<1>9. ReceiveSide(d, read') /\ ToldRoom(d)
  BY <1>4, <1>7 DEF PageInv, PageGood, ReceiveSide, ToldRoom, Page!Window
<1>10. d.una <= Has(server)
  BY <1>3, <1>7 DEF PageInv, NothingForgotten
<1>11. given' \in Nat /\ given <= given' /\ read' \in Nat
  BY <1>1, <1>4
<1>12. PageGood(d, given', read')
  BY <1>7, <1>8, <1>9 DEF PageGood
<1>13. d.state # "FREE" /\ c.state \notin {"FIN_WAIT", "FREE"}
  BY <1>3, <1>7
<1> QED
  BY <1>3, <1>4, <1>10, <1>11, <1>12, <1>13, GoodStep

\* The timer: what was in flight is sent again, or the connection has failed.
LEMMA Failing == ASSUME PageSizes, PageInv, c.state # "FREE", c' = [c EXCEPT !.failed = TRUE],
                        given' = given, read' = read, pageWire' = pageWire, server' = server
                 PROVE  PageInv'
<1>1. c \in PageConn /\ SendSide(c, given) /\ ReceiveSide(c, read)
  BY DEF PageInv, PageGood
<1>2. /\ c' \in PageConn /\ c'.failed
      /\ c'.state = c.state /\ c'.una = c.una /\ c'.tx = c.tx /\ c'.inflight = c.inflight
      /\ c'.fin = c.fin /\ c'.peerFin = c.peerFin /\ c'.rx = c.rx /\ c'.rcv = c.rcv
  BY <1>1 DEF PageConn
<1>3. SendSide(c', given) /\ ReceiveSide(c', read) /\ ToldRoom(c')
  BY <1>1, <1>2 DEF SendSide, ReceiveSide, ToldRoom
<1>4. \A s \in pageWire' : SegmentGood(s, given', c'.state)
  BY <1>2 DEF PageInv
<1>5. ServerGood' /\ NothingForgotten'
  BY <1>2 DEF PageInv, ServerGood, NothingForgotten
<1> QED
  BY <1>2, <1>3, <1>4, <1>5 DEF PageInv, PageGood

LEMMA RetransmitStep == ASSUME PageSizes, PageInv, Page!Retransmit PROVE PageInv'
<1>1. c \in PageConn /\ SendSide(c, given) /\ ReceiveSide(c, read) /\ given \in Nat /\ read \in Nat
  BY DEF PageInv, PageGood
<1>2. c.state # "FREE" /\ c.fin # "acked"
  BY <1>1 DEF Page!Retransmit, Page!Waiting, SendSide, PageConn
<1>3. given' = given /\ read' = read /\ server' = server
  BY DEF Page!Retransmit
<1> DEFINE a == Page!Announces(c)
<1>4. PICK known \in BOOLEAN :
        /\ c' = [a EXCEPT !.retries = IF c.arpWait THEN @ ELSE @ + 1, !.arpWait = ~known]
        /\ pageWire' = IF known /\ c.state # "SYN_SENT" THEN pageWire \cup {Page!Segment(c)} ELSE pageWire
  BY DEF Page!Retransmit
<1>5. PageGood(a, given, read) /\ a.state = c.state /\ a.una = c.una
  BY <1>1, Announced
<1> HIDE DEF a
<1>6. a \in PageConn /\ a.retries \in Nat /\ a.retries + 1 \in Nat /\ (~known) \in BOOLEAN
  BY <1>5 DEF PageConn, PageGood
<1>7. /\ c' \in PageConn /\ c'.failed = a.failed /\ c'.adv = a.adv
      /\ c'.state = a.state /\ c'.una = a.una /\ c'.tx = a.tx /\ c'.inflight = a.inflight
      /\ c'.fin = a.fin /\ c'.peerFin = a.peerFin /\ c'.rx = a.rx /\ c'.rcv = a.rcv
  BY <1>4, <1>6 DEF PageConn
<1>8. SendSide(c', given) /\ ReceiveSide(c', read) /\ ToldRoom(c')
  BY <1>5, <1>7 DEF PageGood, SendSide, ReceiveSide, ToldRoom, Page!Window
<1>9. \A s \in pageWire' : SegmentGood(s, given', c'.state)
  <2>1. SegmentGood(Page!Segment(c), given, c.state)
    BY <1>1, <1>2, SegmentIs
  <2> QED
    BY <1>3, <1>4, <1>5, <1>7, <2>1 DEF PageInv
<1>10. ServerGood' /\ NothingForgotten'
  BY <1>3, <1>5, <1>7 DEF PageInv, ServerGood, NothingForgotten
<1> QED
  BY <1>1, <1>3, <1>7, <1>8, <1>9, <1>10 DEF PageInv, PageGood

\* onTcp(), SYN-ACK.
LEMMA AcceptedStep == ASSUME PageSizes, PageInv, Page!Accepted PROVE PageInv'
<1> DEFINE e == [c EXCEPT !.state = "ESTABLISHED", !.arpWait = FALSE]
           d == Page!Announces(e)
<1>1. c \in PageConn /\ SendSide(c, given) /\ ReceiveSide(c, read) /\ given \in Nat /\ read \in Nat /\ c.state = "SYN_SENT"
  BY DEF PageInv, PageGood, Page!Accepted
<1>2. Page!Becomes(d) /\ given' = given /\ read' = read /\ server' = server
  BY DEF Page!Accepted
<1>3. /\ e \in PageConn /\ e.state = "ESTABLISHED"
      /\ e.una = c.una /\ e.tx = c.tx /\ e.inflight = c.inflight
      /\ e.fin = c.fin /\ e.peerFin = c.peerFin /\ e.rx = c.rx /\ e.rcv = c.rcv
  BY <1>1 DEF PageConn, Page!Open
<1> HIDE DEF e
<1>4. SendSide(e, given)
  BY <1>1, <1>3 DEF SendSide
<1>5. ReceiveSide(e, read)
  <2>1. c.rx = <<>> /\ Follows(c.rx, read)
    BY <1>1, NothingFollows DEF ReceiveSide
  <2> QED
    BY <1>1, <1>3, <2>1 DEF ReceiveSide
<1>6. PageGood(d, given, read) /\ d.state = "ESTABLISHED" /\ d.una = c.una
  BY <1>1, <1>3, <1>4, <1>5, Announced
<1> HIDE DEF d
<1>7. d.una <= Has(server)
  BY <1>1, <1>6 DEF PageInv, NothingForgotten
<1>8. given' \in Nat /\ given <= given' /\ read' \in Nat /\ PageGood(d, given', read')
  BY <1>1, <1>2, <1>6
<1>9. d.state # "FREE" /\ c.state \notin {"FIN_WAIT", "FREE"}
  BY <1>1, <1>6
<1> QED
  BY <1>2, <1>7, <1>8, <1>9, GoodStep

LEMMA CloseStepOf == ASSUME PageSizes, PageInv, Page!Close PROVE PageInv'
<1>1. CASE c.failed \/ c.state = "SYN_SENT"
  BY <1>1, FreeStep DEF Page!Close
<1>2. CASE ~(c.failed \/ c.state = "SYN_SENT")
  <2> DEFINE d == [c EXCEPT !.state = "FIN_WAIT", !.fin = "queued", !.rx = <<>>]
  <2>1. Page!Becomes(d) /\ given' = given /\ read' = read /\ server' = server /\ c.state \notin {"FREE", "FIN_WAIT"}
    BY <1>2 DEF Page!Close
  <2>2. c \in PageConn /\ SendSide(c, given) /\ ReceiveSide(c, read) /\ given \in Nat /\ read \in Nat
    BY DEF PageInv, PageGood
  <2>3. /\ d \in PageConn /\ d.state = "FIN_WAIT" /\ d.fin = "queued" /\ d.rx = <<>>
        /\ d.una = c.una /\ d.tx = c.tx /\ d.inflight = c.inflight
    <3>1. <<>> \in Seq(Nat) /\ "FIN_WAIT" \in {"FREE", "SYN_SENT"} \cup Page!Open
      BY DEF Page!Open
    <3> QED
      BY <2>2, <3>1 DEF PageConn
  <2> HIDE DEF d
  <2>4. SendSide(d, given) /\ ReceiveSide(d, read) /\ ToldRoom(d)
    BY <2>1, <2>2, <2>3 DEF SendSide, ReceiveSide, ToldRoom, PageSizes
  <2>5. d.una <= Has(server)
    BY <2>1, <2>3 DEF PageInv, NothingForgotten
  <2>6. given' \in Nat /\ given <= given' /\ read' \in Nat /\ PageGood(d, given', read')
    BY <2>1, <2>2, <2>3, <2>4 DEF PageGood
  <2>7. d.state = "FIN_WAIT" /\ c.state \notin {"FIN_WAIT", "FREE"}
    BY <2>1, <2>3
  <2> QED
    BY <2>1, <2>5, <2>6, <2>7, GoodStep
<1> QED
  BY <1>1, <1>2

LEMMA EndStep == ASSUME PageSizes, PageInv, Page!GiveUp \/ Page!Reset \/ Page!Expire \/ Page!StaleAck PROVE PageInv'
<1>1. CASE Page!GiveUp
  <2>1. c.state # "FREE"
    BY <1>1 DEF Page!GiveUp, Page!Waiting, SendSide, PageInv, PageGood
  <2> QED
    BY <1>1, <2>1, FreeStep, Failing DEF Page!GiveUp
<1>2. CASE Page!Reset
  BY <1>2, FreeStep, Failing DEF Page!Reset
<1>3. CASE Page!Expire
  BY <1>3, FreeStep DEF Page!Expire
<1>4. CASE Page!StaleAck
  BY <1>4 DEF Page!StaleAck, PageInv, ServerGood, NothingForgotten
<1> QED
  BY <1>1, <1>2, <1>3, <1>4

\* recv(): what is handed out is the front of the ring.
LEMMA RecvStep == ASSUME PageSizes, PageInv, NEW n \in 1 .. RxCap, Page!Recv(n) PROVE PageInv'
<1> DEFINE x == SubSeq(c.rx, n + 1, Len(c.rx))
           d == [c EXCEPT !.rx = x]
<1>1. c \in PageConn /\ SendSide(c, given) /\ ReceiveSide(c, read) /\ ToldRoom(c) /\ given \in Nat /\ read \in Nat
  BY DEF PageInv, PageGood
<1>2. /\ n \in 1 .. Len(c.rx) /\ read' = read + n /\ given' = given /\ pageWire' = pageWire /\ server' = server
      /\ c' = IF ~c.failed /\ c.state = "ESTABLISHED" /\ Page!Reopens(d) THEN Page!Announces(d) ELSE d
  BY DEF Page!Recv
<1>3. c.rx \in Seq(Nat) /\ Len(c.rx) \in Nat /\ n \in Nat /\ n <= Len(c.rx) /\ n > 0
  <2>1. c.rx \in Seq(Nat)
    BY <1>1 DEF PageConn
  <2> QED
    BY <1>2, <2>1
<1>4. c.state \in {"ESTABLISHED", "CLOSE_WAIT"}
  <2>1. c.rx # <<>>
    BY <1>3
  <2> QED
    BY <1>1, <2>1 DEF ReceiveSide, PageConn, Page!Open
<1>5. Follows(c.rx, read)
  BY <1>1, <1>4 DEF ReceiveSide
<1>6. Follows(x, read + n) /\ Len(x) = Len(c.rx) - n
  BY <1>1, <1>3, <1>5, PartFollows
<1>7. x \in Seq(Nat)
  BY <1>6 DEF Follows
<1> HIDE DEF x
<1>8. /\ d \in PageConn /\ d.rx = x
      /\ d.state = c.state /\ d.failed = c.failed /\ d.una = c.una /\ d.tx = c.tx /\ d.inflight = c.inflight
      /\ d.fin = c.fin /\ d.peerFin = c.peerFin /\ d.rcv = c.rcv /\ d.adv = c.adv
  BY <1>1, <1>7 DEF PageConn
<1> HIDE DEF d
<1>9. SendSide(d, given)
  BY <1>1, <1>8 DEF SendSide
<1>10. ReceiveSide(d, read')
  <2>1. Len(x) <= RxCap /\ read + n + Len(x) = read + Len(c.rx)
    BY SMTT(60), <1>1, <1>3, <1>6 DEF ReceiveSide, PageSizes
  <2> QED
    BY <1>1, <1>2, <1>4, <1>6, <1>8, <2>1 DEF ReceiveSide
<1>11. PageGood(c', given, read') /\ c'.state = c.state /\ c'.una = c.una
  <2>1. CASE ~c.failed /\ c.state = "ESTABLISHED" /\ Page!Reopens(d)
    BY <1>1, <1>2, <1>3, <1>8, <1>9, <1>10, <2>1, Announced
  <2>2. CASE ~(~c.failed /\ c.state = "ESTABLISHED" /\ Page!Reopens(d))
    <3>1. Page!Window(d) \in Int /\ d.adv \in Int
      BY <1>8, WindowIs DEF PageConn
    <3>2. ToldRoom(d)
      BY <1>8, <2>2, <3>1 DEF ToldRoom, Page!Reopens, PageSizes
    <3> QED
      BY <1>2, <1>8, <1>9, <1>10, <2>2, <3>2 DEF PageGood
  <2> QED
    BY <2>1, <2>2
<1>12. \A s \in pageWire' : SegmentGood(s, given', c'.state)
  BY <1>2, <1>11 DEF PageInv
<1>13. ServerGood' /\ NothingForgotten'
  BY <1>2, <1>11 DEF PageInv, ServerGood, NothingForgotten
<1> QED
  BY <1>1, <1>2, <1>3, <1>11, <1>12, <1>13 DEF PageInv

\* The server takes a part of a segment that continues what it has.
LEMMA TakesStep == ASSUME PageSizes, PageInv, NEW s \in pageWire, Page!Takes(s) PROVE PageInv'
<1> DEFINE l == Len(server.got)
           new == SubSeq(s.data, l + 2 - s.first, Len(s.data))
<1>1. /\ server \in [got : Seq(Nat), fin : BOOLEAN] /\ l \in Nat /\ l <= given /\ given \in Nat
      /\ Follows(server.got, 0) /\ SegmentGood(s, given, c.state)
  BY DEF PageInv, ServerGood
<1>2. s.first <= l + 1 /\ ~server.fin /\ c' = c /\ given' = given /\ read' = read /\ pageWire' = pageWire
  BY DEF Page!Takes
<1>3. PICK n \in 0 .. Len(new) :
        server' = [got |-> server.got \o SubSeq(new, 1, n),
                   fin |-> s.fin /\ n = Len(new) /\ s.first + Len(s.data) = l + n + 1]
  BY DEF Page!Takes
<1>4. /\ s.first \in Nat \ {0} /\ s.fin \in BOOLEAN /\ Follows(s.data, s.first - 1) /\ s.first - 1 \in Nat
      /\ Len(s.data) \in Nat /\ s.first - 1 + Len(s.data) <= given
      /\ s.fin => s.first - 1 + Len(s.data) = given /\ c.state \in {"FIN_WAIT", "FREE"}
  BY SMTT(60), <1>1 DEF SegmentGood, Follows
<1> DEFINE p == SubSeq(new, 1, n)
<1>5. n \in Nat /\ Follows(p, l) /\ Len(p) = n /\ l + n <= given
  <2>1. CASE l + 1 - s.first <= Len(s.data)
    <3>1. PICK f \in Nat : f = s.first - 1 /\ f + Len(s.data) <= given
      BY <1>4
    <3>2. PICK m \in Nat : m = l - f
      BY <1>1, <1>2, <1>4, <3>1
    <3>3. PICK k \in Nat : k = Len(s.data)
      BY <1>4
    <3>4. s.first = f + 1 /\ Follows(s.data, f)
      BY <1>4, <3>1
    <3> HIDE DEF l
    <3>5. f + m = l
      BY <1>1, <3>2
    <3>6. m + 1 = l + 2 - s.first /\ f + m = l /\ m <= k
      BY <1>1, <2>1, <3>3, <3>4, <3>5
    <3>7. Follows(new, l) /\ Len(new) = Len(s.data) - m
      <4>1. /\ Follows(SubSeq(s.data, m + 1, Len(s.data)), f + m)
            /\ Len(SubSeq(s.data, m + 1, Len(s.data))) = Len(s.data) - m
        BY <3>6, <3>3, <3>4, PartFollows
      <4> QED
        BY <3>6, <4>1
    <3> HIDE DEF new
    <3>8. n \in Nat /\ n <= Len(new) /\ Len(new) \in Nat
      BY <3>6, <3>7, <3>3
    <3>9. Follows(p, l) /\ Len(p) = n
      BY <1>1, <3>8, <3>7, FrontFollows
    <3>10. l + n <= given
      BY SMTT(60), <1>1, <3>1, <3>6, <3>8, <3>7, <3>3
    <3> QED
      BY <3>8, <3>9, <3>10
  <2>2. CASE ~(l + 1 - s.first <= Len(s.data))
    <3>1. new = <<>>
      <4>1. s.data \in Seq(Nat) /\ l + 2 - s.first \in Int /\ l + 2 - s.first > Len(s.data)
        BY SMTT(60), <1>1, <1>4, <2>2 DEF Follows
      <4> QED
        BY <1>4, <4>1
    <3> HIDE DEF new
    <3>2. n = 0
      BY <3>1
    <3>3. p = <<>>
      BY <3>1, <3>2
    <3>4. l + 0 = l
      BY <1>1
    <3> QED
      BY <1>1, <3>2, <3>3, <3>4, NothingFollows
  <2> QED
    BY <2>1, <2>2
<1> HIDE DEF p
<1>6. server'.got = server.got \o p /\ server'.fin = (s.fin /\ n = Len(new) /\ s.first + Len(s.data) = l + n + 1)
  BY <1>3 DEF p
<1>7. Follows(server.got \o p, 0) /\ Len(server.got \o p) = l + n
  <2>1. Follows(p, 0 + l)
    BY <1>1, <1>5
  <2> QED
    BY <1>1, <1>5, <2>1, BothFollow
<1>8. server' \in [got : Seq(Nat), fin : BOOLEAN]
  <2>1. server.got \o p \in Seq(Nat)
    BY <1>7 DEF Follows
  <2> QED
    BY <1>3, <1>4, <2>1 DEF p
<1> HIDE DEF l, new
<1>9. ServerGood'
  <2>1. s.fin /\ s.first + Len(s.data) = l + n + 1 => l + n = given
    BY SMTT(60), <1>1, <1>4, <1>5
  <2>2. server'.fin => Len(server'.got) = given /\ c'.state \in {"FIN_WAIT", "FREE"}
    BY <1>2, <1>4, <1>6, <1>7, <2>1
  <2> QED
    BY <1>2, <1>5, <1>6, <1>7, <1>8, <2>2 DEF ServerGood
<1>10. NothingForgotten'
  <2>1. c.state # "FREE" => c.una \in Nat /\ c.una <= l
    BY <1>2, <1>1, HasIs DEF PageInv, NothingForgotten, PageGood, PageConn, l
  <2>2. c.state # "FREE" => c.una <= l + n
    BY <1>1, <1>5, <2>1
  <2>3. Has(server') \in Nat /\ Has(server') >= l + n
    BY <1>6, <1>7, <1>8, HasIs
  <2>4. c.state # "FREE" => c.una <= Has(server')
    BY <1>1, <1>5, <2>1, <2>2, <2>3
  <2> QED
    BY <1>2, <2>4 DEF NothingForgotten
<1> QED
  BY <1>2, <1>9, <1>10 DEF PageInv

\* An acknowledgment takes from the send buffer what the server has.
LEMMA AckedGood ==
  ASSUME PageSizes, PageInv, c.state \in Page!Open, NEW k \in Nat,
         k <= Has(server)
  PROVE  LET a == Page!AckedTo(k) IN
         /\ a \in PageConn /\ SendSide(a, given)
         /\ a.state = c.state /\ a.failed = c.failed /\ a.peerFin = c.peerFin /\ a.rx = c.rx /\ a.rcv = c.rcv
         /\ a.adv = c.adv
         /\ a.una <= Has(server)
<1> DEFINE a == Page!AckedTo(k)
<1>1. c \in PageConn /\ SendSide(c, given) /\ given \in Nat /\ c.state # "FREE" /\ c.una \in Nat /\ c.inflight \in Nat
  BY DEF PageInv, PageGood, Page!Open, PageConn
<1>2. CASE a = c
  BY <1>1, <1>2 DEF PageInv, NothingForgotten
<1>3. CASE c.fin = "sent" /\ k = c.una + 1
  <2>1. a = [c EXCEPT !.fin = "acked", !.una = k]
    BY <1>3 DEF Page!AckedTo
  <2>2. /\ a \in PageConn /\ a.fin = "acked" /\ a.una = k /\ a.tx = c.tx /\ a.inflight = c.inflight
        /\ a.state = c.state /\ a.failed = c.failed /\ a.peerFin = c.peerFin /\ a.rx = c.rx /\ a.rcv = c.rcv
        /\ a.adv = c.adv
    BY <1>1, <2>1 DEF PageConn
  <2> HIDE DEF a
  <2>3. SendSide(a, given)
    BY <1>1, <1>3, <2>2 DEF SendSide
  <2> QED
    BY <2>2, <2>3 DEF a
<1>4. CASE c.fin # "sent" /\ k \in c.una + 1 .. c.una + c.inflight
  <2>1. PICK n \in Nat : n = k - c.una /\ n <= c.inflight /\ n > 0
    BY <1>1, <1>4
  <2> DEFINE x == SubSeq(c.tx, n + 1, Len(c.tx))
  <2>2. a = [c EXCEPT !.tx = x, !.inflight = @ - n, !.una = @ + n, !.retries = 0]
    BY <1>4, <2>1 DEF Page!AckedTo, Page!Released
  <2>3. c.tx \in Seq(Nat) /\ Len(c.tx) \in Nat /\ c.inflight <= Len(c.tx)
    BY <1>1 DEF SendSide, PageConn
  <2>4. c.fin # "acked"
    <3>1. c.tx # <<>>
      BY <1>1, <2>1, <2>3
    <3> QED
      BY <1>1, <3>1 DEF SendSide
  <2>5. Follows(c.tx, c.una) /\ c.una + Len(c.tx) = given
    BY <1>1, <2>4 DEF SendSide
  <2> DEFINE i == c.inflight - n
             u == c.una + n
  <2>6. PICK l \in Nat : l = Len(c.tx) /\ n <= l
    BY <1>1, <2>1, <2>3
  <2>7. Follows(x, u) /\ Len(x) = l - n
    BY SMTT(60), <1>1, <2>1, <2>5, <2>6, PartFollows
  <2>8. i \in Nat /\ u \in Nat /\ u = k /\ i <= l - n /\ u + (l - n) = given
    <3>1. i \in Nat /\ i <= l - n
      <4>1. PICK f \in Nat : f = c.inflight /\ f <= l /\ n <= f
        BY <1>1, <2>1, <2>3, <2>6
      <4>2. f - n \in Nat /\ f - n <= l - n
        BY <2>1, <4>1
      <4> QED
        BY <4>1, <4>2
    <3>2. u \in Nat /\ u = k
      BY <1>1, <2>1
    <3>3. u + (l - n) = c.una + l
      BY <1>1, <2>1, <2>6
    <3> QED
      BY <2>5, <2>6, <3>1, <3>2, <3>3
  <2>9. x \in Seq(Nat)
    BY <2>7 DEF Follows
  <2>10. a = [c EXCEPT !.tx = x, !.inflight = i, !.una = u, !.retries = 0]
    BY <1>1, <2>2 DEF PageConn
  <2> HIDE DEF a, x, i, u
  <2>11. /\ a \in PageConn /\ a.fin = c.fin /\ a.una = u /\ a.tx = x /\ a.inflight = i
        /\ a.state = c.state /\ a.failed = c.failed /\ a.peerFin = c.peerFin /\ a.rx = c.rx /\ a.rcv = c.rcv
        /\ a.adv = c.adv
    BY <1>1, <2>8, <2>9, <2>10 DEF PageConn
  <2>12. c.state # "SYN_SENT"
    BY DEF Page!Open
  <2>13. SendSide(a, given)
    BY <1>1, <1>4, <2>4, <2>7, <2>8, <2>11, <2>12 DEF SendSide
  <2> QED
    BY <2>8, <2>11, <2>13 DEF a
<1> QED
  BY <1>2, <1>3, <1>4 DEF Page!AckedTo

\* What a segment brings continues the ring, as far as it has room, and the FIN is
\* taken after the last byte.
LEMMA ReceivedGood ==
  ASSUME PageSizes, PageInv, c.state \in Page!Open, NEW a, a \in PageConn, SendSide(a, given),
         a.state = c.state, a.failed = c.failed, a.peerFin = c.peerFin, a.rx = c.rx, a.rcv = c.rcv, a.adv = c.adv,
         NEW first \in 1 .. PageReply + 1, NEW last \in 0 .. PageReply, NEW fin \in BOOLEAN,
         last >= first - 1, fin => last = PageReply
  PROVE  LET d == Page!Received(a, first, last, fin) IN
         /\ d \in PageConn /\ SendSide(d, given) /\ ReceiveSide(d, read)
         /\ d.una = a.una /\ d.state \in Page!Open
         /\ c.state = "FIN_WAIT" => d.state = "FIN_WAIT"
         /\ ToldRoom(d) \/ Page!Answered(first, last, fin)
<1> DEFINE wanted == ~a.peerFin /\ a.state # "FIN_WAIT" /\ first <= a.rcv + 1 /\ last > a.rcv
           room == RxCap - Len(a.rx)
           n == Page!Taken(first, last, room)
           data == SubSeq(Page!Bytes(first, last), Page!Skip(first) + 1, Page!Skip(first) + n)
           y == SubSeq(data, 1, Page!Min({n, room}))
           x == a.rx \o y
           e == IF wanted THEN [a EXCEPT !.rx = x, !.rcv = @ + n] ELSE a
           d == Page!Received(a, first, last, fin)
<1>1. /\ ReceiveSide(a, read) /\ ToldRoom(a) /\ read \in Nat /\ given \in Nat
      /\ a.rx \in Seq(Nat) /\ Len(a.rx) \in Nat /\ a.rcv \in Nat /\ room \in Nat /\ PageReply \in Nat
      /\ first \in Nat /\ first >= 1 /\ last \in Nat /\ last <= PageReply
  <2>1. ReceiveSide(a, read) /\ ToldRoom(a) /\ read \in Nat /\ given \in Nat
    BY DEF PageInv, PageGood, ReceiveSide, ToldRoom, Page!Window
  <2>2. a.rx \in Seq(Nat) /\ Len(a.rx) \in Nat /\ a.rcv \in Nat /\ Len(a.rx) <= RxCap
    BY <2>1 DEF PageConn, ReceiveSide
  <2> QED
    BY SMTT(60), <2>1, <2>2 DEF PageSizes
<1>2. d = IF fin /\ last = e.rcv
          THEN [e EXCEPT !.rcv = @ + 1, !.peerFin = TRUE, !.state = IF @ = "ESTABLISHED" THEN "CLOSE_WAIT" ELSE @]
          ELSE e
  BY DEF Page!Received
<1>3. ASSUME wanted PROVE n \in Nat /\ Follows(y, a.rcv) /\ Len(y) = n /\ n <= room /\ a.rcv + n <= last
  <2>1. last - a.rcv \in Nat /\ last - a.rcv > 0
    BY SMTT(60), <1>1, <1>3
  <2>2. n = Page!Min({last - a.rcv, room})
    BY DEF Page!Taken
  <2>3. n \in Nat /\ n <= room /\ n <= last - a.rcv
    <3>1. PICK q \in Int : q = last - a.rcv /\ q > 0
      BY <2>1
    <3>2. n = Page!Min({q, room}) /\ room \in Int /\ room >= 0
      BY <1>1, <2>2, <3>1
    <3> HIDE DEF room, n
    <3>3. n \in {q, room} /\ n <= q /\ n <= room
      BY <3>1, <3>2, LesserOf
    <3> QED
      BY <3>1, <3>2, <3>3
  <2> HIDE DEF n
  <2>4. Page!Min({n, room}) = n
    <3>1. n \in Int /\ room \in Int
      BY <1>1, <2>3
    <3>2. Page!Min({n, room}) \in {n, room} /\ Page!Min({n, room}) <= n
      BY <3>1, LesserOf
    <3> QED
      BY <1>1, <2>3, <3>2
  <2>5. PICK f \in Nat : first = f + 1 /\ f <= last
    BY <1>1
  <2>6. Follows(Page!Bytes(first, last), f) /\ Len(Page!Bytes(first, last)) = last - f
    BY <1>1, <2>5, BytesFollow
  <2>7. PICK m \in Nat : m = Page!Skip(first) /\ f + m = a.rcv
    BY <1>1, <1>3, <2>5 DEF Page!Skip
  <2>8. m + n \in Nat /\ m <= m + n /\ m + n <= last - f /\ (m + n) - m = n
    <3>1. last \in Nat /\ a.rcv \in Nat
      BY <1>1
    <3>2. n \in Nat /\ n <= last - a.rcv
      BY <2>3
    <3>3. f + m = a.rcv
      BY <2>7
    <3>4. n <= last - (f + m)
      BY <3>2, <3>3
    <3> QED
      BY SMTT(60), <3>1, <3>2, <3>4
  <2>9. Follows(data, a.rcv) /\ Len(data) = n
    <3>1. PICK k \in Nat : k = m + n
      BY <2>8
    <3>2. Follows(SubSeq(Page!Bytes(first, last), m + 1, k), f + m) /\ Len(SubSeq(Page!Bytes(first, last), m + 1, k)) = k - m
      BY SMTT(60), <2>6, <2>8, <3>1, PartFollows
    <3> QED
      BY <2>7, <2>8, <3>1, <3>2
  <2> HIDE DEF data
  <2>10. Follows(SubSeq(data, 1, n), a.rcv) /\ Len(SubSeq(data, 1, n)) = n
    BY <1>1, <2>3, <2>9, FrontFollows
  <2>11. a.rcv + n <= last
    BY <1>1, <2>3
  <2> QED
    BY <2>3, <2>4, <2>10, <2>11
<1> HIDE DEF y, n
<1>4. /\ e \in PageConn /\ e.state = a.state /\ e.failed = a.failed /\ e.una = a.una /\ e.tx = a.tx
      /\ e.inflight = a.inflight /\ e.fin = a.fin /\ e.peerFin = a.peerFin /\ e.adv = a.adv
      /\ ReceiveSide(e, read)
      /\ ToldRoom(e) \/ Page!Answered(first, last, fin)
  <2>1. CASE wanted
    <3>1. a.state \in {"ESTABLISHED", "CLOSE_WAIT"} /\ ~a.peerFin
      BY <2>1 DEF Page!Open
    <3>2. a.state = "ESTABLISHED" /\ a.rcv = read + Len(a.rx) /\ Follows(a.rx, read)
      BY <1>1, <3>1 DEF ReceiveSide
    <3>3. n \in Nat /\ Follows(y, read + Len(a.rx)) /\ Len(y) = n /\ n <= room
      BY <1>3, <2>1, <3>2
    <3>4. Follows(x, read) /\ Len(x) = Len(a.rx) + n
      BY <1>1, <3>2, <3>3, BothFollow
    <3>5. x \in Seq(Nat) /\ a.rcv + n \in Nat /\ a.rcv + n = read + Len(x) /\ Len(x) <= RxCap
      BY <1>1, <3>2, <3>3, <3>4 DEF Follows, PageSizes
    <3> HIDE DEF x
    <3>6. e = [a EXCEPT !.rx = x, !.rcv = @ + n]
      BY <2>1
    <3>7. /\ e \in PageConn /\ e.state = a.state /\ e.failed = a.failed /\ e.una = a.una /\ e.tx = a.tx
          /\ e.inflight = a.inflight /\ e.fin = a.fin /\ e.peerFin = a.peerFin /\ e.adv = a.adv
          /\ e.rx = x /\ e.rcv = a.rcv + n
      BY <3>5, <3>6 DEF PageConn
    <3> HIDE DEF e
    <3>8. ReceiveSide(e, read)
      BY <3>1, <3>2, <3>4, <3>5, <3>7 DEF ReceiveSide
    <3>9. Page!Answered(first, last, fin)
      BY <1>1, <2>1, <3>1 DEF Page!Answered
    <3> QED
      BY <3>7, <3>8, <3>9
  <2>2. CASE ~wanted
    BY <1>1, <2>2
  <2> QED
    BY <2>1, <2>2
<1> HIDE DEF e, wanted
<1>5. SendSide(e, given)
  BY <1>4 DEF SendSide
<1>6. CASE ~(fin /\ last = e.rcv)
  <2>1. d = e
    BY <1>2, <1>6
  <2> QED
    BY <1>4, <1>5, <2>1
<1>7. CASE fin /\ last = e.rcv
  <2>1. d = [e EXCEPT !.rcv = @ + 1, !.peerFin = TRUE, !.state = IF @ = "ESTABLISHED" THEN "CLOSE_WAIT" ELSE @]
    BY <1>2, <1>7
  <2> DEFINE st == IF e.state = "ESTABLISHED" THEN "CLOSE_WAIT" ELSE e.state
  <2>2. st \in Page!Open /\ e.rcv + 1 \in Nat /\ e.rcv = PageReply
    BY SMTT(60), <1>4, <1>7 DEF PageConn, Page!Open
  <2>3. /\ d \in PageConn /\ d.state = st /\ d.failed = e.failed /\ d.una = e.una /\ d.tx = e.tx
        /\ d.inflight = e.inflight /\ d.fin = e.fin /\ d.peerFin /\ d.rx = e.rx /\ d.rcv = e.rcv + 1
    BY <1>4, <2>1, <2>2 DEF PageConn
  <2>4. e.state # "CLOSE_WAIT"
    BY <1>1, <1>4, <2>2 DEF ReceiveSide
  <2>5. st \in {"CLOSE_WAIT", "FIN_WAIT"} /\ (st = "FIN_WAIT" <=> e.state = "FIN_WAIT")
        /\ (st = "CLOSE_WAIT" <=> e.state = "ESTABLISHED")
    BY <2>2, <2>4, <1>4 DEF Page!Open
  <2> HIDE DEF st, d
  <2>6. SendSide(d, given)
    BY <1>5, <2>3, <2>4, <2>5 DEF SendSide
  <2>7. ReceiveSide(d, read)
    BY <1>4, <2>2, <2>3, <2>5 DEF ReceiveSide
  <2>8. ToldRoom(d)
    BY <2>3, <2>5 DEF ToldRoom
  <2> QED
    BY <1>4, <2>2, <2>3, <2>5, <2>6, <2>7, <2>8 DEF d
<1> QED
  BY <1>6, <1>7

\* onTcp(), a segment of the server's stream.
LEMMA ArrivesStep == ASSUME PageSizes, PageInv, Page!Sends PROVE PageInv'
<1>1. PICK first \in 1 .. PageReply + 1, last \in 0 .. PageReply, fin \in BOOLEAN,
           k \in 0 .. Has(server) :
        last >= first - 1 /\ (fin => last = PageReply) /\ Page!Arrives(first, last, fin, k)
  BY DEF Page!Sends, Page!FinNumber, Has
<1> DEFINE a == Page!AckedTo(k)
           d == Page!Received(a, first, last, fin)
           s == IF Page!Answered(first, last, fin) THEN Page!Announces(d) ELSE d
<1>2. /\ c.state \in Page!Open /\ given' = given /\ read' = read /\ server' = server
      /\ \/ c' = Page!Free /\ pageWire' = pageWire
         \/ Page!Becomes(s)
  BY <1>1 DEF Page!Arrives
<1>3. given \in Nat /\ read \in Nat /\ k \in Nat /\ k <= Has(server)
  <2>1. given \in Nat /\ read \in Nat /\ Has(server) \in Nat
    BY HasIs DEF PageInv, ServerGood
  <2> QED
    BY <2>1
<1>4. /\ a \in PageConn /\ SendSide(a, given)
      /\ a.state = c.state /\ a.failed = c.failed /\ a.peerFin = c.peerFin /\ a.rx = c.rx /\ a.rcv = c.rcv
      /\ a.adv = c.adv
      /\ a.una <= Has(server)
  BY <1>2, <1>3, AckedGood
<1> HIDE DEF a
<1>5. /\ d \in PageConn /\ SendSide(d, given) /\ ReceiveSide(d, read)
      /\ d.una = a.una /\ d.state \in Page!Open
      /\ c.state = "FIN_WAIT" => d.state = "FIN_WAIT"
      /\ ToldRoom(d) \/ Page!Answered(first, last, fin)
  BY <1>1, <1>2, <1>4, ReceivedGood
<1> HIDE DEF d
<1>6. PageGood(s, given, read) /\ s.state = d.state /\ s.una = d.una
  BY <1>3, <1>5, Announced DEF PageGood
<1> HIDE DEF s
<1>7. CASE c' = Page!Free /\ pageWire' = pageWire
  BY <1>2, <1>7, FreeStep
<1>8. CASE Page!Becomes(s)
  <2>1. s.state # "FREE" /\ c.state # "FREE" /\ (c.state = "FIN_WAIT" => s.state = "FIN_WAIT")
    BY <1>2, <1>5, <1>6 DEF Page!Open
  <2>2. given' \in Nat /\ given <= given' /\ read' \in Nat /\ PageGood(s, given', read')
    BY <1>2, <1>3, <1>6
  <2>3. s.una <= Has(server)
    BY <1>4, <1>5, <1>6
  <2> QED
    BY <1>2, <1>8, <2>1, <2>2, <2>3, GoodStep
<1> QED
  BY <1>2, <1>7, <1>8

LEMMA PageInitially == ASSUME PageSizes, Page!Init PROVE PageInv
<1>1. PICK wait \in BOOLEAN : c = [Page!Free EXCEPT !.state = "SYN_SENT", !.arpWait = wait, !.adv = RxWindow]
  BY DEF Page!Init
<1>2. given = 0 /\ read = 0 /\ pageWire = {} /\ server = [got |-> <<>>, fin |-> FALSE]
  BY DEF Page!Init
<1>3. /\ c \in PageConn /\ c.state = "SYN_SENT" /\ c.una = 0 /\ c.tx = <<>> /\ c.inflight = 0 /\ c.fin = "no"
      /\ c.peerFin = FALSE /\ c.rx = <<>> /\ c.rcv = 0
  <2>1. RxWindow \in Int /\ <<>> \in Seq(Nat)
    BY DEF PageSizes
  <2>2. c = [state |-> "SYN_SENT", failed |-> FALSE, una |-> 0, tx |-> <<>>, inflight |-> 0, fin |-> "no",
             peerFin |-> FALSE, retries |-> 0, arpWait |-> wait, rx |-> <<>>, rcv |-> 0, adv |-> RxWindow]
    BY <1>1 DEF Page!Free
  <2> QED
    BY <2>1, <2>2 DEF PageConn
<1>4. SendSide(c, given) /\ ReceiveSide(c, read) /\ ToldRoom(c)
  BY <1>2, <1>3, NothingFollows DEF SendSide, ReceiveSide, ToldRoom, PageSizes
<1>5. ServerGood /\ NothingForgotten
  <2>1. server \in [got : Seq(Nat), fin : BOOLEAN]
    BY <1>2
  <2>2. Has(server) \in Nat
    BY <2>1, HasIs
  <2> QED
    BY <1>2, <1>3, <2>2, <2>1, NothingFollows DEF ServerGood, NothingForgotten
<1> QED
  BY <1>2, <1>3, <1>4, <1>5 DEF PageInv, PageGood

LEMMA PageStep == ASSUME PageSizes, PageInv, [Page!Next]_Page!vars PROVE PageInv'
<1>1. CASE Page!Next
  BY <1>1, SendStep, RetransmitStep, EndStep, AcceptedStep, ArrivesStep, RecvStep, CloseStepOf, TakesStep DEF Page!Next
<1>2. CASE UNCHANGED Page!vars
  BY <1>2 DEF Page!vars, PageInv, ServerGood, NothingForgotten
<1> QED
  BY <1>1, <1>2

\* What the run checks follows.
LEMMA PageHolds ==
  ASSUME PageSizes, PageInv
  PROVE  /\ Page!ServerGetsRequest /\ Page!FinComesLast
         /\ Page!ReplyIntact /\ Page!EndIsEnd /\ Page!WindowReopened
<1>1. Page!ServerGetsRequest
  <2>1. server.got = Page!Bytes(0 + 1, 0 + Len(server.got)) /\ Len(server.got) \in Nat
    BY FollowsIs DEF PageInv, ServerGood
  <2> QED
    BY <2>1 DEF PageInv, ServerGood, Page!ServerGetsRequest
<1>2. Page!FinComesLast
  BY DEF PageInv, ServerGood, Page!FinComesLast
<1>3. Page!ReplyIntact
  BY FollowsIs DEF PageInv, PageGood, ReceiveSide, Page!ReplyIntact
<1>4. Page!EndIsEnd
  BY DEF PageInv, PageGood, ReceiveSide, Page!EndIsEnd
<1>5. Page!WindowReopened
  <2>1. SUFFICES ASSUME c.state = "ESTABLISHED", ~c.failed, c.rx = <<>> PROVE c.adv + MssIn > RxWindow
    BY DEF Page!WindowReopened
  <2>2. Page!Window(c) < c.adv + MssIn /\ c.adv \in Int /\ Len(c.rx) = 0 /\ c.rx \in Seq(Nat)
    BY <2>1 DEF PageInv, PageGood, ToldRoom, PageConn
  <2>3. Page!Window(c) \in {RxCap, RxWindow}
    BY <2>2, WindowIs DEF PageSizes
  <2> QED
    BY <2>2, <2>3 DEF PageSizes
<1> QED
  BY <1>1, <1>2, <1>3, <1>4, <1>5

-----------------------------------------------------------------------------
(* JugWindow: a user's job is nobody else's to stop, and only what the list  *)
(* has is installed.                                                         *)

Builds == [Programs -> Nat]
JugJob == [what : {"NO_JOB", "LIST", "PROGRAM"}, checking : BOOLEAN, current : Programs \cup {0}, data : Nat]

\* The window, its files and the list hold what they should.
WindowTypes ==
    /\ list \in Builds /\ file \in Builds /\ jugReg \in Builds
    /\ model \in [catalog : Builds, registry : Builds, here : Builds, sum : Builds, dirty : BOOLEAN]
    /\ jugJob \in JugJob
    /\ queue \in SUBSET Programs

\* Only a list is fetched unasked, and a program that is fetched is one of the list's.
JobFits == /\ jugJob.checking => jugJob.what = "LIST"
           /\ jugJob.what = "PROGRAM" => jugJob.current \in Programs

WindowInv == WindowTypes /\ JobFits /\ Window!QueueIsWorkedOn

LEMMA NoJobIs ==
  Window!NoJob \in JugJob /\ Window!NoJob.what = "NO_JOB" /\ ~Window!NoJob.checking /\ Window!NoJob.current = 0
BY DEF Window!NoJob, JugJob

LEMMA WindowInit == ASSUME Window!Init PROVE WindowInv
<1>1. list \in Builds /\ file \in Builds /\ jugReg \in Builds /\ Window!NoList \in Builds /\ Window!Unread \in Builds
  BY DEF Window!Init, Builds, Window!NoList, Window!Unread
<1>2. model \in [catalog : Builds, registry : Builds, here : Builds, sum : Builds, dirty : BOOLEAN]
  BY <1>1 DEF Window!Init
<1>3. jugJob \in JugJob /\ jugJob.what = "LIST" /\ ~jugJob.checking
  BY DEF Window!Init, Window!NoJob, JugJob
<1>4. queue \in SUBSET Programs /\ queue = {}
  BY DEF Window!Init
<1> QED
  BY <1>1, <1>2, <1>3, <1>4 DEF WindowInv, WindowTypes, JobFits, Window!QueueIsWorkedOn

\* The first of some rows is one of them.
LEMMA FirstIs == ASSUME Programs \subseteq Nat, NEW S \in SUBSET Programs, S # {} PROVE Window!FirstRow(S) \in S
<1>1. PICK x \in S : \A y \in S : x <= y
  BY LeastExists
<1> QED
  BY <1>1 DEF Window!FirstRow

\* startProgram() and nextInQueue() leave a queue only behind a program.
LEMMA FetchingFits ==
  ASSUME Programs \subseteq Nat, NEW q \in SUBSET Programs, list \in Builds, Window!Fetching(q)
  PROVE  /\ jugJob' \in JugJob /\ queue' \in SUBSET Programs
         /\ JobFits' /\ Window!QueueIsWorkedOn'
<1> DEFINE s == {p \in q : model'.catalog[p] # 0}
           f == Window!FirstRow(s)
<1>1. CASE s = {}
  BY <1>1, NoJobIs DEF Window!Fetching, JobFits, Window!QueueIsWorkedOn
<1>2. CASE s # {}
  <2>1. jugJob' = [Window!NoJob EXCEPT !.what = "PROGRAM", !.current = f, !.data = list[f]]
        /\ queue' \subseteq Programs
    BY <1>2 DEF Window!Fetching
  <2>2. f \in Programs
    BY <1>2, FirstIs
  <2>3. list[f] \in Nat
    BY <2>2 DEF Builds
  <2> HIDE DEF f
  <2> QED
    BY <2>1, <2>2, <2>3 DEF JobFits, Window!QueueIsWorkedOn, Window!NoJob, JugJob
<1> QED
  BY <1>1, <1>2

\* Every step's model, files and list are of their types, whatever the job.
LEMMA ModelTypes ==
  ASSUME Programs \subseteq Nat, WindowTypes, JobFits, Window!Next
  PROVE  /\ list' \in Builds /\ file' \in Builds /\ jugReg' \in Builds
         /\ model' \in [catalog : Builds, registry : Builds, here : Builds, sum : Builds, dirty : BOOLEAN]
<1> DEFINE M == [catalog : Builds, registry : Builds, here : Builds, sum : Builds, dirty : BOOLEAN]
<1> USE DEF WindowTypes
<1>u. Window!Unread \in Builds
  BY DEF Window!Unread, Builds
<1>e. \A f \in Builds : \A p \in Programs : \A n \in Nat : [f EXCEPT ![p] = n] \in Builds
  BY DEF Builds
<1>1. CASE UNCHANGED <<list, file, jugReg, model>>
  BY <1>1
<1>2. CASE Window!FinishList
  BY <1>2, <1>u DEF Window!FinishList, Window!disk
<1>3. CASE Window!FinishProgram /\ ~UNCHANGED <<file, jugReg, model, restamp>>
  <2>1. jugJob.current \in Programs /\ jugJob.data \in Nat
    BY <1>3 DEF Window!FinishProgram, JobFits, JugJob
  <2> DEFINE p == jugJob.current
             m == [model EXCEPT !.registry[p] = jugJob.data]
  <2>2. file' = [file EXCEPT ![p] = jugJob.data] /\ jugReg' = [model.registry EXCEPT ![p] = jugJob.data]
        /\ model' = Window!Rescanned(m) /\ list' = list
    BY <1>3 DEF Window!FinishProgram
  <2>3. file' \in Builds /\ jugReg' \in Builds
    BY <2>1, <2>2, <1>e
  <2>4. m \in M
    BY <2>1 DEF Builds
  <2> HIDE DEF m
  <2> QED
    BY <2>2, <2>3, <2>4, <1>u DEF Window!Rescanned
<1>4. CASE Window!FinishProgram /\ UNCHANGED <<file, jugReg, model, restamp>>
  BY <1>4 DEF Window!FinishProgram
<1>5. CASE Window!HashNext
  <2> DEFINE p == Window!FirstRow(Window!Rows("Unknown"))
  <2>1. UNCHANGED <<list, file, jugReg>>
    BY <1>5 DEF Window!HashNext
  <2>2. \/ file[p] # 0 /\ model' = [model EXCEPT !.sum[p] = file[p], !.registry[p] = file[p], !.dirty = TRUE]
        \/ file[p] = 0 /\ model' = [model EXCEPT !.here[p] = 0]
    BY <1>5 DEF Window!HashNext
  <2>3. p \in Programs
    <3>1. Window!Rows("Unknown") \in SUBSET Programs /\ Window!Rows("Unknown") # {}
      BY <1>5 DEF Window!HashNext, Window!Rows
    <3> QED
      BY <3>1, FirstIs
  <2>4. file[p] \in Nat
    BY <2>3 DEF Builds
  <2> HIDE DEF p
  <2>5. [model.sum EXCEPT ![p] = file[p]] \in Builds /\ [model.registry EXCEPT ![p] = file[p]] \in Builds
        /\ [model.here EXCEPT ![p] = 0] \in Builds
    BY <2>3, <2>4, <1>e
  <2>6. model' \in M
    BY <2>2, <2>5
  <2> QED
    BY <2>1, <2>6
<1>6. CASE Window!Restamp
  BY <1>6 DEF Window!Restamp, Window!HashSaves
<1>7. CASE Window!LookAtDisk
  BY <1>7, <1>u DEF Window!LookAtDisk, Window!Rescanned, Window!disk
<1>8. ASSUME NEW p \in Programs, Window!RemoveDownload(p)
      PROVE  list' \in Builds /\ file' \in Builds /\ jugReg' \in Builds /\ model' \in M
  <2> DEFINE m == [model EXCEPT !.registry[p] = 0]
  <2>1. file' = [file EXCEPT ![p] = 0] /\ jugReg' = [model.registry EXCEPT ![p] = 0]
        /\ model' = Window!Rescanned(m) /\ list' = list
    BY <1>8 DEF Window!RemoveDownload
  <2>2. file' \in Builds /\ jugReg' \in Builds
    BY <2>1, <1>e
  <2>3. m \in M
    BY DEF Builds
  <2> HIDE DEF m
  <2> QED
    BY <2>1, <2>2, <2>3, <1>u DEF Window!Rescanned
<1>9. ASSUME NEW p \in Programs, Window!Console(p) \/ Window!Released(p)
      PROVE  list' \in Builds /\ file' \in Builds /\ jugReg' \in Builds /\ model' \in M
  BY <1>9 DEF Window!Console, Window!Released, Window!disk, Builds
<1>10. CASE Window!Check \/ Window!GetAll \/ Window!Update \/ Window!Escape \/ Window!Answer \/ Window!ComesDue
  BY <1>10, <1>1 DEF Window!Check, Window!GetAll, Window!Update, Window!Escape, Window!Answer,
     Window!ComesDue, Window!disk
<1>11. ASSUME NEW p \in Programs, Window!Get(p) \/ Window!Ask(p)
       PROVE  UNCHANGED <<list, file, jugReg, model>>
  BY <1>11 DEF Window!Get, Window!Ask, Window!disk
<1> QED
  BY <1>1, <1>2, <1>3, <1>4, <1>5, <1>6, <1>7, <1>8, <1>9, <1>10, <1>11
     DEF Window!Next, Window!Idle, Window!User, Window!Others

\* What became of the job and the queue: they stay, or end together, or make way for a list,
\* or for the programs of a new queue.
LEMMA JobSteps ==
  ASSUME Programs \subseteq Nat, WindowInv, Window!Next
  PROVE  \/ UNCHANGED <<jugJob, queue>>
         \/ jugJob' = Window!NoJob /\ queue' = {}
         \/ \E a \in BOOLEAN : Window!StartList(a)
         \/ \E q \in SUBSET Programs : Window!Fetching(q)
         \/ jugJob.what = "LIST" /\ jugJob' = [jugJob EXCEPT !.checking = FALSE] /\ queue' = queue
<1> USE DEF WindowInv, WindowTypes
<1>q. jugJob.what # "PROGRAM" => queue = {}
  BY DEF Window!QueueIsWorkedOn
<1>1. CASE Window!FinishList
  BY <1>1, <1>q DEF Window!FinishList
<1>2. CASE Window!FinishProgram
  BY <1>2 DEF Window!FinishProgram
<1>3. CASE Window!HashNext \/ Window!Restamp \/ Window!LookAtDisk
  BY <1>3 DEF Window!HashNext, Window!Restamp, Window!LookAtDisk
<1>4. CASE Window!Check
  BY <1>4 DEF Window!Check
<1>5. ASSUME NEW p \in Programs, Window!Ask(p) \/ Window!RemoveDownload(p) \/ Window!Console(p) \/ Window!Released(p)
      PROVE  UNCHANGED <<jugJob, queue>>
  BY <1>5 DEF Window!Ask, Window!RemoveDownload, Window!Console, Window!Released
<1>6. ASSUME NEW p \in Programs, Window!Get(p), ~UNCHANGED <<jugJob, queue>>
      PROVE  \/ jugJob' = Window!NoJob /\ queue' = {}
             \/ \E q \in SUBSET Programs : Window!Fetching(q)
  <2>1. ~Window!Busy \/ Window!Yields
    BY <1>6 DEF Window!Get
  <2>2. queue = {}
    BY <1>q, <2>1 DEF Window!Busy, Window!Yields
  <2>3. {p} \in SUBSET Programs
    OBVIOUS
  <2> QED
    BY <1>6, <2>1, <2>2, <2>3 DEF Window!Get
<1>7. ASSUME Window!GetAll, ~UNCHANGED <<jugJob, queue>>
      PROVE  \/ jugJob' = Window!NoJob /\ queue' = {}
             \/ \E q \in SUBSET Programs : Window!Fetching(q)
  <2>1. ~Window!Busy \/ Window!Yields
    BY <1>7 DEF Window!GetAll
  <2>2. queue = {}
    BY <1>q, <2>1 DEF Window!Busy, Window!Yields
  <2>3. Window!Rows("Outdated") \in SUBSET Programs
    BY DEF Window!Rows
  <2> QED
    BY <1>7, <2>1, <2>2, <2>3 DEF Window!GetAll
<1>8. CASE Window!Update
  <2>1. CASE ~Window!Busy
    BY <1>8, <2>1 DEF Window!Update
  <2>2. CASE Window!Busy
    BY <1>8, <2>2 DEF Window!Update
  <2> QED
    BY <2>1, <2>2
<1>9. CASE Window!Escape
  BY <1>9 DEF Window!Escape, Window!StoppedQueue
<1>10. CASE Window!Answer \/ Window!ComesDue
  BY <1>10 DEF Window!Answer, Window!ComesDue
<1> QED
  BY <1>1, <1>2, <1>3, <1>4, <1>5, <1>6, <1>7, <1>8, <1>9, <1>10
     DEF Window!Next, Window!Idle, Window!User, Window!Others

LEMMA WindowStep == ASSUME Programs \subseteq Nat, WindowInv, [Window!Next]_Window!vars PROVE WindowInv'
<1>1. CASE Window!Next
  <2>1. /\ list' \in Builds /\ file' \in Builds /\ jugReg' \in Builds
        /\ model' \in [catalog : Builds, registry : Builds, here : Builds, sum : Builds, dirty : BOOLEAN]
    BY <1>1, ModelTypes DEF WindowInv
  <2>2. jugJob' \in JugJob /\ queue' \in SUBSET Programs /\ JobFits' /\ Window!QueueIsWorkedOn'
    <3>1. CASE UNCHANGED <<jugJob, queue>>
      BY <3>1 DEF WindowInv, WindowTypes, JobFits, Window!QueueIsWorkedOn
    <3>2. CASE jugJob' = Window!NoJob /\ queue' = {}
      BY <3>2, NoJobIs DEF JobFits, Window!QueueIsWorkedOn
    <3>3. ASSUME NEW a \in BOOLEAN, Window!StartList(a)
          PROVE  jugJob' \in JugJob /\ queue' \in SUBSET Programs /\ JobFits' /\ Window!QueueIsWorkedOn'
      BY <3>3 DEF Window!StartList, Window!NoJob, JugJob, JobFits, Window!QueueIsWorkedOn
    <3>4. ASSUME NEW q \in SUBSET Programs, Window!Fetching(q)
          PROVE  jugJob' \in JugJob /\ queue' \in SUBSET Programs /\ JobFits' /\ Window!QueueIsWorkedOn'
      BY <3>4, FetchingFits DEF WindowInv, WindowTypes
    <3>5. CASE jugJob.what = "LIST" /\ jugJob' = [jugJob EXCEPT !.checking = FALSE] /\ queue' = queue
      BY <3>5 DEF WindowInv, WindowTypes, JobFits, Window!QueueIsWorkedOn, JugJob
    <3> QED
      BY <1>1, JobSteps, <3>1, <3>2, <3>3, <3>4, <3>5
  <2> QED
    BY <2>1, <2>2 DEF WindowInv, WindowTypes
<1>2. CASE UNCHANGED Window!vars
  BY <1>2 DEF Window!vars, WindowInv, WindowTypes, JobFits, Window!QueueIsWorkedOn
<1> QED
  BY <1>1, <1>2

\* install(), cmdRemove() and the console's jug are the only ones to change a file.
LEMMA OnlyListed == ASSUME WindowInv, Window!Next PROVE Window!InstallsTheListed
<1> SUFFICES ASSUME NEW p \in Programs, file'[p] # file[p], ~Window!Console(p)
             PROVE  file'[p] \in {0, model.catalog[p]}
  BY DEF Window!InstallsTheListed
<1> USE DEF WindowInv, WindowTypes, Builds
<1>1. CASE Window!FinishProgram
  BY <1>1 DEF Window!FinishProgram, Window!IsListed
<1>2. ASSUME NEW q \in Programs, Window!RemoveDownload(q) PROVE file'[p] \in {0, model.catalog[p]}
  BY <1>2 DEF Window!RemoveDownload
<1>3. ASSUME NEW q \in Programs, Window!Console(q) PROVE FALSE
  <2>1. q # p
    BY <1>3
  <2> QED
    BY <1>3, <2>1 DEF Window!Console
<1>4. ASSUME NEW q \in Programs, Window!Get(q) \/ Window!Ask(q) \/ Window!Released(q) PROVE FALSE
  BY <1>4 DEF Window!Get, Window!Ask, Window!Released, Window!disk
<1>5. CASE Window!FinishList \/ Window!HashNext \/ Window!Restamp \/ Window!LookAtDisk \/ Window!Check
  BY <1>5 DEF Window!FinishList, Window!HashNext, Window!Restamp, Window!LookAtDisk, Window!Check, Window!disk
<1>6. CASE Window!GetAll \/ Window!Update \/ Window!Escape \/ Window!Answer \/ Window!ComesDue
  BY <1>6 DEF Window!GetAll, Window!Update, Window!Escape, Window!Answer, Window!ComesDue, Window!disk
<1> QED
  BY <1>1, <1>2, <1>3, <1>4, <1>5, <1>6 DEF Window!Next, Window!Idle, Window!User, Window!Others

\* yieldCheck(): a job the user asked for yields to no key and no check.
LEMMA JobStands == ASSUME WindowInv, Window!Next PROVE Window!UsersJobStands
<1> SUFFICES ASSUME Window!Busy, ~jugJob.checking, jugJob' # jugJob,
                    ~(Window!Escape \/ Window!FinishList \/ Window!FinishProgram)
             PROVE  FALSE
  BY DEF Window!UsersJobStands
<1>1. ASSUME NEW p \in Programs, Window!Get(p) \/ Window!Ask(p) \/ Window!RemoveDownload(p) \/ Window!Console(p)
             \/ Window!Released(p) PROVE FALSE
  BY <1>1 DEF Window!Get, Window!Ask, Window!RemoveDownload, Window!Console, Window!Released, Window!Yields
<1>2. CASE Window!Update
  <2>1. jugJob \in JugJob
    BY DEF WindowInv, WindowTypes
  <2>2. [jugJob EXCEPT !.checking = FALSE] = jugJob
    BY <2>1 DEF JugJob
  <2> QED
    BY <1>2, <2>2 DEF Window!Update
<1>3. CASE Window!HashNext \/ Window!Restamp \/ Window!LookAtDisk \/ Window!Check
  BY <1>3 DEF Window!HashNext, Window!Restamp, Window!LookAtDisk, Window!Check, Window!Read
<1>4. CASE Window!GetAll \/ Window!Answer \/ Window!ComesDue
  BY <1>4 DEF Window!GetAll, Window!Answer, Window!ComesDue, Window!Yields
<1> QED
  BY <1>1, <1>2, <1>3, <1>4 DEF Window!Next, Window!Idle, Window!User, Window!Others

-----------------------------------------------------------------------------
(* MdnsBrowse: what is listed is served, and what is served stays listed.    *)

\* A machine has finitely many servers and names, and no address is 0.  Records live for
\* some time (MDNS_TTL_OTHER 4500, MDNS_TTL_HOST 120) and are asked for again at least once
\* (REFRESHES 4).
MdnsSizes == /\ IsFiniteSet(Announcers) /\ IsFiniteSet(MachineNames) /\ 1 \in MachineNames
             /\ PtrTtl \in Nat \ {0} /\ HostTtl \in Nat \ {0} /\ Refreshes \in Nat \ {0}

\* The frames of a sequence.
Members(s) == {s[k] : k \in 1 .. Len(s)}

MdnsService == [ptr : Nat, ptrBye : BOOLEAN, ptrDone : Nat, srv : Nat, srvBye : BOOLEAN, srvDone : Nat, asks : Nat]

MdnsTypes ==
    /\ running \subseteq Announcers /\ name \in MachineNames
    /\ mdnsKnown \subseteq Mdns!Insts
    /\ \E F : mdnsNet \in Seq(F)
    /\ mdnsCache \in [Mdns!Insts -> MdnsService]
    /\ since \in [Mdns!Insts -> Nat]
    /\ lost \in BOOLEAN

\* What mdnsd answers for is served, as of the last second.
KnownServed == \A i \in Mdns!Insts : i \in mdnsKnown /\ mdnsIp # 0 => since[i] = 0

\* Frames on the way announce what is served, and say goodbye to what is not.
FramesTrue == \A f \in Members(mdnsNet) :
    /\ f.kind \in {"service", "host", "bye"}
    /\ f.kind # "host" => f.inst \in Mdns!Insts
    /\ f.kind = "service" => f.inst \in mdnsKnown /\ mdnsIp # 0
    /\ f.kind = "bye" => f.inst \notin mdnsKnown

\* What is left of an SRV record and the time its service is gone make up no more than the
\* record's life.
AgeBounded == \A i \in Mdns!Insts : mdnsCache[i].srv > 0 /\ ~mdnsCache[i].srvBye => since[i] + mdnsCache[i].srv <= HostTtl

\* A frame of this kind about the service is on the way.
Coming(kind, i) == \E f \in Members(mdnsNet) : f.kind = kind /\ f.inst = i

\* While nothing is lost, what is listed is answered for, or its goodbye is on the way.
ListedKnown == ~lost => \A i \in Mdns!Insts : Mdns!Listed(i) => (i \in mdnsKnown /\ mdnsIp # 0) \/ Coming("bye", i)

\* While nothing is lost, what was asked for and is answered for is on the way.
AskedAnswered ==
    ~lost => \A i \in Mdns!Insts :
        Mdns!Listed(i) /\ i \in mdnsKnown /\ mdnsIp # 0 /\ (mdnsCache[i].ptrDone > 0 \/ mdnsCache[i].srvDone > 0)
            => Coming("service", i)

MdnsInv == MdnsTypes /\ KnownServed /\ FramesTrue /\ AgeBounded /\ ListedKnown /\ AskedAnswered

-----------------------------------------------------------------------------
LEMMA NoMembers == Members(<<>>) = {}
BY DEF Members

LEMMA OneMember == \A x : Members(<<x>>) = {x} /\ \E F : <<x>> \in Seq(F)
<1> TAKE x
<1>1. <<x>> \in Seq({x}) /\ Len(<<x>>) = 1 /\ <<x>>[1] = x
  OBVIOUS
<1>2. 1 .. Len(<<x>>) = {1}
  BY <1>1
<1>3. Members(<<x>>) = {x}
  BY <1>1, <1>2, Zenon DEF Members
<1> QED
  BY <1>1, <1>3

LEMMA JoinedMembers ==
  ASSUME NEW F, NEW s \in Seq(F), NEW t \in Seq(F)
  PROVE  s \o t \in Seq(F) /\ Members(s \o t) = Members(s) \cup Members(t)
<1>1. s \in Seq(F) /\ t \in Seq(F)
  OBVIOUS
<1>2. s \o t \in Seq(F) /\ Len(s \o t) = Len(s) + Len(t) /\ Len(s) \in Nat /\ Len(t) \in Nat
  BY <1>1
<1>3. \A k \in 1 .. Len(s) : k \in 1 .. Len(s \o t) /\ (s \o t)[k] = s[k]
  BY <1>1, <1>2
<1>4. \A k \in 1 .. Len(t) : Len(s) + k \in 1 .. Len(s \o t) /\ (s \o t)[Len(s) + k] = t[k]
  BY <1>1, <1>2
<1>5. \A k \in 1 .. Len(s \o t) : k \in 1 .. Len(s) \/ (k - Len(s) \in 1 .. Len(t) /\ (s \o t)[k] = t[k - Len(s)])
  BY <1>1, <1>2
<1>6. Members(s \o t) \subseteq Members(s) \cup Members(t)
  BY <1>3, <1>5 DEF Members
<1>7. Members(s) \subseteq Members(s \o t)
  BY <1>3 DEF Members
<1>8. Members(t) \subseteq Members(s \o t)
  BY <1>4 DEF Members
<1> QED
  BY <1>2, <1>6, <1>7, <1>8

LEMMA TakenMembers ==
  ASSUME NEW F, NEW s \in Seq(F), s # <<>>
  PROVE  Tail(s) \in Seq(F) /\ Head(s) \in Members(s) /\ Members(s) = {Head(s)} \cup Members(Tail(s))
<1>1. Tail(s) \in Seq(F) /\ Head(s) = s[1] /\ Len(s) \in Nat \ {0} /\ Len(Tail(s)) = Len(s) - 1
  OBVIOUS
<1>2. \A k \in 1 .. Len(Tail(s)) : k + 1 \in 1 .. Len(s) /\ Tail(s)[k] = s[k + 1]
  BY <1>1
<1>3. \A k \in 1 .. Len(s) : k = 1 \/ (k - 1 \in 1 .. Len(Tail(s)) /\ Tail(s)[k - 1] = s[k])
  BY <1>1
<1>4. 1 \in 1 .. Len(s)
  BY <1>1
<1> QED
  BY <1>1, <1>2, <1>3, <1>4 DEF Members

\* SetToSeq() of a finite set has its elements.
LEMMA SequenceOf ==
  ASSUME NEW S, IsFiniteSet(S) PROVE Mdns!SetToSeq(S) \in Seq(S) /\ Members(Mdns!SetToSeq(S)) = S
<1> DEFINE n == Cardinality(S)
<1>1. n \in Nat /\ ExistsBijection(1 .. n, S)
  BY FS_CardinalityType
<1>2. PICK g \in [1 .. n -> S] : \A a, b \in 1 .. n : g[a] = g[b] => a = b
  BY <1>1 DEF ExistsBijection, Bijection, Injection, IsInjective
<1>3. Mdns!Cardinality(S) = n
  BY DEF Mdns!Cardinality, Cardinality, Mdns!IsFiniteSet, IsFiniteSet
<1> HIDE DEF n
<1> DEFINE f == Mdns!SetToSeq(S)
<1>4. f \in [1 .. n -> S] /\ \A a, b \in 1 .. n : f[a] = f[b] => a = b
  <2>1. f = CHOOSE h \in [1 .. n -> S] : Mdns!IsInjective(h)
    BY <1>3 DEF Mdns!SetToSeq
  <2>2. Mdns!IsInjective(g)
    BY <1>2 DEF Mdns!IsInjective
  <2> HIDE DEF f
  <2>3. f \in [1 .. n -> S] /\ Mdns!IsInjective(f)
    BY <2>1, <2>2, <1>2, Zenon
  <2> QED
    BY <2>3 DEF Mdns!IsInjective
<1> HIDE DEF f
<1>5. f \in Injection(1 .. n, S)
  BY <1>4 DEF Injection, IsInjective
<1>6. IsFiniteSet(1 .. n) /\ Cardinality(1 .. n) = n
  BY <1>1, FS_Interval
<1>7. f \in Surjection(1 .. n, S)
  BY <1>5, <1>6, FS_Injection DEF n
<1>8. f \in Seq(S) /\ Len(f) = n
  BY <1>1, <1>4
<1>9. \A x \in S : \E k \in 1 .. n : f[k] = x
  BY <1>7 DEF Surjection
<1> QED
  BY <1>4, <1>8, <1>9 DEF f, Members

\* Announcements of some services, and goodbyes to them.
Announcing(K, n, a) == {Mdns!AnnounceService(i, n, a) : i \in K}
Goodbyes(K, n, a) == {Mdns!Goodbye(i, n, a) : i \in K}

LEMMA AnnouncingIs ==
  ASSUME NEW K, IsFiniteSet(K), NEW n, NEW a
  PROVE  /\ IsFiniteSet(Announcing(K, n, a))
         /\ \A f \in Announcing(K, n, a) : f.kind = "service" /\ f.inst \in K
         /\ \A i \in K : \E f \in Announcing(K, n, a) : f.kind = "service" /\ f.inst = i
<1>1. [i \in K |-> Mdns!AnnounceService(i, n, a)] \in Surjection(K, {Mdns!AnnounceService(i, n, a) : i \in K})
  BY DEF Surjection
<1>2. IsFiniteSet(Announcing(K, n, a))
  BY <1>1, FS_Surjection DEF Announcing
<1>3. \A i : Mdns!AnnounceService(i, n, a).kind = "service" /\ Mdns!AnnounceService(i, n, a).inst = i
  BY DEF Mdns!AnnounceService, Mdns!Frame
<1> QED
  BY <1>2, <1>3 DEF Announcing

LEMMA GoodbyesAre ==
  ASSUME NEW K, IsFiniteSet(K), NEW n, NEW a
  PROVE  /\ IsFiniteSet(Goodbyes(K, n, a))
         /\ \A f \in Goodbyes(K, n, a) : f.kind = "bye" /\ f.inst \in K
         /\ \A i \in K : \E f \in Goodbyes(K, n, a) : f.kind = "bye" /\ f.inst = i
<1>1. [i \in K |-> Mdns!Goodbye(i, n, a)] \in Surjection(K, {Mdns!Goodbye(i, n, a) : i \in K})
  BY DEF Surjection
<1>2. IsFiniteSet(Goodbyes(K, n, a))
  BY <1>1, FS_Surjection DEF Goodbyes
<1>3. \A i : Mdns!Goodbye(i, n, a).kind = "bye" /\ Mdns!Goodbye(i, n, a).inst = i
  BY DEF Mdns!Goodbye, Mdns!Frame
<1> QED
  BY <1>2, <1>3 DEF Goodbyes

-----------------------------------------------------------------------------
LEMMA NoServiceIs == Mdns!NoService \in MdnsService /\ Mdns!NoService.ptr = 0 /\ Mdns!NoService.srv = 0
BY DEF Mdns!NoService, MdnsService

\* on_ptr() and on_srv() of an announcement renew a service.
LEMMA Renewed ==
  ASSUME MdnsSizes, NEW s \in MdnsService, NEW r, r = Mdns!OnSrv(Mdns!OnPtr(s, FALSE), FALSE)
  PROVE  /\ r \in MdnsService /\ r.ptr = PtrTtl /\ r.srv = HostTtl /\ ~r.srvBye /\ ~r.ptrBye /\ r.ptrDone = 0 /\ r.srvDone = 0
<1> DEFINE t == Mdns!OnPtr(s, FALSE)
<1>1. t \in MdnsService /\ t.ptr = PtrTtl /\ ~t.ptrBye /\ t.ptrDone = 0
  BY DEF Mdns!OnPtr, MdnsSizes, MdnsService
<1> HIDE DEF t
<1>2. r = Mdns!OnSrv(t, FALSE)
  BY DEF t
<1>3. t.ptr # 0
  BY <1>1 DEF MdnsSizes
<1>4. r = [t EXCEPT !.srv = HostTtl, !.srvBye = FALSE, !.srvDone = 0, !.asks = 0]
  BY <1>2, <1>3, Zenon DEF Mdns!OnSrv
<1>5. PICK n \in Nat, d \in Nat, b \in BOOLEAN : n = HostTtl /\ d = 0 /\ b = FALSE
  BY DEF MdnsSizes
<1>6. r = [t EXCEPT !.srv = n, !.srvBye = b, !.srvDone = d, !.asks = d]
  BY <1>4, <1>5, Zenon
<1>7. /\ r \in MdnsService /\ r.ptr = t.ptr /\ r.ptrBye = t.ptrBye /\ r.ptrDone = t.ptrDone
      /\ r.srv = n /\ r.srvBye = b /\ r.srvDone = d
  BY <1>1, <1>6 DEF MdnsService
<1> QED
  BY <1>1, <1>5, <1>7

\* on_ptr() and on_srv() of a goodbye leave a service out of the list.
LEMMA SaidGoodbye ==
  ASSUME MdnsSizes, NEW s \in MdnsService, NEW r, r = Mdns!OnSrv(Mdns!OnPtr(s, TRUE), TRUE)
  PROVE  /\ r \in MdnsService
         /\ (r = s /\ s.ptr = 0) \/ (r.ptrBye /\ r.srvBye)
<1> DEFINE t == Mdns!OnPtr(s, TRUE)
<1>1. t \in MdnsService /\ ((t = s /\ s.ptr = 0) \/ (t.ptr = 1 /\ t.ptrBye))
  BY DEF Mdns!OnPtr, MdnsSizes, MdnsService
<1> HIDE DEF t
<1>2. r = Mdns!OnSrv(t, TRUE)
  BY DEF t
<1>3. CASE t = s /\ s.ptr = 0
  BY <1>2, <1>3 DEF Mdns!OnSrv
<1>4. CASE t.ptr = 1 /\ t.ptrBye
  <2>1. t.ptr # 0
    BY <1>4
  <2>2. r = [t EXCEPT !.srv = 1, !.srvBye = TRUE, !.srvDone = Refreshes, !.asks = 0]
    BY <1>2, <2>1, Zenon DEF Mdns!OnSrv
  <2>3. r \in MdnsService
    <3>1. PICK n \in Nat, d \in Nat, a \in Nat, b \in BOOLEAN : n = 1 /\ d = Refreshes /\ a = 0 /\ b = TRUE
      BY DEF MdnsSizes
    <3>2. r = [t EXCEPT !.srv = n, !.srvBye = b, !.srvDone = d, !.asks = a]
      BY <2>2, <3>1, Zenon
    <3> QED
      BY <1>1, <3>2 DEF MdnsService
  <2>4. r.ptrBye = t.ptrBye
    BY <1>1, <2>2 DEF MdnsService
  <2>5. r.srvBye = TRUE
    BY <1>1, <2>2 DEF MdnsService
  <2> QED
    BY <1>4, <2>3, <2>4, <2>5
<1> QED
  BY <1>1, <1>3, <1>4

\* browse_expire() for a service: it goes, or its records have a second less.
Aged(s) == IF s.ptr <= 1 THEN Mdns!NoService ELSE Mdns!SrvAfter([s EXCEPT !.ptr = @ - 1])

LEMMA AgedIs ==
  ASSUME NEW s \in MdnsService, NEW r, r = Aged(s)
  PROVE  /\ r \in MdnsService
         /\ \/ s.ptr <= 1 /\ r = Mdns!NoService
            \/ /\ s.ptr > 1 /\ r.ptr = s.ptr - 1 /\ r.ptrBye = s.ptrBye /\ r.srvBye = s.srvBye
               /\ r.ptrDone = s.ptrDone /\ r.srvDone = s.srvDone
               /\ r.srv = IF s.srv = 0 THEN 0 ELSE s.srv - 1
<1>1. CASE s.ptr <= 1
  BY <1>1, NoServiceIs DEF Aged
<1>2. CASE ~(s.ptr <= 1)
  <2> DEFINE t == [s EXCEPT !.ptr = s.ptr - 1]
  <2>1. /\ t \in MdnsService /\ t.ptr = s.ptr - 1 /\ t.ptrBye = s.ptrBye /\ t.srvBye = s.srvBye
        /\ t.ptrDone = s.ptrDone /\ t.srvDone = s.srvDone /\ t.srv = s.srv
    BY <1>2 DEF MdnsService
  <2>2. r = Mdns!SrvAfter(t)
    BY <1>2 DEF Aged
  <2>3. s.ptr \in Nat
    BY DEF MdnsService
  <2> HIDE DEF t
  <2>4. CASE t.srv = 0
    BY <2>1, <2>2, <2>3, <2>4, <1>2 DEF Mdns!SrvAfter
  <2>5. CASE t.srv # 0
    <3> DEFINE n == IF t.srv = 1 THEN 0 ELSE t.asks
    <3>1. t.srv \in Nat /\ n \in Nat
      BY <2>1 DEF MdnsService
    <3> HIDE DEF n
    <3>2. r = [t EXCEPT !.srv = t.srv - 1, !.asks = n]
      BY <2>2, <2>5 DEF Mdns!SrvAfter, n
    <3>3. PICK k \in Nat : k = t.srv - 1
      BY <3>1, <2>5
    <3>4. r = [t EXCEPT !.srv = k, !.asks = n]
      BY <3>2, <3>3
    <3>5. /\ r \in MdnsService /\ r.ptr = t.ptr /\ r.ptrBye = t.ptrBye /\ r.srvBye = t.srvBye
          /\ r.ptrDone = t.ptrDone /\ r.srvDone = t.srvDone /\ r.srv = k
      BY <2>1, <3>1, <3>4 DEF MdnsService
    <3> QED
      BY <2>1, <2>3, <2>5, <3>1, <3>3, <3>5, <1>2
  <2> QED
    BY <2>4, <2>5
<1> QED
  BY <1>1, <1>2

\* browse_query() changes only what was asked for.
LEMMA AskedIs ==
  ASSUME MdnsTypes, NEW type \in BOOLEAN, NEW i \in Mdns!Insts, NEW s, s = mdnsCache[i], NEW r, r = Mdns!Asked(type, i)
  PROVE  /\ r \in MdnsService
         /\ r.ptr = s.ptr /\ r.ptrBye = s.ptrBye /\ r.srv = s.srv /\ r.srvBye = s.srvBye
         /\ ~type => r.ptrDone = s.ptrDone /\ r.srvDone = s.srvDone
<1>1. s \in MdnsService
  BY DEF MdnsTypes
<1> DEFINE p == IF Mdns!RefreshDue(s.ptr, s.ptrDone) THEN s.ptrDone + 1 ELSE s.ptrDone
           v == IF Mdns!RefreshDue(s.srv, s.srvDone) THEN s.srvDone + 1 ELSE s.srvDone
           t == IF ~type \/ s.ptr = 0 THEN s ELSE [s EXCEPT !.ptrDone = p, !.srvDone = v]
           n == IF i \in Mdns!WantsSrv \cup Mdns!WantsA THEN t.asks + 1 ELSE t.asks
<1>2. p \in Nat /\ v \in Nat
  BY <1>1 DEF MdnsService
<1>3. r = [t EXCEPT !.asks = n]
  BY DEF Mdns!Asked
<1> HIDE DEF p, v
<1>4. /\ t \in MdnsService
      /\ t.ptr = s.ptr /\ t.ptrBye = s.ptrBye /\ t.srv = s.srv /\ t.srvBye = s.srvBye
      /\ ~type => t.ptrDone = s.ptrDone /\ t.srvDone = s.srvDone
  BY <1>1, <1>2 DEF MdnsService
<1> HIDE DEF t
<1>5. n \in Nat
  BY <1>4 DEF MdnsService
<1> HIDE DEF n
<1> QED
  BY <1>3, <1>4, <1>5 DEF MdnsService

LEMMA MdnsInit == ASSUME MdnsSizes, Mdns!Init PROVE MdnsInv
<1>1. \A i \in Mdns!Insts : mdnsCache[i] = Mdns!NoService
  BY DEF Mdns!Init
<1>2. mdnsNet = <<>> /\ mdnsKnown = {} /\ running = {} /\ name = 1 /\ lost = FALSE
  BY DEF Mdns!Init
<1>3. mdnsCache \in [Mdns!Insts -> MdnsService]
  BY NoServiceIs DEF Mdns!Init
<1>4. since \in [Mdns!Insts -> Nat]
  BY DEF Mdns!Init, Mdns!Long, MdnsSizes
<1>5. mdnsNet \in Seq({})
  BY <1>2
<1>6. MdnsTypes
  BY <1>2, <1>3, <1>4, <1>5 DEF MdnsTypes, MdnsSizes
<1>7. FramesTrue
  BY <1>2, NoMembers DEF FramesTrue
<1> QED
  BY <1>1, <1>2, <1>6, <1>7, NoServiceIs DEF MdnsInv, KnownServed, AgeBounded, ListedKnown, AskedAnswered, Mdns!Listed

\* browse_input(): a frame that comes is true, and what it tells is kept.
LEMMA InputStep == ASSUME MdnsSizes, MdnsInv, Mdns!Input PROVE MdnsInv'
<1> DEFINE f == Head(mdnsNet)
           r == mdnsCache'[f.inst]
<1>1. PICK F : mdnsNet \in Seq(F)
  BY DEF MdnsInv, MdnsTypes
<1>2. /\ mdnsNet # <<>> /\ mdnsNet' = Tail(mdnsNet)
      /\ mdnsCache' = (IF f.kind = "host" THEN mdnsCache
                       ELSE [mdnsCache EXCEPT ![f.inst] = Mdns!OnSrv(Mdns!OnPtr(@, f.kind = "bye"), f.kind = "bye")])
  BY DEF Mdns!Input
<1>3. UNCHANGED <<running, name, mdnsIp, mdnsKnown, since, lost>>
  BY DEF Mdns!Input, Mdns!machine, Mdns!responder
<1>4. mdnsNet' \in Seq(F) /\ f \in Members(mdnsNet) /\ Members(mdnsNet) = {f} \cup Members(mdnsNet')
  BY <1>1, <1>2, TakenMembers
<1>5. /\ f.kind \in {"service", "host", "bye"}
      /\ f.kind # "host" => f.inst \in Mdns!Insts
      /\ f.kind = "service" => f.inst \in mdnsKnown /\ mdnsIp # 0
      /\ f.kind = "bye" => f.inst \notin mdnsKnown
  BY <1>4 DEF MdnsInv, FramesTrue
<1> HIDE DEF f
<1>6. mdnsCache \in [Mdns!Insts -> MdnsService]
  BY DEF MdnsInv, MdnsTypes
<1>7. \A i \in Mdns!Insts : f.kind = "host" \/ i # f.inst => mdnsCache'[i] = mdnsCache[i]
  BY <1>2, <1>6
<1>8. f.kind = "service" =>
         r \in MdnsService /\ r.srv = HostTtl /\ ~r.srvBye /\ ~r.ptrBye /\ r.ptrDone = 0 /\ r.srvDone = 0
  <2>1. HAVE f.kind = "service"
  <2>2. r = Mdns!OnSrv(Mdns!OnPtr(mdnsCache[f.inst], FALSE), FALSE)
    <3>1. f.kind # "host" /\ (f.kind = "bye") = FALSE
      BY <2>1
    <3> QED
      BY <1>2, <1>5, <1>6, <3>1
  <2>3. mdnsCache[f.inst] \in MdnsService
    BY <1>5, <1>6, <2>1
  <2> QED
    BY <2>2, <2>3, Renewed
<1>9. f.kind = "bye" =>
         r \in MdnsService /\ ((r = mdnsCache[f.inst] /\ mdnsCache[f.inst].ptr = 0) \/ (r.ptrBye /\ r.srvBye))
  <2>1. HAVE f.kind = "bye"
  <2>2. r = Mdns!OnSrv(Mdns!OnPtr(mdnsCache[f.inst], TRUE), TRUE)
    <3>1. f.kind # "host" /\ (f.kind = "bye") = TRUE
      BY <2>1
    <3> QED
      BY <1>2, <1>5, <1>6, <3>1
  <2>3. mdnsCache[f.inst] \in MdnsService
    BY <1>5, <1>6, <2>1
  <2> QED
    BY <2>2, <2>3, SaidGoodbye
<1>10. mdnsCache' \in [Mdns!Insts -> MdnsService]
  <2>1. \A i \in Mdns!Insts : mdnsCache'[i] \in MdnsService
    BY <1>5, <1>6, <1>7, <1>8, <1>9
  <2>2. mdnsCache' = [i \in Mdns!Insts |-> mdnsCache'[i]]
    BY <1>2, <1>6
  <2> QED
    BY <2>1, <2>2
<1>11. MdnsTypes'
  BY <1>3, <1>4, <1>10 DEF MdnsInv, MdnsTypes
<1>12. KnownServed' /\ FramesTrue'
  BY <1>3, <1>4 DEF MdnsInv, KnownServed, FramesTrue
<1>13. AgeBounded'
  <2> SUFFICES ASSUME NEW i \in Mdns!Insts, mdnsCache'[i].srv > 0, ~mdnsCache'[i].srvBye
               PROVE  since[i] + mdnsCache'[i].srv <= HostTtl
    BY <1>3 DEF AgeBounded
  <2>1. CASE mdnsCache'[i] = mdnsCache[i]
    BY <2>1 DEF MdnsInv, AgeBounded
  <2>2. CASE f.kind = "service" /\ i = f.inst
    BY <1>5, <1>8, <2>2 DEF MdnsInv, KnownServed, MdnsSizes
  <2> QED
    BY <1>5, <1>7, <1>9, <2>1, <2>2
<1>14. ASSUME NEW i \in Mdns!Insts, Mdns!Listed(i)', ~(f.kind = "service" /\ i = f.inst)
       PROVE  /\ Mdns!Listed(i) /\ mdnsCache'[i] = mdnsCache[i]
              /\ \A k \in {"bye", "service"} : Coming(k, i) => Coming(k, i)'
  <2>1. ~(f.kind = "bye" /\ i = f.inst)
    <3>1. SUFFICES ASSUME f.kind = "bye", i = f.inst PROVE FALSE
      OBVIOUS
    <3>2. mdnsCache'[i].ptr > 0 /\ ~mdnsCache'[i].ptrBye
      BY <1>14 DEF Mdns!Listed
    <3> QED
      BY <1>9, <3>1, <3>2
  <2>2. mdnsCache'[i] = mdnsCache[i]
    BY <1>5, <1>7, <1>14, <2>1
  <2>3. Mdns!Listed(i)
    BY <1>14, <2>2 DEF Mdns!Listed
  <2>4. \A k \in {"bye", "service"} : Coming(k, i) => Coming(k, i)'
    BY <1>4, <1>14, <2>1 DEF Coming
  <2> QED
    BY <2>2, <2>3, <2>4
<1>15. ListedKnown'
  BY <1>3, <1>5, <1>14 DEF MdnsInv, ListedKnown
<1>16. AskedAnswered'
  <2> SUFFICES ASSUME ~lost, NEW i \in Mdns!Insts, Mdns!Listed(i)', i \in mdnsKnown, mdnsIp # 0,
                      mdnsCache'[i].ptrDone > 0 \/ mdnsCache'[i].srvDone > 0
               PROVE  Coming("service", i)'
    BY <1>3 DEF AskedAnswered
  <2>1. ~(f.kind = "service" /\ i = f.inst)
    BY <1>8
  <2> QED
    BY <2>1, <1>14 DEF MdnsInv, AskedAnswered
<1> QED
  BY <1>11, <1>12, <1>13, <1>15, <1>16 DEF MdnsInv

\* A frame is lost, or something happens to the machine.
LEMMA LoseStep == ASSUME MdnsInv, Mdns!Lose PROVE MdnsInv'
<1>1. PICK F : mdnsNet \in Seq(F)
  BY DEF MdnsInv, MdnsTypes
<1>2. mdnsNet # <<>> /\ mdnsNet' = Tail(mdnsNet) /\ lost' = TRUE
  BY DEF Mdns!Lose
<1>3. UNCHANGED <<running, name, mdnsIp, mdnsKnown, since, mdnsCache>>
  BY DEF Mdns!Lose, Mdns!machine, Mdns!responder, Mdns!browser
<1>4. mdnsNet' \in Seq(F) /\ Members(mdnsNet') \subseteq Members(mdnsNet)
  BY <1>1, <1>2, TakenMembers
<1> QED
  BY <1>2, <1>3, <1>4 DEF MdnsInv, MdnsTypes, KnownServed, FramesTrue, AgeBounded, ListedKnown, AskedAnswered

LEMMA ChangeStep == ASSUME MdnsInv, Mdns!Change PROVE MdnsInv'
<1>1. UNCHANGED <<mdnsNet, mdnsIp, mdnsKnown, since, mdnsCache, lost>>
  BY DEF Mdns!Change, Mdns!responder, Mdns!browser
<1>2. running' \subseteq Announcers /\ name' \in MachineNames
  BY DEF Mdns!Change, MdnsInv, MdnsTypes
<1> QED
  BY <1>1, <1>2 DEF MdnsInv, MdnsTypes, KnownServed, FramesTrue, AgeBounded, ListedKnown, AskedAnswered, Mdns!Listed, Coming

\* What mdnsd answers for is finitely many services.
LEMMA FewKnown == ASSUME MdnsSizes, MdnsTypes PROVE IsFiniteSet(mdnsKnown) /\ IsFiniteSet(Mdns!Insts)
<1>1. IsFiniteSet(Mdns!Insts)
  BY FS_Product DEF MdnsSizes, Mdns!Insts
<1> QED
  BY <1>1, FS_Subset DEF MdnsTypes

\* mdns_handle(): every answer is of what mdnsd answers for, and all of it is, when the
\* type is asked for.
LEMMA Answers ==
  ASSUME MdnsSizes, MdnsTypes, NEW type \in BOOLEAN, NEW srvs, NEW as, NEW H, H = Mdns!Handle(type, srvs, as)
  PROVE  /\ IsFiniteSet(H)
         /\ \A f \in H : mdnsIp # 0 /\ (f.kind = "host" \/ (f.kind = "service" /\ f.inst \in mdnsKnown))
         /\ type /\ mdnsIp # 0 => \A i \in mdnsKnown : \E f \in H : f.kind = "service" /\ f.inst = i
<1> DEFINE A == Announcing(mdnsKnown, mdnsHost, mdnsIp)
           B == {Mdns!AnnounceHost(mdnsHost, mdnsIp)}
           S == UNION {Mdns!AnswersSrv(i) : i \in srvs}
           N == UNION {Mdns!AnswersA(n) : n \in as}
<1>1. Mdns!AnswersType = A
  BY DEF Mdns!AnswersType, Announcing
<1>2. S \subseteq A
  BY DEF Mdns!AnswersSrv, Announcing
<1>3. N \subseteq B
  BY DEF Mdns!AnswersA
<1>4. H = IF mdnsIp = 0 THEN {} ELSE (IF type THEN Mdns!AnswersType ELSE {}) \cup S \cup N
  BY DEF Mdns!Handle
<1>5. /\ IsFiniteSet(A)
      /\ \A f \in A : f.kind = "service" /\ f.inst \in mdnsKnown
      /\ \A i \in mdnsKnown : \E f \in A : f.kind = "service" /\ f.inst = i
  BY FewKnown, AnnouncingIs
<1>6. IsFiniteSet(B) /\ \A f \in B : f.kind = "host"
  <2>1. \A x : IsFiniteSet({x})
    BY FS_Singleton
  <2>2. \A f \in B : f.kind = "host"
    BY DEF Mdns!AnnounceHost, Mdns!Frame
  <2> QED
    BY <2>1, <2>2
<1> HIDE DEF A, B, S, N
<1>7. H \subseteq A \cup B /\ (mdnsIp = 0 => H = {}) /\ (type /\ mdnsIp # 0 => A \subseteq H)
  BY <1>1, <1>2, <1>3, <1>4
<1>8. IsFiniteSet(A \cup B)
  BY <1>5, <1>6, FS_Union
<1>9. IsFiniteSet(H)
  BY <1>7, <1>8, FS_Subset
<1> QED
  BY <1>5, <1>6, <1>7, <1>9

\* browse_query() and mdns_handle(): what is asked for is answered.
LEMMA QueryStep == ASSUME MdnsSizes, MdnsInv, NEW d \in BOOLEAN, Mdns!Query(d) PROVE MdnsInv'
<1> DEFINE type == d \/ \E i \in Mdns!Insts : Mdns!ServiceDue(mdnsCache[i])
           as == {i[2] : i \in Mdns!WantsA}
           H == Mdns!Handle(type, Mdns!WantsSrv, as)
<1>1. type \in BOOLEAN
  OBVIOUS
<1>2. /\ mdnsNet = <<>> /\ mdnsNet' = Mdns!SetToSeq(H)
      /\ mdnsCache' = [i \in Mdns!Insts |-> Mdns!Asked(type, i)]
  BY DEF Mdns!Query
<1>3. UNCHANGED <<running, name, mdnsIp, mdnsKnown, since, lost>>
  BY DEF Mdns!Query, Mdns!machine, Mdns!responder
<1> HIDE DEF type, as
<1>4. /\ IsFiniteSet(H)
      /\ \A f \in H : mdnsIp # 0 /\ (f.kind = "host" \/ (f.kind = "service" /\ f.inst \in mdnsKnown))
      /\ type /\ mdnsIp # 0 => \A i \in mdnsKnown : \E f \in H : f.kind = "service" /\ f.inst = i
  <2>1. MdnsTypes
    BY DEF MdnsInv
  <2> QED
    BY <1>1, <2>1, Answers
<1> HIDE DEF H
<1>5. mdnsNet' \in Seq(H) /\ Members(mdnsNet') = H
  BY <1>2, <1>4, SequenceOf
<1>6. ASSUME NEW i \in Mdns!Insts
      PROVE  /\ mdnsCache'[i] \in MdnsService
             /\ mdnsCache'[i].ptr = mdnsCache[i].ptr /\ mdnsCache'[i].ptrBye = mdnsCache[i].ptrBye
             /\ mdnsCache'[i].srv = mdnsCache[i].srv /\ mdnsCache'[i].srvBye = mdnsCache[i].srvBye
             /\ ~type => mdnsCache'[i].ptrDone = mdnsCache[i].ptrDone /\ mdnsCache'[i].srvDone = mdnsCache[i].srvDone
  <2>1. mdnsCache'[i] = Mdns!Asked(type, i)
    BY <1>2
  <2> QED
    BY <1>1, <2>1, AskedIs DEF MdnsInv
<1>7. \A i \in Mdns!Insts : Mdns!Listed(i)' = Mdns!Listed(i)
  BY <1>6 DEF Mdns!Listed
<1>8. MdnsTypes'
  BY <1>2, <1>3, <1>5, <1>6 DEF MdnsInv, MdnsTypes
<1>9. KnownServed'
  BY <1>3 DEF MdnsInv, KnownServed
<1>10. FramesTrue'
  <2>1. mdnsKnown \subseteq Mdns!Insts
    BY DEF MdnsInv, MdnsTypes
  <2> QED
    BY <1>3, <1>4, <1>5, <2>1 DEF FramesTrue
<1>11. AgeBounded'
  BY <1>3, <1>6 DEF MdnsInv, AgeBounded
<1>12. \A k, i : ~Coming(k, i)
  BY <1>2, NoMembers DEF Coming
<1>13. ListedKnown'
  BY <1>3, <1>7, <1>12 DEF MdnsInv, ListedKnown
<1>14. AskedAnswered'
  <2> SUFFICES ASSUME ~lost, NEW i \in Mdns!Insts, Mdns!Listed(i)', i \in mdnsKnown, mdnsIp # 0,
                      mdnsCache'[i].ptrDone > 0 \/ mdnsCache'[i].srvDone > 0
               PROVE  Coming("service", i)'
    BY <1>3 DEF AskedAnswered
  <2>1. CASE type
    BY <1>4, <1>5, <2>1 DEF Coming
  <2>2. CASE ~type
    BY <1>6, <1>7, <1>12, <2>2 DEF MdnsInv, AskedAnswered
  <2> QED
    BY <2>1, <2>2
<1> QED
  BY <1>8, <1>9, <1>10, <1>11, <1>13, <1>14 DEF MdnsInv

\* refresh(): goodbyes are of what is no longer served, announcements of what is.
LEMMA RefreshFrames ==
  ASSUME MdnsSizes, MdnsTypes, Mdns!Refresh
  PROVE  /\ \E F : mdnsNet' \in Seq(F)
         /\ mdnsKnown' = Mdns!Scan(name) /\ mdnsIp' = addr /\ Mdns!Scan(name) \subseteq Mdns!Insts
         /\ \A f \in Members(mdnsNet') :
                \/ f.kind = "host"
                \/ f.kind = "service" /\ f.inst \in Mdns!Scan(name) /\ addr # 0
                \/ f.kind = "bye" /\ f.inst \in mdnsKnown \ Mdns!Scan(name)
         /\ ~((name # mdnsHost /\ mdnsIp = 0) \/ (name = mdnsHost /\ addr = 0)) =>
                \A i \in mdnsKnown \ Mdns!Scan(name) : Coming("bye", i)'
<1> DEFINE K == Mdns!Scan(name)
           W == Mdns!Withdrawn(mdnsKnown, K)
           B == Goodbyes(W, mdnsHost, mdnsIp)
           A == Announcing(K, name, addr)
           h == Mdns!AnnounceHost(name, addr)
           silent == (name # mdnsHost /\ mdnsIp = 0) \/ (name = mdnsHost /\ addr = 0)
<1>1. mdnsKnown' = K /\ mdnsIp' = addr /\ mdnsNet' = Mdns!Byes \o Mdns!Announced
  BY DEF Mdns!Refresh
<1>2. K \subseteq Mdns!Insts
  BY DEF Mdns!Scan, Mdns!Insts, MdnsTypes
<1>3. W = mdnsKnown \ K
  BY DEF Mdns!Withdrawn
<1>4. IsFiniteSet(K) /\ IsFiniteSet(W)
  BY <1>2, <1>3, FewKnown, FS_Subset DEF MdnsTypes
<1>5. /\ Mdns!Byes = IF silent THEN <<>> ELSE Mdns!SetToSeq(B)
      /\ Mdns!Announced = <<>> \/ (addr # 0 /\ Mdns!Announced = <<h>> \o Mdns!SetToSeq(A))
  BY DEF Mdns!Byes, Mdns!Announced, Goodbyes, Announcing
<1> HIDE DEF K, W
<1>6. /\ IsFiniteSet(A) /\ IsFiniteSet(B)
      /\ \A f \in A : f.kind = "service" /\ f.inst \in K
      /\ \A f \in B : f.kind = "bye" /\ f.inst \in W
      /\ \A i \in W : \E f \in B : f.kind = "bye" /\ f.inst = i
      /\ h.kind = "host"
  BY <1>4, AnnouncingIs, GoodbyesAre DEF Mdns!AnnounceHost, Mdns!Frame
<1> HIDE DEF A, B, h, silent
<1>7. /\ Mdns!Byes \in Seq(B)
      /\ IF silent THEN Members(Mdns!Byes) = {} ELSE Members(Mdns!Byes) = B
  BY <1>5, <1>6, SequenceOf, NoMembers
<1>8. PICK G : Mdns!Announced \in Seq(G) /\ (Members(Mdns!Announced) = {} \/ (addr # 0 /\ Members(Mdns!Announced) = {h} \cup A))
  <2>1. CASE Mdns!Announced = <<>>
    BY <2>1, NoMembers
  <2>2. CASE addr # 0 /\ Mdns!Announced = <<h>> \o Mdns!SetToSeq(A)
    <3>1. <<h>> \in Seq({h}) /\ Members(<<h>>) = {h}
      BY OneMember
    <3>2. Mdns!SetToSeq(A) \in Seq(A) /\ Members(Mdns!SetToSeq(A)) = A
      BY <1>6, SequenceOf
    <3>3. PICK t : t = Mdns!SetToSeq(A)
      OBVIOUS
    <3>4. PICK o : o = <<h>>
      OBVIOUS
    <3>5. o \in Seq({h} \cup A) /\ t \in Seq({h} \cup A) /\ Members(o) = {h} /\ Members(t) = A
      BY <3>1, <3>2, <3>3, <3>4
    <3>6. PICK U : U = {h} \cup A
      OBVIOUS
    <3>7. o \o t \in Seq(U) /\ Members(o \o t) = {h} \cup A
      BY <3>5, <3>6, JoinedMembers
    <3> QED
      BY <2>2, <3>3, <3>4, <3>7
  <2> QED
    BY <1>5, <2>1, <2>2
<1>9. /\ \E F : mdnsNet' \in Seq(F)
      /\ Members(mdnsNet') = Members(Mdns!Byes) \cup Members(Mdns!Announced)
  <2>1. PICK U : U = B \cup G
    OBVIOUS
  <2>2. Mdns!Byes \in Seq(U) /\ Mdns!Announced \in Seq(U)
    BY <1>7, <1>8, <2>1
  <2> QED
    BY <1>1, <2>2, JoinedMembers
<1>10. \A f \in Members(mdnsNet') :
           \/ f.kind = "host"
           \/ f.kind = "service" /\ f.inst \in K /\ addr # 0
           \/ f.kind = "bye" /\ f.inst \in W
  BY <1>6, <1>7, <1>8, <1>9
<1>11. ~silent => \A i \in W : Coming("bye", i)'
  BY <1>6, <1>7, <1>9 DEF Coming
<1> QED
  BY <1>1, <1>2, <1>3, <1>9, <1>10, <1>11 DEF K, silent

\* A second: records age, and what is no longer served is taken back.
LEMMA TickStep == ASSUME MdnsSizes, MdnsInv, Mdns!Tick PROVE MdnsInv'
<1> DEFINE K == Mdns!Scan(name)
<1>1. /\ mdnsNet = <<>> /\ Mdns!Refresh /\ UNCHANGED <<running, name>>
      /\ mdnsCache' = [i \in Mdns!Insts |-> Aged(mdnsCache[i])]
      /\ since' = [i \in Mdns!Insts |-> IF i \in K /\ addr # 0 THEN 0 ELSE Mdns!Older(since[i])]
      /\ lost' = (lost \/ (addr = 0 /\ mdnsKnown # {}))
  BY DEF Mdns!Tick, Mdns!Expire, Mdns!machine, Aged
<1>2. /\ \E F : mdnsNet' \in Seq(F)
      /\ mdnsKnown' = K /\ mdnsIp' = addr /\ K \subseteq Mdns!Insts
      /\ \A f \in Members(mdnsNet') :
             \/ f.kind = "host"
             \/ f.kind = "service" /\ f.inst \in K /\ addr # 0
             \/ f.kind = "bye" /\ f.inst \in mdnsKnown \ K
      /\ ~((name # mdnsHost /\ mdnsIp = 0) \/ (name = mdnsHost /\ addr = 0)) =>
             \A i \in mdnsKnown \ K : Coming("bye", i)'
  BY <1>1, RefreshFrames DEF MdnsInv
<1> HIDE DEF K
<1>3. /\ mdnsCache \in [Mdns!Insts -> MdnsService] /\ since \in [Mdns!Insts -> Nat] /\ lost \in BOOLEAN
      /\ mdnsKnown \subseteq Mdns!Insts
  BY DEF MdnsInv, MdnsTypes
<1>4. ASSUME NEW i \in Mdns!Insts
      PROVE  LET s == mdnsCache[i]
                 r == mdnsCache'[i]
             IN  /\ s \in MdnsService /\ r \in MdnsService
                 /\ \/ s.ptr <= 1 /\ r = Mdns!NoService
                    \/ /\ s.ptr > 1 /\ r.ptr = s.ptr - 1 /\ r.ptrBye = s.ptrBye /\ r.srvBye = s.srvBye
                       /\ r.ptrDone = s.ptrDone /\ r.srvDone = s.srvDone
                       /\ r.srv = IF s.srv = 0 THEN 0 ELSE s.srv - 1
  <2>1. mdnsCache[i] \in MdnsService /\ mdnsCache'[i] = Aged(mdnsCache[i])
    BY <1>1, <1>3
  <2> QED
    BY <2>1, AgedIs
<1>5. ASSUME NEW i \in Mdns!Insts
      PROVE  since'[i] \in Nat /\ since'[i] <= since[i] + 1 /\ (i \in K /\ addr # 0 => since'[i] = 0)
  <2>1. since[i] \in Nat /\ since'[i] = IF i \in K /\ addr # 0 THEN 0 ELSE Mdns!Older(since[i])
    BY <1>1, <1>3
  <2>2. Mdns!Long \in Nat
    BY DEF Mdns!Long, MdnsSizes
  <2> QED
    BY <2>1, <2>2 DEF Mdns!Older
<1>6. MdnsTypes'
  <2>1. mdnsCache' \in [Mdns!Insts -> MdnsService]
    BY <1>1, <1>4
  <2>2. since' \in [Mdns!Insts -> Nat]
    BY <1>1, <1>5
  <2>3. lost' \in BOOLEAN
    BY <1>1
  <2> QED
    BY <1>1, <1>2, <2>1, <2>2, <2>3 DEF MdnsInv, MdnsTypes
<1>7. KnownServed'
  BY <1>2, <1>5 DEF KnownServed
<1>8. FramesTrue'
  BY <1>2, <1>3 DEF FramesTrue
<1>9. AgeBounded'
  <2> SUFFICES ASSUME NEW i \in Mdns!Insts, mdnsCache'[i].srv > 0, ~mdnsCache'[i].srvBye
               PROVE  since'[i] + mdnsCache'[i].srv <= HostTtl
    BY DEF AgeBounded
  <2>1. mdnsCache[i].srv \in Nat /\ since[i] \in Nat /\ HostTtl \in Nat
    BY <1>3, <1>4 DEF MdnsService, MdnsSizes
  <2>2. mdnsCache[i].srv > 0 /\ mdnsCache'[i].srv = mdnsCache[i].srv - 1 /\ ~mdnsCache[i].srvBye
    BY <1>4, <2>1, NoServiceIs
  <2>3. since[i] + mdnsCache[i].srv <= HostTtl
    BY <2>2 DEF MdnsInv, AgeBounded
  <2> QED
    BY <2>1, <2>2, <2>3, <1>5
<1>10. ASSUME NEW i \in Mdns!Insts, ~lost', Mdns!Listed(i)'
       PROVE  /\ ~lost /\ i \in mdnsKnown /\ mdnsIp # 0 /\ addr # 0
              /\ mdnsCache'[i].ptrDone = mdnsCache[i].ptrDone /\ mdnsCache'[i].srvDone = mdnsCache[i].srvDone
              /\ Mdns!Listed(i)
  <2>1. ~lost /\ (addr = 0 => mdnsKnown = {})
    BY <1>1, <1>3, <1>10
  <2>2. mdnsCache'[i].ptr > 0 /\ mdnsCache'[i].srv > 0 /\ ~mdnsCache'[i].ptrBye /\ ~mdnsCache'[i].srvBye
    BY <1>10 DEF Mdns!Listed
  <2>3. mdnsCache[i].srv \in Nat
    BY <1>4 DEF MdnsService
  <2>4. /\ mdnsCache'[i].ptrDone = mdnsCache[i].ptrDone /\ mdnsCache'[i].srvDone = mdnsCache[i].srvDone
        /\ mdnsCache[i].ptr > 0 /\ mdnsCache[i].srv > 0 /\ ~mdnsCache[i].ptrBye /\ ~mdnsCache[i].srvBye
    <3>1. mdnsCache'[i] # Mdns!NoService
      BY <2>2, NoServiceIs
    <3>2. /\ mdnsCache[i].ptr > 1 /\ mdnsCache'[i].ptrBye = mdnsCache[i].ptrBye /\ mdnsCache'[i].srvBye = mdnsCache[i].srvBye
          /\ mdnsCache'[i].ptrDone = mdnsCache[i].ptrDone /\ mdnsCache'[i].srvDone = mdnsCache[i].srvDone
          /\ mdnsCache'[i].srv = IF mdnsCache[i].srv = 0 THEN 0 ELSE mdnsCache[i].srv - 1
      BY <1>4, <3>1
    <3>3. mdnsCache[i].ptr \in Nat
      BY <1>4 DEF MdnsService
    <3> QED
      BY <2>2, <2>3, <3>2, <3>3
  <2>5. Mdns!Listed(i)
    BY <2>4 DEF Mdns!Listed
  <2>6. ~Coming("bye", i)
    BY <1>1, NoMembers DEF Coming
  <2> QED
    BY <2>1, <2>4, <2>5, <2>6 DEF MdnsInv, ListedKnown
<1>11. ListedKnown'
  BY <1>2, <1>10 DEF ListedKnown
<1>12. AskedAnswered'
  <2> SUFFICES ASSUME ~lost', NEW i \in Mdns!Insts, Mdns!Listed(i)',
                      mdnsCache'[i].ptrDone > 0 \/ mdnsCache'[i].srvDone > 0
               PROVE  FALSE
    BY DEF AskedAnswered
  <2>1. ~Coming("service", i)
    BY <1>1, NoMembers DEF Coming
  <2> QED
    BY <2>1, <1>10 DEF MdnsInv, AskedAnswered
<1> QED
  BY <1>6, <1>7, <1>8, <1>9, <1>11, <1>12 DEF MdnsInv

LEMMA MdnsStep == ASSUME MdnsSizes, MdnsInv, [Mdns!Next]_Mdns!vars PROVE MdnsInv'
<1>1. CASE Mdns!Next
  BY <1>1, TickStep, ChangeStep, InputStep, LoseStep, QueryStep DEF Mdns!Next
<1>2. CASE UNCHANGED Mdns!vars
  BY <1>2 DEF Mdns!vars, Mdns!machine, Mdns!responder, Mdns!browser, MdnsInv, MdnsTypes, KnownServed, FramesTrue,
     AgeBounded, ListedKnown, AskedAnswered, Mdns!Listed, Coming
<1> QED
  BY <1>1, <1>2

\* browse_list(): what is listed was served a moment ago, and less than a record's life.
LEMMA ListIsTrue == ASSUME MdnsSizes, MdnsInv PROVE Mdns!StaleBounded /\ Mdns!GoneSoon
<1>1. ASSUME NEW i \in Mdns!Insts, Mdns!Listed(i) PROVE since[i] <= HostTtl + 1
  <2>1. mdnsCache[i].srv \in Nat /\ since[i] \in Nat /\ HostTtl \in Nat
    BY DEF MdnsInv, MdnsTypes, MdnsService, MdnsSizes
  <2>2. since[i] + mdnsCache[i].srv <= HostTtl
    BY <1>1 DEF Mdns!Listed, MdnsInv, AgeBounded
  <2> QED
    BY <2>1, <2>2
<1>2. ASSUME NEW i \in Mdns!Insts, ~lost, mdnsNet = <<>>, since[i] >= 2, Mdns!Listed(i) PROVE FALSE
  <2>1. ~Coming("bye", i)
    BY <1>2, NoMembers DEF Coming
  <2>2. since[i] = 0
    BY <1>2, <2>1 DEF MdnsInv, ListedKnown, KnownServed
  <2> QED
    BY <1>2, <2>2
<1> QED
  BY <1>1, <1>2 DEF Mdns!StaleBounded, Mdns!GoneSoon

\* refresh_due(): a record is asked for again before it runs out.
LEMMA ListIsKept == ASSUME MdnsSizes, MdnsInv, Mdns!Next PROVE Mdns!KeptAlive
<1> SUFFICES ASSUME NEW i \in Mdns!Insts, Mdns!Listed(i), i \in mdnsKnown, i \in Mdns!Scan(name),
                    mdnsIp # 0, ~lost'
             PROVE  Mdns!Listed(i)'
  BY DEF Mdns!KeptAlive
<1> DEFINE s == mdnsCache[i]
<1>1. s \in MdnsService /\ s.ptr > 0 /\ s.srv > 0 /\ ~s.ptrBye /\ ~s.srvBye
  BY DEF MdnsInv, MdnsTypes, Mdns!Listed
<1>2. CASE Mdns!Tick
  <2>1. mdnsNet = <<>> /\ ~Mdns!ServiceDue(s) /\ ~lost
    BY <1>2 DEF Mdns!Tick, MdnsInv, MdnsTypes
  <2>2. ~Coming("service", i)
    BY <2>1, NoMembers DEF Coming
  <2>3. ~(s.ptrDone > 0) /\ ~(s.srvDone > 0)
    BY <2>1, <2>2 DEF MdnsInv, AskedAnswered
  <2>4. s.ptrDone = 0 /\ s.srvDone = 0 /\ s.ptr \in Nat /\ s.srv \in Nat
    BY <1>1, <2>3 DEF MdnsService
  <2>5. s.ptr > 1 /\ s.srv > 1
    BY <1>1, <2>1, <2>4 DEF Mdns!ServiceDue, Mdns!RefreshDue, MdnsSizes
  <2>6. mdnsCache'[i] = Aged(s)
    BY <1>2 DEF Mdns!Tick, Mdns!Expire, Aged
  <2> HIDE DEF s
  <2> QED
    BY <1>1, <2>4, <2>5, <2>6, AgedIs DEF Mdns!Listed
<1>3. CASE Mdns!Change \/ Mdns!Lose
  BY <1>3 DEF Mdns!Change, Mdns!Lose, Mdns!browser, Mdns!Listed
<1>4. ASSUME NEW d \in BOOLEAN, Mdns!Query(d) PROVE Mdns!Listed(i)'
  <2>1. PICK type \in BOOLEAN : mdnsCache' = [j \in Mdns!Insts |-> Mdns!Asked(type, j)]
    BY <1>4 DEF Mdns!Query
  <2>2. mdnsCache'[i] = Mdns!Asked(type, i)
    BY <2>1
  <2> QED
    BY <1>1, <2>2, AskedIs DEF Mdns!Listed, MdnsInv
<1>5. CASE Mdns!Input
  <2> DEFINE f == Head(mdnsNet)
  <2>1. PICK F : mdnsNet \in Seq(F)
    BY DEF MdnsInv, MdnsTypes
  <2>2. /\ mdnsNet # <<>>
        /\ mdnsCache' = (IF f.kind = "host" THEN mdnsCache
                         ELSE [mdnsCache EXCEPT ![f.inst] = Mdns!OnSrv(Mdns!OnPtr(@, f.kind = "bye"), f.kind = "bye")])
    BY <1>5 DEF Mdns!Input
  <2>3. f \in Members(mdnsNet)
    BY <2>1, <2>2, TakenMembers
  <2>4. f.kind \in {"service", "host", "bye"} /\ (f.kind = "bye" => f.inst # i)
    BY <2>3 DEF MdnsInv, FramesTrue
  <2>5. mdnsCache \in [Mdns!Insts -> MdnsService]
    BY DEF MdnsInv, MdnsTypes
  <2> HIDE DEF f
  <2>6. CASE f.kind = "service" /\ f.inst = i
    <3>1. f.kind # "host" /\ (f.kind = "bye") = FALSE
      BY <2>6
    <3>2. mdnsCache'[i] = Mdns!OnSrv(Mdns!OnPtr(s, FALSE), FALSE)
      BY <2>2, <2>5, <2>6, <3>1
    <3>3. mdnsCache'[i].ptr = PtrTtl /\ mdnsCache'[i].srv = HostTtl /\ ~mdnsCache'[i].ptrBye /\ ~mdnsCache'[i].srvBye
      BY <1>1, <3>2, Renewed
    <3>4. PtrTtl > 0 /\ HostTtl > 0
      BY DEF MdnsSizes
    <3> QED
      BY <3>3, <3>4 DEF Mdns!Listed
  <2>7. CASE ~(f.kind = "service" /\ f.inst = i)
    <3>1. mdnsCache'[i] = mdnsCache[i]
      BY <2>2, <2>4, <2>5, <2>7
    <3> QED
      BY <3>1 DEF Mdns!Listed
  <2> QED
    BY <2>6, <2>7
<1> QED
  BY <1>2, <1>3, <1>4, <1>5 DEF Mdns!Next

-----------------------------------------------------------------------------
(* NetMux: each stack is given its own frames in the order they came in.     *)
(* What waits in a ring is younger than what its stack was given and older   *)
(* than what waits in the kernel, and a call that looks there has found its  *)
(* ring empty.                                                               *)

\* STASH is not 0.
MuxSizes == Stash \in Nat \ {0} /\ PullBurst \in Nat

MuxFrame == [n : Nat, kind : Mux!Kinds]
MuxRing == [slot : [0 .. Stash - 1 -> MuxFrame], head : 0 .. Stash - 1, count : 0 .. Stash]

MuxTypes ==
    /\ kernel \in Seq(MuxFrame)
    /\ ring \in [Mux!Clients -> MuxRing]
    /\ listening \in [Mux!Clients -> BOOLEAN]
    /\ arrived \in Nat
    /\ asking = Mux!Nobody \/ asking \in [who : Mux!Clients, left : Nat]
    /\ muxGot \in [Mux!Clients -> MuxFrame]

\* The i-th frame that waits in a ring.
Nth(r, i) == r.slot[Mux!SlotOf(r, i)]

\* A frame that came in before what the kernel holds.
Older(f) == f.n <= arrived /\ \A k \in DOMAIN kernel : f.n < kernel[k].n

KernelInOrder ==
    /\ \A i, j \in DOMAIN kernel : i < j => kernel[i].n < kernel[j].n
    /\ \A i \in DOMAIN kernel : 0 < kernel[i].n /\ kernel[i].n <= arrived

GotRight(x) == muxGot[x].kind \in Mux!For(x) /\ Older(muxGot[x])

RingInOrder(x) ==
    /\ \A i \in 0 .. ring[x].count - 1 :
         /\ Nth(ring[x], i).kind \in Mux!For(x) /\ Older(Nth(ring[x], i))
         /\ muxGot[x].n < Nth(ring[x], i).n
    /\ \A i, j \in 0 .. ring[x].count - 1 : i < j => Nth(ring[x], i).n < Nth(ring[x], j).n

AskerIsEmpty == asking # Mux!Nobody => ring[asking.who].count = 0

MuxInv ==
    /\ MuxTypes /\ KernelInOrder /\ AskerIsEmpty
    /\ \A x \in Mux!Clients : GotRight(x) /\ RingInOrder(x)

LEMMA SlotIs ==
  ASSUME NEW S \in Nat \ {0}, NEW h \in 0 .. S - 1, NEW i \in 0 .. S
  PROVE  (h + i) % S = (IF h + i < S THEN h + i ELSE h + i - S)
<1>1. CASE h + i < S
  <2>1. h + i = (h + i) + 0 * S /\ h + i \in 0 .. S - 1
    BY <1>1
  <2> QED
    BY <1>1, <2>1
<1>2. CASE ~(h + i < S)
  <2>1. PICK r \in 0 .. S - 1 : r = h + i - S
    BY <1>2
  <2>2. h + i = r + 1 * S
    BY <2>1
  <2>3. (h + i) % S = r
    BY <2>2
  <2> QED
    BY <1>2, <2>1, <2>3
<1> QED
  BY <1>1, <1>2

LEMMA SlotOfIs ==
  ASSUME MuxSizes, NEW r \in MuxRing, NEW i \in 0 .. Stash
  PROVE  /\ Mux!SlotOf(r, i) = IF r.head + i < Stash THEN r.head + i ELSE r.head + i - Stash
         /\ Mux!SlotOf(r, i) \in 0 .. Stash - 1
<1>1. Stash \in Nat \ {0} /\ r.head \in 0 .. Stash - 1
  BY DEF MuxSizes, MuxRing
<1>2. Mux!SlotOf(r, i) = IF r.head + i < Stash THEN r.head + i ELSE r.head + i - Stash
  BY <1>1, SlotIs DEF Mux!SlotOf
<1> QED
  BY <1>1, <1>2

\* A ring with room keeps the frame behind the others.
LEMMA KeptIs ==
  ASSUME MuxSizes, NEW r \in MuxRing, NEW f \in MuxFrame, r.count # Stash
  PROVE  /\ Mux!Kept(r, f) \in MuxRing /\ Mux!Kept(r, f).count = r.count + 1
         /\ \A i \in 0 .. r.count - 1 : Nth(Mux!Kept(r, f), i) = Nth(r, i)
         /\ Nth(Mux!Kept(r, f), r.count) = f
<1> DEFINE k == Mux!Kept(r, f)
           at == Mux!SlotOf(r, r.count)
<1>1. Stash \in Nat \ {0} /\ r.count \in 0 .. Stash - 1 /\ r.head \in 0 .. Stash - 1
      /\ r.slot \in [0 .. Stash - 1 -> MuxFrame]
  BY DEF MuxSizes, MuxRing
<1>2. at \in 0 .. Stash - 1 /\ at = IF r.head + r.count < Stash THEN r.head + r.count ELSE r.head + r.count - Stash
  <2>1. PICK n \in 0 .. Stash : n = r.count
    BY <1>1
  <2>2. at = Mux!SlotOf(r, n)
    BY <2>1
  <2>3. Mux!SlotOf(r, n) \in 0 .. Stash - 1
        /\ Mux!SlotOf(r, n) = IF r.head + n < Stash THEN r.head + n ELSE r.head + n - Stash
    BY SlotOfIs
  <2> QED
    BY <2>1, <2>2, <2>3
<1>3. k = [r EXCEPT !.slot = [r.slot EXCEPT ![at] = f], !.count = r.count + 1]
  BY DEF Mux!Kept
<1> HIDE DEF at, k
<1>4. [r.slot EXCEPT ![at] = f] \in [0 .. Stash - 1 -> MuxFrame] /\ r.count + 1 \in 0 .. Stash
  BY <1>1, <1>2
<1>5. k \in MuxRing /\ k.head = r.head /\ k.count = r.count + 1 /\ k.slot = [r.slot EXCEPT ![at] = f]
  BY <1>1, <1>3, <1>4 DEF MuxRing
<1>6. \A i : Mux!SlotOf(k, i) = Mux!SlotOf(r, i)
  BY <1>5 DEF Mux!SlotOf
<1>7. Nth(k, r.count) = f
  BY <1>1, <1>2, <1>5, <1>6 DEF Nth, at
<1>8. ASSUME NEW i \in 0 .. r.count - 1 PROVE Nth(k, i) = Nth(r, i)
  <2>0. i \in 0 .. Stash
    BY <1>1
  <2>1. Mux!SlotOf(r, i) \in 0 .. Stash - 1
        /\ Mux!SlotOf(r, i) = IF r.head + i < Stash THEN r.head + i ELSE r.head + i - Stash
    BY <2>0, SlotOfIs
  <2>2. Mux!SlotOf(r, i) # at
    BY SMTT(60), <1>1, <1>2, <2>1
  <2> QED
    BY <1>1, <1>5, <1>6, <2>1, <2>2 DEF Nth
<1> QED
  BY <1>5, <1>7, <1>8 DEF k

\* What is given is the first, and the others move up.
LEMMA GivenIs ==
  ASSUME MuxSizes, NEW r \in MuxRing, r.count > 0
  PROVE  /\ Mux!Given(r) \in MuxRing /\ Mux!Given(r).count = r.count - 1
         /\ \A i \in 0 .. r.count - 2 : Nth(Mux!Given(r), i) = Nth(r, i + 1)
         /\ r.slot[r.head] = Nth(r, 0)
<1> DEFINE g == Mux!Given(r)
           up == Mux!SlotOf(r, 1)
           none == Mux!Nothing
<1>1. Stash \in Nat \ {0} /\ r.count \in 1 .. Stash /\ r.head \in 0 .. Stash - 1
      /\ r.slot \in [0 .. Stash - 1 -> MuxFrame]
  BY DEF MuxSizes, MuxRing
<1>2. PICK one \in 0 .. Stash : one = 1
  BY <1>1
<1>3. up \in 0 .. Stash - 1 /\ up = IF r.head + 1 < Stash THEN r.head + 1 ELSE r.head + 1 - Stash
  BY <1>2, SlotOfIs
<1>4. none \in MuxFrame
  BY DEF Mux!Nothing, MuxFrame, Mux!Kinds
<1>5. g = [r EXCEPT !.slot = [r.slot EXCEPT ![r.head] = none], !.head = up, !.count = r.count - 1]
  BY DEF Mux!Given
<1> HIDE DEF g, up, none
<1>6. [r.slot EXCEPT ![r.head] = none] \in [0 .. Stash - 1 -> MuxFrame] /\ r.count - 1 \in 0 .. Stash
  BY <1>1, <1>4
<1>7. g \in MuxRing /\ g.head = up /\ g.count = r.count - 1 /\ g.slot = [r.slot EXCEPT ![r.head] = none]
  BY <1>1, <1>3, <1>5, <1>6 DEF MuxRing
<1>8. r.slot[r.head] = Nth(r, 0)
  <2>1. PICK z \in 0 .. Stash : z = 0
    BY <1>1
  <2>2. Mux!SlotOf(r, z) = r.head
    BY SMTT(60), <1>1, <2>1, SlotOfIs
  <2> QED
    BY <2>1, <2>2 DEF Nth
<1>9. ASSUME NEW i \in 0 .. r.count - 2 PROVE Nth(g, i) = Nth(r, i + 1)
  <2>1. PICK j \in 0 .. Stash : j = i + 1
    BY <1>1
  <2>2. i \in 0 .. Stash
    BY <1>1
  <2>3. Mux!SlotOf(r, j) \in 0 .. Stash - 1
        /\ Mux!SlotOf(r, j) = IF r.head + j < Stash THEN r.head + j ELSE r.head + j - Stash
    BY SlotOfIs
  <2>4. Mux!SlotOf(g, i) = IF up + i < Stash THEN up + i ELSE up + i - Stash
    BY <1>7, <2>2, SlotOfIs
  <2>5. Mux!SlotOf(g, i) = Mux!SlotOf(r, j)
    <3>1. CASE r.head + 1 < Stash
      BY SMTT(60), <1>1, <1>3, <2>1, <2>3, <2>4, <3>1
    <3>2. CASE ~(r.head + 1 < Stash)
      BY SMTT(60), <1>1, <1>3, <2>1, <2>3, <2>4, <3>2
    <3> QED
      BY <3>1, <3>2
  <2>6. Mux!SlotOf(r, j) # r.head
    BY SMTT(60), <1>1, <2>1, <2>3
  <2> QED
    BY <1>1, <1>7, <2>1, <2>3, <2>5, <2>6 DEF Nth
<1> QED
  BY <1>7, <1>8, <1>9 DEF g

LEMMA NthIs ==
  ASSUME MuxSizes, NEW r \in MuxRing PROVE \A i \in 0 .. r.count - 1 : Nth(r, i) \in MuxFrame
<1>1. ASSUME NEW i \in 0 .. r.count - 1 PROVE Nth(r, i) \in MuxFrame
  <2>1. i \in 0 .. Stash
    BY DEF MuxRing, MuxSizes
  <2>2. Mux!SlotOf(r, i) \in 0 .. Stash - 1
    BY <2>1, SlotOfIs
  <2> QED
    BY <2>2 DEF Nth, MuxRing
<1> QED
  BY <1>1

LEMMA EmptyIs == ASSUME MuxSizes PROVE Mux!EmptyRing \in MuxRing /\ Mux!EmptyRing.count = 0
<1> DEFINE none == Mux!Nothing
<1>1. none \in MuxFrame
  BY DEF Mux!Nothing, MuxFrame, Mux!Kinds
<1> HIDE DEF none
<1>2. [i \in 0 .. Stash - 1 |-> none] \in [0 .. Stash - 1 -> MuxFrame] /\ 0 \in 0 .. Stash - 1 /\ 0 \in 0 .. Stash
  BY <1>1 DEF MuxSizes
<1> QED
  BY <1>2 DEF Mux!EmptyRing, MuxRing, none

LEMMA MuxInitially == ASSUME MuxSizes, Mux!Init PROVE MuxInv
<1>1. Mux!Nothing \in MuxFrame /\ Mux!Nothing.n = 0 /\ Mux!Nothing.kind = "other"
  BY DEF Mux!Nothing, MuxFrame, Mux!Kinds
<1>4. Mux!EmptyRing \in MuxRing /\ Mux!EmptyRing.count = 0
  BY EmptyIs
<1>5. MuxTypes
  BY <1>1, <1>4 DEF Mux!Init, MuxTypes
<1>6. KernelInOrder /\ AskerIsEmpty
  BY DEF Mux!Init, KernelInOrder, AskerIsEmpty
<1>7. ASSUME NEW x \in Mux!Clients PROVE GotRight(x) /\ RingInOrder(x)
  BY <1>1, <1>4 DEF Mux!Init, GotRight, RingInOrder, Older, Mux!For
<1> QED
  BY <1>5, <1>6, <1>7 DEF MuxInv

\* Steps that leave frames where they are.
LEMMA MuxQuiet ==
  ASSUME MuxInv, UNCHANGED <<kernel, ring, arrived, muxGot>>, listening' \in [Mux!Clients -> BOOLEAN],
         asking' = Mux!Nobody \/ (asking' \in [who : Mux!Clients, left : Nat] /\ ring[asking'.who].count = 0)
  PROVE  MuxInv'
<1>1. MuxTypes' /\ KernelInOrder' /\ AskerIsEmpty'
  BY DEF MuxInv, MuxTypes, KernelInOrder, AskerIsEmpty
<1>2. ASSUME NEW x \in Mux!Clients PROVE GotRight(x)' /\ RingInOrder(x)'
  BY DEF MuxInv, GotRight, RingInOrder, Older
<1> QED
  BY <1>1, <1>2 DEF MuxInv

LEMMA PullStep == ASSUME MuxSizes, MuxInv, NEW who \in Mux!Clients, Mux!Pull(who) PROVE MuxInv'
<1>0. listening' \in [Mux!Clients -> BOOLEAN]
  BY DEF MuxInv, MuxTypes, Mux!Pull
<1>1. CASE Mux!WaitedFirst(who)
  <2> DEFINE r == ring[who]
  <2>1. r \in MuxRing /\ r.count > 0 /\ r.count \in Nat
    BY <1>1 DEF MuxInv, MuxTypes, Mux!WaitedFirst, MuxRing
  <2>2. /\ ring' = [ring EXCEPT ![who] = Mux!Given(r)]
        /\ muxGot' = [muxGot EXCEPT ![who] = r.slot[r.head]]
        /\ UNCHANGED <<kernel, arrived, asking>>
    BY <1>1 DEF Mux!Pull, Mux!Gets
  <2>3. /\ Mux!Given(r) \in MuxRing /\ Mux!Given(r).count = r.count - 1
        /\ \A i \in 0 .. r.count - 2 : Nth(Mux!Given(r), i) = Nth(r, i + 1)
        /\ r.slot[r.head] = Nth(r, 0)
    BY <2>1, GivenIs
  <2>4. r.slot[r.head] \in MuxFrame
    BY <2>1 DEF MuxRing
  <2>5. MuxTypes' /\ KernelInOrder' /\ AskerIsEmpty'
    BY <1>0, <2>2, <2>3, <2>4 DEF MuxInv, MuxTypes, KernelInOrder, AskerIsEmpty, Mux!Pull
  <2>6. ASSUME NEW x \in Mux!Clients PROVE GotRight(x)' /\ RingInOrder(x)'
    <3>1. CASE x # who
      BY <2>2, <3>1 DEF MuxInv, MuxTypes, GotRight, RingInOrder, Older
    <3>2. CASE x = who
      <4>1. ring'[x] = Mux!Given(r) /\ muxGot'[x] = Nth(r, 0)
        BY <2>2, <2>3, <3>2 DEF MuxInv, MuxTypes
      <4>2. /\ \A i \in 0 .. r.count - 1 : Nth(r, i).kind \in Mux!For(x) /\ Older(Nth(r, i))
            /\ \A i, j \in 0 .. r.count - 1 : i < j => Nth(r, i).n < Nth(r, j).n
        BY <3>2 DEF MuxInv, RingInOrder
      <4>3. GotRight(x)'
        BY <2>1, <2>2, <4>1, <4>2 DEF GotRight, Older
      <4>4. ASSUME NEW i \in 0 .. r.count - 2 PROVE
              /\ Nth(Mux!Given(r), i).kind \in Mux!For(x) /\ Older(Nth(Mux!Given(r), i))
              /\ Nth(r, 0).n < Nth(Mux!Given(r), i).n
        <5>1. i + 1 \in 0 .. r.count - 1 /\ 0 \in 0 .. r.count - 1 /\ 0 < i + 1
          BY <2>1
        <5> QED
          BY <2>3, <4>2, <5>1
      <4>5. ASSUME NEW i \in 0 .. r.count - 2, NEW j \in 0 .. r.count - 2, i < j
            PROVE  Nth(Mux!Given(r), i).n < Nth(Mux!Given(r), j).n
        <5>1. i + 1 \in 0 .. r.count - 1 /\ j + 1 \in 0 .. r.count - 1 /\ i + 1 < j + 1
          BY <2>1, <4>5
        <5> QED
          BY <2>3, <4>2, <5>1
      <4>6. Mux!Given(r).count - 1 = r.count - 2
        BY <2>1, <2>3
      <4> HIDE DEF r
      <4>7. RingInOrder(x)'
        BY <2>2, <4>1, <4>4, <4>5, <4>6 DEF RingInOrder, Older
      <4> QED
        BY <4>3, <4>7
    <3> QED
      BY <3>1, <3>2
  <2> QED
    BY <2>5, <2>6 DEF MuxInv
<1>2. CASE ~Mux!WaitedFirst(who)
  <2>1. asking' = [who |-> who, left |-> PullBurst] /\ UNCHANGED <<kernel, ring, arrived, muxGot>>
    BY <1>2 DEF Mux!Pull
  <2>2. ring[who].count = 0
    BY <1>2 DEF Mux!WaitedFirst, MuxInv, MuxTypes, MuxRing
  <2> QED
    BY <1>0, <2>1, <2>2, MuxQuiet DEF MuxSizes
<1> QED
  BY <1>1, <1>2

LEMMA ForgetStep == ASSUME MuxSizes, MuxInv, NEW who \in Mux!Clients, Mux!Forget(who) PROVE MuxInv'
<1>1. Mux!EmptyRing \in MuxRing /\ Mux!EmptyRing.count = 0
  BY EmptyIs
<1>2. MuxTypes' /\ KernelInOrder' /\ AskerIsEmpty'
  BY <1>1 DEF MuxInv, MuxTypes, KernelInOrder, AskerIsEmpty, Mux!Forget
<1>3. ASSUME NEW x \in Mux!Clients PROVE GotRight(x)' /\ RingInOrder(x)'
  <2>1. ring'[x] = ring[x] \/ ring'[x] = Mux!EmptyRing
    BY DEF Mux!Forget, MuxInv, MuxTypes
  <2>2. GotRight(x)'
    BY DEF Mux!Forget, MuxInv, GotRight, Older
  <2>3. ASSUME ring'[x] = ring[x] PROVE RingInOrder(x)'
    BY <2>3 DEF Mux!Forget, MuxInv, RingInOrder, Older
  <2>4. ASSUME ring'[x] = Mux!EmptyRing PROVE RingInOrder(x)'
    <3>1. ring'[x].count = 0 /\ 0 .. 0 - 1 = {}
      BY <1>1, <2>4
    <3> QED
      BY <3>1 DEF RingInOrder
  <2> QED
    BY <2>1, <2>2, <2>3, <2>4
<1> QED
  BY <1>2, <1>3 DEF MuxInv

LEMMA FrameArrives == ASSUME MuxSizes, MuxInv, NEW kind \in Mux!Kinds, Mux!Arrives(kind) PROVE MuxInv'
<1> DEFINE new == [n |-> arrived + 1, kind |-> kind]
<1>0. new \in MuxFrame /\ new.n = arrived + 1 /\ kernel \in Seq(MuxFrame) /\ arrived \in Nat
  BY DEF MuxInv, MuxTypes, MuxFrame
<1>1. kernel' = Append(kernel, new) /\ arrived' = arrived + 1 /\ UNCHANGED <<ring, listening, asking, muxGot>>
  BY DEF Mux!Arrives
<1> HIDE DEF new
<1>2. /\ DOMAIN kernel' = 1 .. Len(kernel) + 1 /\ DOMAIN kernel = 1 .. Len(kernel) /\ Len(kernel) \in Nat
      /\ \A i \in 1 .. Len(kernel) : kernel'[i] = kernel[i] /\ kernel[i] \in MuxFrame
      /\ kernel'[Len(kernel) + 1] = new
  BY <1>0, <1>1
<1>3. \A f \in MuxFrame : Older(f) => Older(f)'
  BY <1>0, <1>1, <1>2 DEF Older, MuxFrame
<1>4. KernelInOrder'
  BY <1>0, <1>1, <1>2 DEF MuxInv, KernelInOrder, MuxFrame
<1>5. MuxTypes' /\ AskerIsEmpty'
  BY <1>0, <1>1 DEF MuxInv, MuxTypes, AskerIsEmpty
<1>6. ASSUME NEW x \in Mux!Clients PROVE GotRight(x)' /\ RingInOrder(x)'
  <2>1. muxGot[x] \in MuxFrame /\ ring[x] \in MuxRing
    BY DEF MuxInv, MuxTypes
  <2>2. \A i \in 0 .. ring[x].count - 1 : Nth(ring[x], i) \in MuxFrame
    BY <2>1, NthIs
  <2> QED
    BY <1>1, <1>3, <2>1, <2>2 DEF MuxInv, GotRight, RingInOrder
<1> QED
  BY <1>4, <1>5, <1>6 DEF MuxInv

\* A frame for nobody but one stack is of a kind that stack may be given.
LEMMA OwnerIs ==
  ASSUME NEW f \in MuxFrame, NEW x \in Mux!Clients, Mux!Owner(f) \in {x, "arp"} PROVE f.kind \in Mux!For(x)
  BY DEF Mux!Owner, Mux!Fallback, Mux!For, Mux!Clients, MuxFrame, Mux!Kinds

LEMMA SortStep == ASSUME MuxSizes, MuxInv, Mux!Sort PROVE MuxInv'
<1> DEFINE who == asking.who
           f == Head(kernel)
           Soon(g) == g.n <= arrived' /\ \A k \in DOMAIN kernel' : g.n < kernel'[k].n
<1>0. /\ kernel \in Seq(MuxFrame) /\ kernel # <<>> /\ arrived \in Nat /\ f \in MuxFrame
      /\ who \in Mux!Clients /\ asking.left \in Nat /\ asking \in [who : Mux!Clients, left : Nat]
  BY DEF MuxInv, MuxTypes, Mux!Sort
<1>1. /\ kernel' = Tail(kernel) /\ arrived' = arrived /\ UNCHANGED listening
      /\ ring' = [x \in Mux!Clients |-> IF x \in Mux!Copies(f, who) THEN Mux!Kept(ring[x], f) ELSE ring[x]]
      /\ \/ muxGot' = [muxGot EXCEPT ![who] = f] /\ Mux!Mine(f, who) /\ asking' = Mux!Nobody
         \/ muxGot' = muxGot /\ asking' = [asking EXCEPT !.left = @ - 1] /\ asking.left > 0
  BY DEF Mux!Sort, Mux!Gets
<1>2. /\ DOMAIN kernel = 1 .. Len(kernel) /\ DOMAIN kernel' = 1 .. Len(kernel) - 1 /\ Len(kernel) \in Nat \ {0}
      /\ \A i \in 1 .. Len(kernel) - 1 : kernel'[i] = kernel[i + 1]
      /\ \A i \in 1 .. Len(kernel) : kernel[i] \in MuxFrame
      /\ f = kernel[1]
  BY <1>0, <1>1
<1> HIDE DEF f, who
<1>3. ASSUME NEW g \in MuxFrame, Older(g) PROVE Soon(g) /\ g.n < f.n
  <2>1. \A k \in 1 .. Len(kernel) : g.n < kernel[k].n
    BY <1>2, <1>3 DEF Older
  <2>2. \A k \in 1 .. Len(kernel) - 1 : k + 1 \in 1 .. Len(kernel)
    BY <1>2
  <2>3. 1 \in 1 .. Len(kernel)
    BY <1>2
  <2> QED
    BY <1>1, <1>2, <1>3, <2>1, <2>2, <2>3 DEF Older
<1>4. Soon(f)
  <2>1. \A i, j \in 1 .. Len(kernel) : i < j => kernel[i].n < kernel[j].n
    BY <1>2 DEF MuxInv, KernelInOrder
  <2>2. ASSUME NEW k \in 1 .. Len(kernel) - 1 PROVE f.n < kernel'[k].n
    <3>1. k + 1 \in 1 .. Len(kernel) /\ 1 \in 1 .. Len(kernel) /\ 1 < k + 1
      BY <1>2
    <3> QED
      BY <1>2, <2>1, <3>1
  <2>3. f.n <= arrived
    BY <1>2 DEF MuxInv, KernelInOrder
  <2> QED
    BY <1>1, <1>2, <2>2, <2>3
<1>5. KernelInOrder'
  <2>1. \A i \in 1 .. Len(kernel) : 0 < kernel[i].n /\ kernel[i].n <= arrived
    BY <1>2 DEF MuxInv, KernelInOrder
  <2>2. \A i, j \in 1 .. Len(kernel) : i < j => kernel[i].n < kernel[j].n
    BY <1>2 DEF MuxInv, KernelInOrder
  <2>3. ASSUME NEW i \in 1 .. Len(kernel) - 1, NEW j \in 1 .. Len(kernel) - 1, i < j
        PROVE  kernel'[i].n < kernel'[j].n
    <3>1. i + 1 \in 1 .. Len(kernel) /\ j + 1 \in 1 .. Len(kernel) /\ i + 1 < j + 1
      BY <1>2, <2>3
    <3> QED
      BY <1>2, <2>2, <3>1
  <2>4. ASSUME NEW i \in 1 .. Len(kernel) - 1 PROVE 0 < kernel'[i].n /\ kernel'[i].n <= arrived'
    <3>1. i + 1 \in 1 .. Len(kernel)
      BY <1>2
    <3> QED
      BY <1>1, <1>2, <2>1, <3>1
  <2> QED
    BY <1>2, <2>3, <2>4 DEF KernelInOrder
<1>6. ASSUME NEW x \in Mux!Clients
      PROVE  \/ ring'[x] = ring[x]
             \/ /\ x # who /\ f.kind \in Mux!For(x) /\ ring[x].count # Stash
                /\ ring'[x] = Mux!Kept(ring[x], f)
  <2>1. CASE x \notin Mux!Copies(f, who)
    BY <1>1, <2>1
  <2>2. CASE x \in Mux!Copies(f, who)
    <3>1. ring'[x] = Mux!Kept(ring[x], f) /\ x # who /\ Mux!Owner(f) \in {x, "arp"}
      BY <1>1, <2>2 DEF Mux!Copies
    <3>2. f.kind \in Mux!For(x)
      BY <1>0, <3>1, OwnerIs
    <3>3. CASE ring[x].count = Stash
      BY <3>1, <3>3 DEF Mux!Kept
    <3> QED
      BY <3>1, <3>2, <3>3
  <2> QED
    BY <2>1, <2>2
<1>7. ASSUME NEW x \in Mux!Clients
      PROVE  muxGot'[x] = muxGot[x] \/ (x = who /\ muxGot'[x] = f /\ f.kind \in Mux!For(x))
  <2>1. Mux!Mine(f, who) => f.kind \in Mux!For(who)
    BY <1>0, OwnerIs DEF Mux!Mine
  <2> QED
    BY <1>1, <2>1 DEF MuxInv, MuxTypes
<1>8. ring[who].count = 0
  BY <1>0 DEF MuxInv, AskerIsEmpty, Mux!Sort, who
<1>9. ASSUME NEW x \in Mux!Clients PROVE ring'[x] \in MuxRing /\ GotRight(x)' /\ RingInOrder(x)'
  <2>1. /\ ring[x] \in MuxRing /\ muxGot[x] \in MuxFrame /\ ring[x].count \in Nat
        /\ \A i \in 0 .. ring[x].count - 1 : Nth(ring[x], i) \in MuxFrame
    <3>1. ring[x] \in MuxRing /\ muxGot[x] \in MuxFrame
      BY DEF MuxInv, MuxTypes
    <3> QED
      BY <3>1, NthIs DEF MuxRing, MuxSizes
  <2>2. /\ \A i \in 0 .. ring[x].count - 1 :
             /\ Nth(ring[x], i).kind \in Mux!For(x) /\ Soon(Nth(ring[x], i)) /\ Nth(ring[x], i).n < f.n
             /\ muxGot[x].n < Nth(ring[x], i).n
        /\ \A i, j \in 0 .. ring[x].count - 1 : i < j => Nth(ring[x], i).n < Nth(ring[x], j).n
    BY <1>3, <2>1 DEF MuxInv, RingInOrder
  <2>3. muxGot[x].kind \in Mux!For(x) /\ Soon(muxGot[x]) /\ muxGot[x].n < f.n
    BY <1>3, <2>1 DEF MuxInv, GotRight
  <2>4. GotRight(x)'
    <3>1. CASE muxGot'[x] = muxGot[x]
      BY <2>3, <3>1 DEF GotRight, Older
    <3>2. CASE muxGot'[x] = f /\ f.kind \in Mux!For(x)
      BY <1>4, <3>2 DEF GotRight, Older
    <3> QED
      BY <1>7, <3>1, <3>2
  <2>5. CASE ring'[x] = ring[x]
    <3>1. CASE x = who
      <4>1. ring'[x].count = 0
        BY <1>8, <2>5, <3>1
      <4> QED
        BY <2>1, <2>4, <2>5, <4>1 DEF RingInOrder
    <3>2. CASE x # who
      <4>1. muxGot'[x] = muxGot[x]
        BY <1>7, <3>2
      <4>2. RingInOrder(x)'
        BY <2>2, <2>5, <4>1 DEF RingInOrder, Older
      <4> QED
        BY <2>1, <2>4, <2>5, <4>2
    <3> QED
      BY <3>1, <3>2
  <2>6. CASE /\ x # who /\ f.kind \in Mux!For(x) /\ ring[x].count # Stash
             /\ ring'[x] = Mux!Kept(ring[x], f)
    <3> DEFINE r == ring[x]
               k == Mux!Kept(r, f)
    <3>1. /\ k \in MuxRing /\ k.count = r.count + 1
          /\ \A i \in 0 .. r.count - 1 : Nth(k, i) = Nth(r, i)
          /\ Nth(k, r.count) = f
      BY <1>0, <2>1, <2>6, KeptIs
    <3>2. muxGot'[x] = muxGot[x] /\ ring'[x] = k
      BY <1>7, <2>6
    <3> HIDE DEF k
    <3>3. ASSUME NEW i \in 0 .. k.count - 1
          PROVE  /\ Nth(k, i).kind \in Mux!For(x) /\ Soon(Nth(k, i)) /\ muxGot[x].n < Nth(k, i).n
                 /\ i \in 0 .. r.count - 1 \/ i = r.count
      <4>1. i \in 0 .. r.count - 1 \/ i = r.count
        BY <2>1, <3>1
      <4>2. CASE i \in 0 .. r.count - 1
        <5>1. Nth(k, i) = Nth(r, i)
          BY <3>1, <4>2
        <5> QED
          BY <2>2, <4>1, <4>2, <5>1
      <4>3. CASE i = r.count
        <5>1. Nth(k, i) = f
          BY <3>1, <4>3
        <5> QED
          BY <1>4, <2>3, <2>6, <4>1, <5>1
      <4> QED
        BY <4>1, <4>2, <4>3
    <3>4. ASSUME NEW i \in 0 .. k.count - 1, NEW j \in 0 .. k.count - 1, i < j
          PROVE  Nth(k, i).n < Nth(k, j).n
      <4>1. i \in 0 .. r.count - 1
        BY <2>1, <3>1, <3>4
      <4>2. CASE j \in 0 .. r.count - 1
        BY <2>2, <3>1, <3>4, <4>1, <4>2
      <4>3. CASE j = r.count
        BY <2>2, <3>1, <4>1, <4>3
      <4> QED
        BY <3>3, <4>2, <4>3
    <3>5. RingInOrder(x)'
      BY <3>2, <3>3, <3>4 DEF RingInOrder, Older
    <3> QED
      BY <2>4, <3>1, <3>2, <3>5
  <2> QED
    BY <1>6, <2>5, <2>6
<1>10. AskerIsEmpty'
  <2>1. asking' = Mux!Nobody \/ asking'.who = who
    BY <1>0, <1>1 DEF who
  <2>2. ring'[who] = ring[who]
    BY <1>0, <1>6
  <2> QED
    BY <1>8, <2>1, <2>2 DEF AskerIsEmpty
<1>11. MuxTypes'
  <2>1. ring' \in [Mux!Clients -> MuxRing]
    BY <1>1, <1>9
  <2>2. muxGot' \in [Mux!Clients -> MuxFrame]
    BY <1>0, <1>1 DEF MuxInv, MuxTypes
  <2>3. asking' = Mux!Nobody \/ asking' \in [who : Mux!Clients, left : Nat]
    BY <1>0, <1>1
  <2>4. kernel' \in Seq(MuxFrame)
    BY <1>0, <1>1
  <2> QED
    BY <1>0, <1>1, <2>1, <2>2, <2>3, <2>4 DEF MuxInv, MuxTypes
<1> QED
  BY <1>5, <1>9, <1>10, <1>11 DEF MuxInv

LEMMA MuxStep == ASSUME MuxSizes, MuxInv, [Mux!Next]_Mux!vars PROVE MuxInv'
<1>0. listening \in [Mux!Clients -> BOOLEAN] /\ (asking = Mux!Nobody \/ asking \in [who : Mux!Clients, left : Nat])
      /\ (asking # Mux!Nobody => ring[asking.who].count = 0)
  BY DEF MuxInv, MuxTypes, AskerIsEmpty
<1>1. ASSUME NEW who \in Mux!Clients, Mux!Silent(who) PROVE MuxInv'
  <2>1. listening' \in [Mux!Clients -> BOOLEAN] /\ UNCHANGED <<kernel, ring, arrived, muxGot>> /\ asking' = Mux!Nobody
    BY <1>0, <1>1 DEF Mux!Silent
  <2> QED
    BY <2>1, MuxQuiet
<1>2. CASE Mux!GiveUp
  <2>1. listening' \in [Mux!Clients -> BOOLEAN] /\ UNCHANGED <<kernel, ring, arrived, muxGot>> /\ asking' = Mux!Nobody
    BY <1>0, <1>2 DEF Mux!GiveUp
  <2> QED
    BY <2>1, MuxQuiet
<1>3. CASE UNCHANGED Mux!vars
  <2>1. listening' \in [Mux!Clients -> BOOLEAN] /\ UNCHANGED <<kernel, ring, arrived, muxGot>> /\ asking' = asking
    BY <1>0, <1>3 DEF Mux!vars
  <2> QED
    BY <1>0, <2>1, MuxQuiet
<1> QED
  BY <1>1, <1>2, <1>3, PullStep, ForgetStep, FrameArrives, SortStep DEF Mux!Next

LEMMA MuxOrder == ASSUME MuxInv, MuxSizes, Mux!Next PROVE Mux!GivenInOrder
<1>1. CASE \A x \in Mux!Clients : muxGot'[x] = muxGot[x]
  BY <1>1 DEF Mux!GivenInOrder
<1>2. ASSUME NEW who \in Mux!Clients, Mux!Pull(who) PROVE Mux!GivenInOrder
  <2>1. CASE ~Mux!WaitedFirst(who)
    BY <1>1, <1>2, <2>1 DEF Mux!Pull
  <2>2. CASE Mux!WaitedFirst(who)
    <3>1. ring[who] \in MuxRing /\ ring[who].count > 0 /\ ring[who].count \in Nat
      BY <2>2 DEF MuxInv, MuxTypes, Mux!WaitedFirst, MuxRing
    <3>2. muxGot' = [muxGot EXCEPT ![who] = Nth(ring[who], 0)]
      BY <1>2, <2>2, <3>1, GivenIs DEF Mux!Pull, Mux!Gets
    <3>3. 0 \in 0 .. ring[who].count - 1
      BY <3>1
    <3>4. muxGot[who].n < Nth(ring[who], 0).n
      BY <3>3 DEF MuxInv, RingInOrder
    <3> QED
      BY <3>2, <3>4 DEF Mux!GivenInOrder, MuxInv, MuxTypes
  <2> QED
    BY <2>1, <2>2
<1>3. CASE Mux!Sort
  <2>1. muxGot' = muxGot \/ muxGot' = [muxGot EXCEPT ![asking.who] = Head(kernel)]
    BY <1>3 DEF Mux!Sort, Mux!Gets
  <2>2. kernel \in Seq(MuxFrame) /\ kernel # <<>>
    BY <1>3 DEF Mux!Sort, MuxInv, MuxTypes
  <2>3. Head(kernel) = kernel[1] /\ 1 \in DOMAIN kernel
    BY <2>2
  <2>4. \A x \in Mux!Clients : muxGot[x].n < Head(kernel).n
    BY <2>3 DEF MuxInv, GotRight, Older
  <2> QED
    BY <1>1, <2>1, <2>4 DEF Mux!GivenInOrder, MuxInv, MuxTypes
<1> QED
  BY <1>1, <1>2, <1>3 DEF Mux!Next, Mux!Forget, Mux!Silent, Mux!GiveUp, Mux!Arrives

LEMMA MuxArp == ASSUME MuxInv, MuxSizes, Mux!Next PROVE Mux!ArpReachesAll
<1> SUFFICES ASSUME NEW w \in Mux!Clients, NEW x \in Mux!Clients,
                    muxGot'[w] # muxGot[w], kernel' # kernel, muxGot'[w].kind = "arp",
                    x # w, listening[x], ring[x].count < Stash
             PROVE  Mux!Waits(ring'[x], muxGot'[w])
  BY DEF Mux!ArpReachesAll
<1>1. Mux!Sort
  BY DEF Mux!Next, Mux!Pull, Mux!Forget, Mux!Silent, Mux!GiveUp, Mux!Arrives
<1> DEFINE f == Head(kernel)
           r == ring[x]
           k == Mux!Kept(r, f)
<1>2. kernel \in Seq(MuxFrame) /\ kernel # <<>> /\ f \in MuxFrame /\ r \in MuxRing
  BY <1>1 DEF Mux!Sort, MuxInv, MuxTypes
<1>3. w = asking.who /\ muxGot'[w] = f
  BY <1>1 DEF Mux!Sort, Mux!Gets, MuxInv, MuxTypes
<1>4. Mux!Owner(f) = "arp"
  BY <1>3 DEF Mux!Owner
<1>5. ring'[x] = k
  BY <1>1, <1>3, <1>4 DEF Mux!Sort, Mux!Copies
<1>6. k.count = r.count + 1 /\ Nth(k, r.count) = f /\ r.count \in Nat
  <2>1. r.count \in Nat /\ r.count # Stash
    BY <1>2 DEF MuxRing, MuxSizes
  <2> QED
    BY <1>2, <2>1, KeptIs
<1>7. r.count \in 0 .. k.count - 1 /\ k.slot[Mux!SlotOf(k, r.count)] = f
  BY <1>6 DEF Nth
<1> HIDE DEF f, r, k
<1> QED
  BY <1>3, <1>5, <1>7 DEF Mux!Waits

-----------------------------------------------------------------------------
(* JugStore, when one jug has the disk to itself: for any builds, any number *)
(* of writes and any failures and kills the file that runs is a whole build  *)
(* and a download is not lost.                                               *)

JugSteps == {"idle", "write", "clear", "keep", "publish", "restore", "tidy", "erase", "record"}
JugWords == {"", "refused", "unchanged", "kept", "in .BAK", "installed", "removed"}
JugFiles == {"path", "staged", "backup"}
JugVersion == Versions \cup {0}

JugInstance == [step : JugSteps, v : JugVersion, done : 0 .. Pieces, older : BOOLEAN,
             was : Store!Contents \cup {Store!None}, mem : JugVersion, says : JugWords, hurt : BOOLEAN]

StoreSizes == Versions \subseteq Nat \ {0} /\ Pieces \in Nat \ {0}

\* The disk and the instances hold what they should.
JugTypes ==
    /\ disk \in [JugFiles -> Store!Contents \cup {Store!None}]
    /\ reg \in JugVersion /\ faults \in Nat /\ have \in BOOLEAN
    /\ jug \in [Jugs -> JugInstance]

\* A backup is a file that ran before.
BackupWhole == Store!Exists("backup") => Store!Whole(disk["backup"])

\* Until it is set aside, the older copy is where it was.
Untouched(j) == jug[j].was = disk["path"] /\ jug[j].older = Store!Exists("path") /\ jug[j].v \in Versions

\* Without a failure, what is written so far is of the build.
Written(j) ==
    jug[j].step = "write" =>
        /\ Untouched(j)
        /\ ~jug[j].hurt /\ jug[j].done > 0 =>
              disk["staged"] \in Store!Contents /\ \A k \in 1 .. jug[j].done : disk["staged"][k] = jug[j].v

\* Between the check and the renames.
Ready(j) ==
    jug[j].step \in {"clear", "keep"} =>
        /\ Untouched(j) /\ jug[j].older /\ disk["staged"] = Store!Build(jug[j].v)
        /\ jug[j].step = "keep" => ~Store!Exists("backup")

\* Between the renames: the place is free, and the older copy, if any, is aside.
Between(j) ==
    jug[j].step \in {"publish", "restore"} =>
        /\ ~Store!Exists("path") /\ jug[j].v \in Versions
        /\ jug[j].step = "publish" => disk["staged"] = Store!Build(jug[j].v)
        /\ jug[j].step = "restore" => jug[j].hurt
        /\ IF jug[j].older THEN Store!Exists("backup") /\ disk["backup"] = jug[j].was ELSE jug[j].was = Store!None

\* The new copy is in place before the backup goes, and the registry follows success.
Placed(j) ==
    /\ jug[j].step = "tidy" => Store!Exists("path") /\ jug[j].v \in Versions
    /\ jug[j].step \in {"erase", "record"} => jug[j].says \in {"installed", "removed"}

JugInv ==
    /\ JugTypes /\ Store!RunsWhatWasChecked /\ BackupWhole /\ Store!NeverLost /\ Store!ToldTheTruth /\ Store!LeftoversHarmless
    /\ \A j \in Jugs : Written(j) /\ Ready(j) /\ Between(j) /\ Placed(j)

\* A build has contents, and is a file.
LEMMA BuildIs ==
  ASSUME StoreSizes, NEW v \in JugVersion PROVE Store!Build(v) \in Store!Contents /\ Store!Build(v) # Store!None
<1>1. Store!Build(v) \in Store!Contents
  BY DEF Store!Build, Store!Contents, JugVersion
<1>2. DOMAIN Store!Build(v) = 1 .. Pieces /\ 1 \in 1 .. Pieces
  BY DEF Store!Build, StoreSizes
<1>3. DOMAIN Store!None = {}
  BY DEF Store!None
<1> QED
  BY <1>1, <1>2, <1>3

LEMMA ContentsAreFiles == ASSUME StoreSizes PROVE Store!None \notin Store!Contents
<1>1. \A f \in Store!Contents : DOMAIN f = 1 .. Pieces /\ 1 \in 1 .. Pieces
  BY DEF Store!Contents, StoreSizes
<1>2. DOMAIN Store!None = {}
  BY DEF Store!None
<1> QED
  BY <1>1, <1>2

\* One instance is all there is to look at.
Alone(j) == StoreSizes /\ Jugs = {j}

LEMMA IdleIs == ASSUME StoreSizes PROVE Store!Idle \in JugInstance
  BY DEF Store!Idle, JugInstance, JugSteps, JugWords, JugVersion, StoreSizes

LEMMA InitJugInv == ASSUME StoreSizes, Store!Init PROVE JugInv
<1>1. JugTypes
  <2>1. disk \in [JugFiles -> Store!Contents \cup {Store!None}] /\ reg \in JugVersion /\ faults \in Nat /\ have \in BOOLEAN
    BY DEF Store!Init, JugFiles, JugVersion
  <2> QED
    BY <2>1, IdleIs DEF Store!Init, JugTypes
<1>2. \A j \in Jugs : jug[j].step = "idle" /\ jug[j].says = ""
  BY DEF Store!Init, Store!Idle
<1>3. \A f \in JugFiles : disk[f] = Store!None
  BY DEF Store!Init, JugFiles
<1> QED
  BY <1>1, <1>2, <1>3 DEF Store!Init, JugInv, JugFiles, Store!RunsWhatWasChecked, BackupWhole, Store!NeverLost,
     Store!ToldTheTruth, Store!LeftoversHarmless, Written, Ready, Between, Placed, Store!Exists

\* install() up to the first write.
LEMMA BeginJugInv == ASSUME NEW j, Alone(j), JugInv, NEW v \in Versions, Store!Begin(j, v) PROVE JugInv'
<1> DEFINE r == [Store!Idle EXCEPT !.step = "write", !.v = v, !.mem = jug[j].mem, !.older = Store!Exists("path"),
                             !.was = disk["path"]]
<1> USE DEF Alone
<1>1. /\ disk' = [disk EXCEPT !["staged"] = Store!None] /\ UNCHANGED <<reg, faults, have>>
      /\ jug' = [jug EXCEPT ![j] = r]
  BY DEF Store!Begin, Store!Removed
<1>2. jug[j].mem \in JugVersion /\ disk["path"] \in Store!Contents \cup {Store!None}
  BY DEF JugInv, JugTypes, JugInstance, JugFiles
<1>3. r \in JugInstance
  BY <1>2, IdleIs DEF JugInstance, JugSteps, JugVersion, Store!Exists
<1>4. /\ r.step = "write" /\ r.v = v /\ r.done = 0 /\ r.was = disk["path"]
      /\ r.says = "" /\ r.hurt = FALSE
  BY DEF Store!Idle
<1>0. r.older = Store!Exists("path")
  BY DEF Store!Idle
<1> HIDE DEF r
<1>5. JugTypes'
  BY <1>1, <1>3 DEF JugInv, JugTypes, JugFiles
<1>6. /\ jug'[j] = r /\ disk'["path"] = disk["path"] /\ disk'["backup"] = disk["backup"]
  BY <1>1 DEF JugInv, JugTypes, JugFiles
<1>7. (Store!RunsWhatWasChecked /\ BackupWhole /\ Store!NeverLost)'
  BY <1>1, <1>6 DEF JugInv, Store!RunsWhatWasChecked, BackupWhole, Store!NeverLost, Store!Exists
<1>8. (Store!ToldTheTruth /\ Store!LeftoversHarmless)'
  BY <1>4, <1>6 DEF Store!ToldTheTruth, Store!LeftoversHarmless
<1>9. (Ready(j) /\ Between(j) /\ Placed(j))'
  BY <1>4, <1>6 DEF Ready, Between, Placed
<1>10. Written(j)'
  <2>0. jug'[j].done = 0
    BY <1>4, <1>6
  <2>1. ~(jug'[j].done > 0)
    BY <2>0
  <2>2. jug'[j].was = disk'["path"] /\ jug'[j].v \in Versions
    BY <1>4, <1>6
  <2>3. jug'[j].older = Store!Exists("path")'
    BY <1>0, <1>6, Zenon DEF Store!Exists
  <2> QED
    BY <2>1, <2>2, <2>3, Zenon DEF Written, Untouched
<1> QED
  BY <1>5, <1>7, <1>8, <1>9, <1>10 DEF JugInv

\* The fields a step of the code does not name stay.
LEMMA StepOnly ==
  ASSUME NEW j \in Jugs, JugTypes, NEW s \in JugSteps, jug' = [jug EXCEPT ![j].step = s]
  PROVE  /\ jug' \in [Jugs -> JugInstance] /\ jug'[j].step = s /\ jug'[j].v = jug[j].v /\ jug'[j].done = jug[j].done
         /\ jug'[j].older = jug[j].older /\ jug'[j].was = jug[j].was /\ jug'[j].says = jug[j].says
         /\ jug'[j].hurt = jug[j].hurt /\ jug'[j].mem = jug[j].mem
  BY DEF JugTypes, JugInstance

LEMMA StepAndWord ==
  ASSUME NEW j \in Jugs, JugTypes, NEW s \in JugSteps, NEW w \in JugWords,
         jug' = [jug EXCEPT ![j].step = s, ![j].says = w]
  PROVE  /\ jug' \in [Jugs -> JugInstance] /\ jug'[j].step = s /\ jug'[j].says = w
         /\ jug'[j].was = jug[j].was /\ jug'[j].hurt = jug[j].hurt
  BY ZenonT(60) DEF JugTypes, JugInstance

LEMMA StepAndHurt ==
  ASSUME NEW j \in Jugs, JugTypes, NEW s \in JugSteps, NEW w \in JugWords,
         jug' = [jug EXCEPT ![j].step = s, ![j].says = w, ![j].hurt = TRUE]
  PROVE  /\ jug' \in [Jugs -> JugInstance] /\ jug'[j].step = s /\ jug'[j].says = w
         /\ jug'[j].was = jug[j].was /\ jug'[j].hurt
  BY ZenonT(60) DEF JugTypes, JugInstance

\* An install that was hurt and stops before the first rename.
LEMMA StopsJugInv ==
  ASSUME NEW j, Alone(j), JugInv, jug[j].step \in {"write", "clear", "keep"},
         jug' = [jug EXCEPT ![j].step = "idle", ![j].says = "unchanged", ![j].hurt = TRUE],
         disk' = disk \/ disk' = Store!Removed("staged"), faults' \in Nat, UNCHANGED <<reg, have>>
  PROVE  JugInv'
<1> USE DEF Alone
<1>1. jug[j].was = disk["path"]
  BY DEF JugInv, Written, Ready, Untouched
<1>2. /\ jug' \in [Jugs -> JugInstance] /\ jug'[j].step = "idle" /\ jug'[j].says = "unchanged"
      /\ jug'[j].was = jug[j].was /\ jug'[j].hurt
  BY StepAndHurt DEF JugInv, JugSteps, JugWords
<1>3. disk' \in [JugFiles -> Store!Contents \cup {Store!None}] /\ disk'["path"] = disk["path"] /\ disk'["backup"] = disk["backup"]
  BY DEF JugInv, JugTypes, Store!Removed, JugFiles
<1>4. JugTypes'
  BY <1>2, <1>3 DEF JugInv, JugTypes
<1>5. (Store!RunsWhatWasChecked /\ BackupWhole /\ Store!NeverLost)'
  BY <1>3 DEF JugInv, Store!RunsWhatWasChecked, BackupWhole, Store!NeverLost, Store!Exists
<1>6. (Store!ToldTheTruth /\ Store!LeftoversHarmless)'
  BY <1>1, <1>2, <1>3 DEF Store!ToldTheTruth, Store!LeftoversHarmless
<1>7. (Written(j) /\ Ready(j) /\ Between(j) /\ Placed(j))'
  BY <1>2 DEF Written, Ready, Between, Placed
<1> QED
  BY <1>4, <1>5, <1>6, <1>7 DEF JugInv

\* Steps that leave the files alone and end outside install(), or stay outside.
LEMMA QuietJugInv ==
  ASSUME NEW j, Alone(j), JugInv, disk' = disk, have' = have, reg' \in JugVersion, faults' \in Nat,
         jug' \in [Jugs -> JugInstance], jug'[j].step \in {"idle", "record"},
         \/ jug'[j].says \in {"", "refused", "installed", "removed"} /\ jug'[j].step = "idle"
         \/ jug'[j].says \in {"installed", "removed"}
         \/ /\ jug[j].step = "idle" /\ jug'[j].step = "idle"
            /\ jug'[j].says = jug[j].says /\ jug'[j].was = jug[j].was /\ jug'[j].hurt = jug[j].hurt
  PROVE  JugInv'
<1> USE DEF Alone
<1>1. JugTypes'
  BY DEF JugInv, JugTypes
<1>2. (Store!RunsWhatWasChecked /\ BackupWhole /\ Store!NeverLost)'
  BY DEF JugInv, Store!RunsWhatWasChecked, BackupWhole, Store!NeverLost, Store!Exists
<1>3. Store!ToldTheTruth'
  BY DEF JugInv, Store!ToldTheTruth
<1>4. Store!LeftoversHarmless'
  BY DEF JugInv, Store!LeftoversHarmless
<1>5. (Written(j) /\ Ready(j) /\ Between(j) /\ Placed(j))'
  BY DEF Written, Ready, Between, Placed
<1> QED
  BY <1>1, <1>2, <1>3, <1>4, <1>5 DEF JugInv

LEMMA OutsideJugInv ==
  ASSUME NEW j, Alone(j), JugInv, Store!BeginFails(j) \/ Store!Erase(j) \/ Store!Record(j) \/ Store!Load(j) \/ Store!Killed(j)
  PROVE  JugInv'
<1> USE DEF Alone
<1>1. JugTypes /\ j \in Jugs /\ faults + 1 \in Nat /\ jug[j] \in JugInstance
  BY DEF JugInv, JugTypes
<1>2. CASE Store!BeginFails(j)
  <2>1. jug' \in [Jugs -> JugInstance] /\ jug'[j].step = "idle" /\ jug'[j].says = "refused"
    BY <1>1, <1>2, StepAndWord DEF Store!BeginFails, Store!Ends, JugSteps, JugWords
  <2> QED
    BY <1>1, <1>2, <2>1, QuietJugInv DEF Store!BeginFails, Store!Fault, JugTypes
<1>3. CASE Store!Erase(j)
  <2>1. PICK s \in {"record", "idle"} : jug' = [jug EXCEPT ![j].step = s]
    BY <1>3 DEF Store!Erase, Store!Goes
  <2>2. jug' \in [Jugs -> JugInstance] /\ jug'[j].step = s /\ jug'[j].says = jug[j].says
    BY <1>1, <2>1, StepOnly DEF JugSteps
  <2>3. jug[j].says \in {"installed", "removed"}
    BY <1>3 DEF JugInv, Placed, Store!Erase
  <2>4. disk' = disk /\ have' = have /\ reg' \in JugVersion /\ faults' \in Nat
    BY <1>1, <1>3 DEF Store!Erase, Store!Fault, JugTypes, JugVersion
  <2> QED
    BY <2>1, <2>2, <2>3, <2>4, QuietJugInv
<1>4. CASE Store!Record(j)
  <2>1. jug' \in [Jugs -> JugInstance] /\ jug'[j].step = "idle" /\ jug'[j].says = jug[j].says
    BY <1>1, <1>4, StepOnly DEF Store!Record, Store!Goes, JugSteps
  <2>2. jug[j].says \in {"installed", "removed"}
    BY <1>4 DEF JugInv, Placed, Store!Record
  <2>3. disk' = disk /\ have' = have /\ reg' \in JugVersion /\ faults' \in Nat
    BY <1>1, <1>4 DEF Store!Record, Store!Fault, JugTypes, JugInstance
  <2> QED
    BY <2>1, <2>2, <2>3, QuietJugInv
<1>5. CASE Store!Load(j)
  <2>1. jug' = [jug EXCEPT ![j].mem = reg] /\ reg \in JugVersion /\ jug[j].step = "idle"
    BY <1>1, <1>5 DEF Store!Load, JugTypes
  <2>2. jug' \in [Jugs -> JugInstance] /\ jug'[j].step = "idle" /\ jug'[j].says = jug[j].says
        /\ jug'[j].was = jug[j].was /\ jug'[j].hurt = jug[j].hurt
    BY <1>1, <2>1 DEF JugTypes, JugInstance
  <2>3. disk' = disk /\ have' = have /\ reg' \in JugVersion /\ faults' \in Nat
    BY <1>1, <1>5 DEF Store!Load, JugTypes
  <2> QED
    BY <2>1, <2>2, <2>3, QuietJugInv
<1>6. CASE Store!Killed(j)
  <2>1. jug' = [jug EXCEPT ![j] = [Store!Idle EXCEPT !.mem = reg]] /\ reg \in JugVersion
    BY <1>1, <1>6 DEF Store!Killed, JugTypes
  <2>2. [Store!Idle EXCEPT !.mem = reg] \in JugInstance
    BY <2>1, IdleIs DEF JugInstance
  <2>3. [Store!Idle EXCEPT !.mem = reg].step = "idle" /\ [Store!Idle EXCEPT !.mem = reg].says = ""
    BY DEF Store!Idle
  <2>4. jug' \in [Jugs -> JugInstance] /\ jug'[j].step = "idle" /\ jug'[j].says = ""
    BY <1>1, <2>1, <2>2, <2>3 DEF JugTypes
  <2>5. disk' = disk /\ have' = have /\ reg' \in JugVersion /\ faults' \in Nat
    BY <1>1, <1>6 DEF Store!Killed, Store!Fault, JugTypes
  <2> QED
    BY <2>4, <2>5, QuietJugInv
<1> QED
  BY <1>2, <1>3, <1>4, <1>5, <1>6

LEMMA DoneAndHurt ==
  ASSUME NEW j \in Jugs, JugTypes, NEW n \in 0 .. Pieces, NEW b \in BOOLEAN,
         jug' = [jug EXCEPT ![j].done = n, ![j].hurt = b]
  PROVE  /\ jug' \in [Jugs -> JugInstance] /\ jug'[j].step = jug[j].step /\ jug'[j].done = n
         /\ jug'[j].was = jug[j].was /\ jug'[j].v = jug[j].v /\ jug'[j].older = jug[j].older
         /\ jug'[j].says = jug[j].says
  BY ZenonT(60) DEF JugTypes, JugInstance

\* replaceFile() of the staged copy, a piece at a time.
LEMMA WriteJugInv == ASSUME NEW j, Alone(j), JugInv, Store!Write(j) PROVE JugInv'
<1> DEFINE k == jug[j].done + 1
           old == IF Store!Exists("staged") /\ k > 1 THEN disk["staged"] ELSE Store!Build(0)
<1> USE DEF Alone
<1>1. JugTypes /\ j \in Jugs /\ jug[j] \in JugInstance /\ jug[j].step = "write" /\ jug[j].done < Pieces
  BY DEF JugInv, JugTypes, Store!Write, Store!Unwritten
<1>2. jug[j].was = disk["path"] /\ jug[j].older = Store!Exists("path") /\ jug[j].v \in Versions
  BY <1>1 DEF JugInv, Written, Untouched
<1>3. k \in 1 .. Pieces /\ k = jug[j].done + 1 /\ jug[j].done \in 0 .. Pieces
  BY <1>1 DEF JugInstance, StoreSizes
<1>4. old \in Store!Contents
  <2>1. Store!Build(0) \in Store!Contents
    BY BuildIs DEF JugVersion
  <2>2. Store!Exists("staged") => disk["staged"] \in Store!Contents
    BY <1>1 DEF JugTypes, Store!Exists, JugFiles
  <2> QED
    BY <2>1, <2>2
<1>5. PICK p \in JugVersion : disk' = [disk EXCEPT !["staged"] = [old EXCEPT ![k] = p]]
                          /\ (p = jug[j].v \/ faults' # faults)
  <2>1. /\ \/ disk' = Store!Put("staged", jug[j].v, k) /\ UNCHANGED faults
           \/ disk' = Store!Put("staged", 0, k) /\ faults' = faults + 1
        /\ faults \in Nat
    BY <1>1 DEF Store!Write, Store!Fault, JugTypes
  <2>2. jug[j].v \in JugVersion /\ 0 \in JugVersion
    BY <1>2 DEF JugVersion
  <2>3. faults + 1 # faults
    BY <2>1
  <2> QED
    BY <2>1, <2>2, <2>3 DEF Store!Put
<1>6. jug' = [jug EXCEPT ![j].done = k, ![j].hurt = jug[j].hurt \/ faults' # faults]
  BY DEF Store!Write
<1>7. reg' = reg /\ have' = have /\ faults' \in Nat
  BY <1>1 DEF Store!Write, Store!Fault, JugTypes
<1> HIDE DEF k, old
<1>8. [old EXCEPT ![k] = p] \in Store!Contents
  BY <1>3, <1>4 DEF Store!Contents, JugVersion
<1>9. /\ disk'["path"] = disk["path"] /\ disk'["backup"] = disk["backup"]
      /\ disk'["staged"] = [old EXCEPT ![k] = p] /\ disk' \in [JugFiles -> Store!Contents \cup {Store!None}]
  BY <1>1, <1>5, <1>8 DEF JugTypes, JugFiles
<1>10. (jug[j].hurt \/ faults' # faults) \in BOOLEAN
  OBVIOUS
<1>11. /\ jug' \in [Jugs -> JugInstance] /\ jug'[j].step = "write" /\ jug'[j].done = k /\ jug'[j].was = jug[j].was
       /\ jug'[j].v = jug[j].v /\ jug'[j].older = jug[j].older
       /\ jug'[j].says = jug[j].says
  <2>1. k \in 0 .. Pieces
    BY <1>3
  <2> QED
    BY <1>1, <1>6, <1>10, <2>1, DoneAndHurt
<1>12. jug'[j].hurt = (jug[j].hurt \/ faults' # faults)
  BY <1>1, <1>6 DEF JugTypes, JugInstance
<1>13. JugTypes'
  BY <1>1, <1>7, <1>9, <1>11 DEF JugTypes
<1>14. (Store!RunsWhatWasChecked /\ BackupWhole /\ Store!NeverLost)'
  BY <1>7, <1>9 DEF JugInv, Store!RunsWhatWasChecked, BackupWhole, Store!NeverLost, Store!Exists
<1>15. Store!ToldTheTruth'
  BY <1>11 DEF Store!ToldTheTruth
<1>16. Store!LeftoversHarmless'
  <2>1. jug[j].says \in {"unchanged", "kept", "in .BAK"} => jug[j].hurt
    BY DEF JugInv, Store!LeftoversHarmless
  <2>2. jug[j].hurt => jug'[j].hurt
    BY <1>12, Zenon
  <2> QED
    BY <1>11, <2>1, <2>2, Zenon DEF Store!LeftoversHarmless
<1>17. (Ready(j) /\ Between(j) /\ Placed(j))'
  BY <1>11 DEF Ready, Between, Placed
<1>18. Untouched(j)'
  BY <1>2, <1>9, <1>11, Zenon DEF Untouched, Store!Exists
<1>19. ASSUME ~jug'[j].hurt PROVE \A n \in 1 .. k : disk'["staged"][n] = jug[j].v
  <2>1. ~jug[j].hurt /\ faults' = faults
    BY <1>12, <1>19, Zenon
  <2>2. p = jug[j].v
    BY <1>5, <2>1
  <2>3. jug[j].done > 0 => disk["staged"] \in Store!Contents /\ \A n \in 1 .. jug[j].done : disk["staged"][n] = jug[j].v
    <3>1. jug[j].step = "write" /\ Written(j)
      BY <1>1 DEF JugInv
    <3> QED
      BY <2>1, <3>1, Zenon DEF Written
  <2>4. CASE jug[j].done = 0
    BY <1>3, <1>4, <1>9, <2>2, <2>4 DEF Store!Contents
  <2>5. CASE jug[j].done > 0
    <3>1. disk["staged"] \in Store!Contents /\ \A n \in 1 .. jug[j].done : disk["staged"][n] = jug[j].v
      BY <2>3, <2>5
    <3>2. Store!Exists("staged")
      BY <3>1, ContentsAreFiles DEF Store!Exists
    <3>3. old = disk["staged"]
      BY <1>3, <2>5, <3>2 DEF old
    <3> SUFFICES ASSUME NEW n \in 1 .. k PROVE disk'["staged"][n] = jug[j].v
      OBVIOUS
    <3>4. n \in 1 .. Pieces /\ (n = k \/ n \in 1 .. jug[j].done)
      BY <1>3 DEF StoreSizes
    <3>5. disk'["staged"] = [disk["staged"] EXCEPT ![k] = jug[j].v] /\ DOMAIN disk["staged"] = 1 .. Pieces
      BY <1>9, <2>2, <3>1, <3>3 DEF Store!Contents
    <3> QED
      BY <3>1, <3>4, <3>5
  <2> QED
    BY <1>3, <2>4, <2>5
<1>20. Written(j)'
  <2>1. disk'["staged"] \in Store!Contents
    BY <1>8, <1>9
  <2>2. ~jug'[j].hurt => \A n \in 1 .. jug'[j].done : disk'["staged"][n] = jug'[j].v
    BY <1>11, <1>19, Zenon
  <2> QED
    BY <1>18, <2>1, <2>2, Zenon DEF Written
<1> QED
  BY <1>13, <1>14, <1>15, <1>16, <1>17, <1>20 DEF JugInv

\* The staged copy is read back; one that was not hurt is as it should be.
LEMMA VerifyJugInv == ASSUME NEW j, Alone(j), JugInv, Store!Verify(j) PROVE JugInv'
<1> USE DEF Alone
<1>1. JugTypes /\ j \in Jugs /\ jug[j] \in JugInstance /\ jug[j].step = "write" /\ jug[j].done = Pieces
  BY DEF JugInv, JugTypes, Store!Verify
<1>2. jug[j].was = disk["path"] /\ jug[j].older = Store!Exists("path") /\ jug[j].v \in Versions
  BY <1>1 DEF JugInv, Written, Untouched
<1>3. UNCHANGED <<reg, faults, have>>
  BY DEF Store!Verify
<1>4. CASE Store!ReadsBack(j)
  <2>1. PICK s \in {"clear", "publish"} :
            jug' = [jug EXCEPT ![j].step = s] /\ (s = "clear" => jug[j].older) /\ (s = "publish" => ~jug[j].older)
    BY <1>4 DEF Store!Verify, Store!Goes
  <2>2. disk' = disk /\ disk["staged"] = Store!Build(jug[j].v)
    BY <1>4 DEF Store!Verify, Store!ReadsBack
  <2>3. /\ jug' \in [Jugs -> JugInstance] /\ jug'[j].step = s /\ jug'[j].v = jug[j].v
        /\ jug'[j].older = jug[j].older /\ jug'[j].was = jug[j].was /\ jug'[j].says = jug[j].says
        /\ jug'[j].hurt = jug[j].hurt
    BY <1>1, <2>1, StepOnly DEF JugSteps
  <2>4. JugTypes'
    BY <1>1, <1>3, <2>2, <2>3 DEF JugTypes
  <2>5. (Store!RunsWhatWasChecked /\ BackupWhole /\ Store!NeverLost)'
    BY <1>3, <2>2 DEF JugInv, Store!RunsWhatWasChecked, BackupWhole, Store!NeverLost, Store!Exists
  <2>6. Store!ToldTheTruth' /\ Store!LeftoversHarmless'
    BY <2>3 DEF JugInv, Store!ToldTheTruth, Store!LeftoversHarmless
  <2>7. (Written(j) /\ Placed(j))'
    BY <2>3 DEF Written, Placed
  <2>8. CASE s = "clear"
    <3>1. Ready(j)'
      BY <1>2, <2>1, <2>2, <2>3, <2>8, Zenon DEF Ready, Untouched, Store!Exists, Store!Build
    <3>2. Between(j)'
      BY <2>3, <2>8 DEF Between
    <3> QED
      BY <2>4, <2>5, <2>6, <2>7, <3>1, <3>2 DEF JugInv
  <2>9. CASE s = "publish"
    <3>1. Ready(j)'
      BY <2>3, <2>9 DEF Ready
    <3>2. ~Store!Exists("path") /\ ~jug[j].older
      BY <1>2, <2>1, <2>9, Zenon
    <3>3. jug[j].was = Store!None
      BY <1>2, <3>2 DEF Store!Exists
    <3>4. Between(j)'
      BY <1>2, <2>2, <2>3, <2>9, <3>2, <3>3, Zenon DEF Between, Store!Exists, Store!Build
    <3> QED
      BY <2>4, <2>5, <2>6, <2>7, <3>1, <3>4 DEF JugInv
  <2> QED
    BY <2>8, <2>9
<1>5. CASE ~Store!ReadsBack(j)
  <2>1. jug[j].hurt
    <3> SUFFICES ASSUME ~jug[j].hurt PROVE FALSE
      OBVIOUS
    <3>1. Pieces > 0 /\ jug[j].done > 0
      BY <1>1 DEF StoreSizes
    <3>2. disk["staged"] \in Store!Contents /\ \A n \in 1 .. jug[j].done : disk["staged"][n] = jug[j].v
      <4>1. Written(j)
        BY <1>1 DEF JugInv
      <4> QED
        BY <1>1, <3>1, <4>1, Zenon DEF Written
    <3>3. disk["staged"] = Store!Build(jug[j].v)
      BY <1>1, <3>2 DEF Store!Build, Store!Contents
    <3> QED
      BY <1>5, <3>3 DEF Store!ReadsBack
  <2>2. disk' = Store!Removed("staged") /\ jug' = [jug EXCEPT ![j].step = "idle", ![j].says = "unchanged"]
    BY <1>5 DEF Store!Verify, Store!Ends
  <2>3. /\ jug' \in [Jugs -> JugInstance] /\ jug'[j].step = "idle" /\ jug'[j].says = "unchanged"
        /\ jug'[j].was = jug[j].was /\ jug'[j].hurt = jug[j].hurt
    BY <1>1, <2>2, StepAndWord DEF JugSteps, JugWords
  <2>4. /\ disk' \in [JugFiles -> Store!Contents \cup {Store!None}]
        /\ disk'["path"] = disk["path"] /\ disk'["backup"] = disk["backup"]
    BY <1>1, <2>2 DEF JugTypes, Store!Removed, JugFiles
  <2>5. JugTypes'
    BY <1>1, <1>3, <2>3, <2>4 DEF JugTypes
  <2>6. (Store!RunsWhatWasChecked /\ BackupWhole /\ Store!NeverLost)'
    BY <1>3, <2>4 DEF JugInv, Store!RunsWhatWasChecked, BackupWhole, Store!NeverLost, Store!Exists
  <2>7. Store!ToldTheTruth'
    BY <1>2, <2>3, <2>4 DEF Store!ToldTheTruth
  <2>8. Store!LeftoversHarmless'
    BY <2>1, <2>3, Zenon DEF Store!LeftoversHarmless
  <2>9. (Written(j) /\ Ready(j) /\ Between(j) /\ Placed(j))'
    BY <2>3 DEF Written, Ready, Between, Placed
  <2> QED
    BY <2>5, <2>6, <2>7, <2>8, <2>9 DEF JugInv
<1> QED
  BY <1>4, <1>5

\* The place of the backup is cleared while the program is in its own.
LEMMA ClearJugInv == ASSUME NEW j, Alone(j), JugInv, Store!ClearBackup(j) PROVE JugInv'
<1> USE DEF Alone
<1>1. JugTypes /\ j \in Jugs /\ jug[j].step = "clear" /\ UNCHANGED <<reg, faults, have>>
  BY DEF JugInv, Store!ClearBackup
<1>2. Untouched(j) /\ jug[j].older /\ disk["staged"] = Store!Build(jug[j].v)
  BY <1>1 DEF JugInv, Ready
<1>3. /\ jug' \in [Jugs -> JugInstance] /\ jug'[j].step = "keep" /\ jug'[j].v = jug[j].v
      /\ jug'[j].older = jug[j].older /\ jug'[j].was = jug[j].was /\ jug'[j].says = jug[j].says
      /\ jug'[j].hurt = jug[j].hurt
  BY <1>1, StepOnly DEF Store!ClearBackup, Store!Goes, JugSteps
<1>4. /\ disk' \in [JugFiles -> Store!Contents \cup {Store!None}] /\ disk'["path"] = disk["path"]
      /\ disk'["backup"] = Store!None /\ disk'["staged"] = disk["staged"]
  BY <1>1 DEF JugTypes, Store!ClearBackup, Store!OldBackupGoes, Store!Removed, JugFiles
<1>5. JugTypes'
  BY <1>1, <1>3, <1>4 DEF JugTypes
<1>6. Store!Exists("path") /\ Store!Whole(disk["path"])
  <2>1. Store!Exists("path")
    BY <1>2, Zenon DEF Untouched
  <2> QED
    BY <2>1 DEF JugInv, Store!RunsWhatWasChecked
<1>7. (Store!RunsWhatWasChecked /\ BackupWhole /\ Store!NeverLost)'
  BY <1>4, <1>6 DEF Store!RunsWhatWasChecked, BackupWhole, Store!NeverLost, Store!Exists, Store!Whole, Store!Build
<1>8. Store!ToldTheTruth' /\ Store!LeftoversHarmless'
  BY <1>3 DEF JugInv, Store!ToldTheTruth, Store!LeftoversHarmless
<1>9. Ready(j)'
  BY <1>2, <1>3, <1>4, Zenon DEF Ready, Untouched, Store!Exists, Store!Build
<1>10. (Written(j) /\ Between(j) /\ Placed(j))'
  BY <1>3 DEF Written, Between, Placed
<1> QED
  BY <1>5, <1>7, <1>8, <1>9, <1>10 DEF JugInv

\* The older copy is set aside: whole, and under the name it can come back from.
LEMMA KeepJugInv == ASSUME NEW j, Alone(j), JugInv, Store!Keep(j) PROVE JugInv'
<1> USE DEF Alone
<1>1. JugTypes /\ j \in Jugs /\ jug[j].step = "keep" /\ UNCHANGED <<reg, faults, have>>
  BY DEF JugInv, Store!Keep
<1>2. Untouched(j) /\ jug[j].older /\ disk["staged"] = Store!Build(jug[j].v) /\ ~Store!Exists("backup")
  BY <1>1 DEF JugInv, Ready
<1>3. Store!Exists("path") /\ Store!Whole(disk["path"])
  <2>1. Store!Exists("path")
    BY <1>2, Zenon DEF Untouched
  <2> QED
    BY <2>1 DEF JugInv, Store!RunsWhatWasChecked
<1>4. disk' = Store!Renamed("path", "backup") /\ jug' = [jug EXCEPT ![j].step = "publish"]
  BY <1>2, <1>3 DEF Store!Keep, Store!CanRename, Store!KeptAside, Store!Goes
<1>5. /\ jug' \in [Jugs -> JugInstance] /\ jug'[j].step = "publish" /\ jug'[j].v = jug[j].v
      /\ jug'[j].older = jug[j].older /\ jug'[j].was = jug[j].was /\ jug'[j].says = jug[j].says
      /\ jug'[j].hurt = jug[j].hurt
  BY <1>1, <1>4, StepOnly DEF JugSteps
<1>6. /\ disk' \in [JugFiles -> Store!Contents \cup {Store!None}] /\ disk'["path"] = Store!None
      /\ disk'["backup"] = disk["path"] /\ disk'["staged"] = disk["staged"]
  BY <1>1, <1>4 DEF JugTypes, Store!Renamed, JugFiles
<1>7. JugTypes'
  BY <1>1, <1>5, <1>6 DEF JugTypes
<1>8. (Store!RunsWhatWasChecked /\ BackupWhole /\ Store!NeverLost)'
  BY <1>3, <1>6 DEF Store!RunsWhatWasChecked, BackupWhole, Store!NeverLost, Store!Exists, Store!Whole, Store!Build
<1>9. Store!ToldTheTruth' /\ Store!LeftoversHarmless'
  BY <1>5 DEF JugInv, Store!ToldTheTruth, Store!LeftoversHarmless
<1>10. Between(j)'
  <2>1. jug[j].was = disk["path"] /\ jug[j].v \in Versions
    BY <1>2 DEF Untouched
  <2> QED
    BY <1>2, <1>3, <1>5, <1>6, <2>1, Zenon DEF Between, Store!Exists, Store!Build
<1>11. (Written(j) /\ Ready(j) /\ Placed(j))'
  BY <1>5 DEF Written, Ready, Placed
<1> QED
  BY <1>7, <1>8, <1>9, <1>10, <1>11 DEF JugInv

\* The checked copy takes the free place, unless the rename fails.
LEMMA PublishJugInv == ASSUME NEW j, Alone(j), JugInv, Store!Publish(j) PROVE JugInv'
<1> USE DEF Alone
<1>1. JugTypes /\ j \in Jugs /\ jug[j].step = "publish" /\ UNCHANGED <<reg, faults>>
  BY DEF JugInv, Store!Publish
<1>2. ~Store!Exists("path") /\ jug[j].v \in Versions /\ disk["staged"] = Store!Build(jug[j].v)
  BY <1>1 DEF JugInv, Between
<1>3. Store!Exists("staged") /\ disk["staged"] # Store!None
  BY <1>2, BuildIs DEF Store!Exists, JugVersion
<1>4. disk' = Store!Renamed("staged", "path") /\ jug' = [jug EXCEPT ![j].step = "tidy"] /\ have' = TRUE
  BY <1>1, <1>2, <1>3 DEF Store!Publish, Store!CanRename, Store!Goes
<1>5. /\ jug' \in [Jugs -> JugInstance] /\ jug'[j].step = "tidy" /\ jug'[j].v = jug[j].v
      /\ jug'[j].says = jug[j].says /\ jug'[j].hurt = jug[j].hurt
  BY <1>1, <1>4, StepOnly DEF JugSteps
<1>6. /\ disk' \in [JugFiles -> Store!Contents \cup {Store!None}] /\ disk'["path"] = disk["staged"]
      /\ disk'["backup"] = disk["backup"]
  BY <1>1, <1>4 DEF JugTypes, Store!Renamed, JugFiles
<1>7. JugTypes'
  BY <1>1, <1>4, <1>5, <1>6 DEF JugTypes
<1>8. Store!Whole(disk["staged"])
  BY <1>2 DEF Store!Whole
<1>9. (Store!RunsWhatWasChecked /\ BackupWhole /\ Store!NeverLost)'
  BY <1>6, <1>8 DEF JugInv, Store!RunsWhatWasChecked, BackupWhole, Store!NeverLost, Store!Exists, Store!Whole, Store!Build
<1>10. Store!ToldTheTruth' /\ Store!LeftoversHarmless'
  BY <1>5 DEF JugInv, Store!ToldTheTruth, Store!LeftoversHarmless
<1>11. (Written(j) /\ Ready(j) /\ Between(j) /\ Placed(j))'
  BY <1>2, <1>3, <1>5, <1>6 DEF Written, Ready, Between, Placed, Store!Exists
<1> QED
  BY <1>7, <1>9, <1>10, <1>11 DEF JugInv

LEMMA HurtStep ==
  ASSUME NEW j \in Jugs, JugTypes, NEW s \in JugSteps, jug' = [jug EXCEPT ![j].step = s, ![j].hurt = TRUE]
  PROVE  /\ jug' \in [Jugs -> JugInstance] /\ jug'[j].step = s /\ jug'[j].v = jug[j].v
         /\ jug'[j].older = jug[j].older /\ jug'[j].was = jug[j].was /\ jug'[j].says = jug[j].says
         /\ jug'[j].hurt
  BY ZenonT(60) DEF JugTypes, JugInstance

LEMMA PublishFailsJugInv == ASSUME NEW j, Alone(j), JugInv, Store!PublishFails(j) PROVE JugInv'
<1> USE DEF Alone
<1>1. JugTypes /\ j \in Jugs /\ jug[j].step = "publish" /\ UNCHANGED <<disk, reg, have>> /\ faults' \in Nat
  BY DEF JugInv, Store!PublishFails, Store!Fault, JugTypes
<1>2. jug' = [jug EXCEPT ![j].step = "restore", ![j].hurt = TRUE]
  BY DEF Store!PublishFails, Store!Broken
<1>3. jug' \in [Jugs -> JugInstance] /\ jug'[j].hurt
  BY <1>1, <1>2, HurtStep DEF JugSteps
<1>4. /\ jug'[j].step = "restore" /\ jug'[j].v = jug[j].v
      /\ jug'[j].older = jug[j].older /\ jug'[j].was = jug[j].was /\ jug'[j].says = jug[j].says
  BY <1>1, <1>2, HurtStep DEF JugSteps
<1>5. JugTypes'
  BY <1>1, <1>3 DEF JugTypes
<1>6. (Store!RunsWhatWasChecked /\ BackupWhole /\ Store!NeverLost)'
  BY <1>1 DEF JugInv, Store!RunsWhatWasChecked, BackupWhole, Store!NeverLost, Store!Exists, Store!Whole, Store!Build
<1>7. Store!ToldTheTruth' /\ Store!LeftoversHarmless'
  BY <1>3, <1>4 DEF Store!ToldTheTruth, Store!LeftoversHarmless
<1>8. Between(j)'
  <2>1. Between(j)
    BY DEF JugInv
  <2> QED
    BY <1>1, <1>3, <1>4, <2>1, Zenon DEF Between, Store!Exists
<1>9. (Written(j) /\ Ready(j) /\ Placed(j))'
  BY <1>4 DEF Written, Ready, Placed
<1> QED
  BY <1>5, <1>6, <1>7, <1>8, <1>9 DEF JugInv

\* The older copy goes back; when even that fails it is whole under the backup's name.
LEMMA RestoreJugInv == ASSUME NEW j, Alone(j), JugInv, Store!Restore(j) PROVE JugInv'
<1> USE DEF Alone
<1>1. JugTypes /\ j \in Jugs /\ jug[j].step = "restore" /\ UNCHANGED <<reg, have>> /\ faults' \in Nat
  <2>1. JugTypes /\ faults \in Nat /\ jug[j].step = "restore" /\ UNCHANGED <<reg, have>>
    BY DEF JugInv, Store!Restore, JugTypes
  <2>2. faults' = faults \/ faults' = faults + 1
    BY Zenon DEF Store!Restore, Store!Fault
  <2> QED
    BY <2>1, <2>2
<1>2. /\ ~Store!Exists("path") /\ jug[j].hurt
      /\ jug[j].older => Store!Exists("backup") /\ disk["backup"] = jug[j].was
      /\ ~jug[j].older => jug[j].was = Store!None
  BY <1>1, Zenon DEF JugInv, Between
<1>3. Store!Exists("backup") => Store!Whole(disk["backup"])
  BY DEF JugInv, BackupWhole
<1>4. \/ /\ jug[j].older /\ disk' = [Store!Renamed("backup", "path") EXCEPT !["staged"] = Store!None]
         /\ jug' = [jug EXCEPT ![j].step = "idle", ![j].says = "kept"]
      \/ /\ ~jug[j].older /\ disk' = Store!Removed("staged")
         /\ jug' = [jug EXCEPT ![j].step = "idle", ![j].says = "kept"]
      \/ /\ jug[j].older /\ disk' = Store!Removed("staged")
         /\ jug' = [jug EXCEPT ![j].step = "idle", ![j].says = "in .BAK"]
  <2>1. CASE jug[j].older
    <3>1. Store!CanRename("backup", "path")
      BY <1>2, <2>1 DEF Store!CanRename
    <3> QED
      BY <2>1, <3>1 DEF Store!Restore, Store!Ends, Store!Says, Store!Removed
  <2>2. CASE ~jug[j].older
    BY <2>2 DEF Store!Restore, Store!Ends, Store!Says, Store!Removed
  <2> QED
    BY <2>1, <2>2
<1>5. CASE /\ jug[j].older /\ disk' = [Store!Renamed("backup", "path") EXCEPT !["staged"] = Store!None]
           /\ jug' = [jug EXCEPT ![j].step = "idle", ![j].says = "kept"]
  <2>1. /\ jug' \in [Jugs -> JugInstance] /\ jug'[j].step = "idle" /\ jug'[j].says = "kept"
        /\ jug'[j].was = jug[j].was /\ jug'[j].hurt = jug[j].hurt
    BY <1>1, <1>5, StepAndWord DEF JugSteps, JugWords
  <2>2. /\ disk' \in [JugFiles -> Store!Contents \cup {Store!None}] /\ disk'["path"] = disk["backup"]
        /\ disk'["backup"] = Store!None
    BY <1>1, <1>5 DEF JugTypes, Store!Renamed, JugFiles
  <2>3. JugTypes'
    BY SMTT(60), <1>1, <2>1, <2>2 DEF JugTypes
  <2>4. Store!Whole(disk["backup"]) /\ disk["backup"] = jug[j].was
    BY <1>2, <1>3, <1>5
  <2>5. (Store!RunsWhatWasChecked /\ BackupWhole /\ Store!NeverLost)'
    BY <2>2, <2>4 DEF Store!RunsWhatWasChecked, BackupWhole, Store!NeverLost, Store!Exists, Store!Whole, Store!Build
  <2>6. Store!ToldTheTruth'
    BY <2>1, <2>2, <2>4 DEF Store!ToldTheTruth
  <2>7. Store!LeftoversHarmless'
    BY <1>2, <2>1, Zenon DEF Store!LeftoversHarmless
  <2>8. (Written(j) /\ Ready(j) /\ Between(j) /\ Placed(j))'
    BY <2>1 DEF Written, Ready, Between, Placed
  <2> QED
    BY <2>3, <2>5, <2>6, <2>7, <2>8 DEF JugInv
<1>6. ASSUME disk' = Store!Removed("staged"), NEW w \in {"kept", "in .BAK"}, w = "kept" <=> ~jug[j].older,
             jug' = [jug EXCEPT ![j].step = "idle", ![j].says = w]
      PROVE  JugInv'
  <2>1. /\ jug' \in [Jugs -> JugInstance] /\ jug'[j].step = "idle" /\ jug'[j].says = w
        /\ jug'[j].was = jug[j].was /\ jug'[j].hurt = jug[j].hurt
    BY ZenonT(60), <1>1, <1>6, StepAndWord DEF JugSteps, JugWords
  <2>2. /\ disk' \in [JugFiles -> Store!Contents \cup {Store!None}] /\ disk'["path"] = disk["path"]
        /\ disk'["backup"] = disk["backup"]
    BY <1>1, <1>6 DEF JugTypes, Store!Removed, JugFiles
  <2>3. JugTypes'
    BY <1>1, <2>1, <2>2 DEF JugTypes
  <2>4. (Store!RunsWhatWasChecked /\ BackupWhole /\ Store!NeverLost)'
    BY <1>1, <2>2 DEF JugInv, Store!RunsWhatWasChecked, BackupWhole, Store!NeverLost, Store!Exists
  <2>5. Store!ToldTheTruth'
    <3>1. CASE w = "kept"
      <4>1. jug[j].was = disk["path"]
        BY <1>2, <1>6, <3>1 DEF Store!Exists
      <4> QED
        BY <2>1, <2>2, <3>1, <4>1 DEF Store!ToldTheTruth
    <3>2. CASE w = "in .BAK"
      <4>1. disk["backup"] = jug[j].was /\ Store!Whole(jug[j].was)
        BY <1>2, <1>3, <1>6, <3>2
      <4> QED
        BY <2>1, <2>2, <3>2, <4>1 DEF Store!ToldTheTruth, Store!Whole, Store!Build
    <3> QED
      BY <3>1, <3>2
  <2>6. Store!LeftoversHarmless'
    BY <1>2, <2>1, Zenon DEF Store!LeftoversHarmless
  <2>7. (Written(j) /\ Ready(j) /\ Between(j) /\ Placed(j))'
    BY <2>1 DEF Written, Ready, Between, Placed
  <2> QED
    BY ZenonT(60), <2>3, <2>4, <2>5, <2>6, <2>7 DEF JugInv
<1> QED
  BY <1>4, <1>5, <1>6

\* The backup goes only with the new copy in place.
LEMMA TidyJugInv == ASSUME NEW j, Alone(j), JugInv, Store!Tidy(j) PROVE JugInv'
<1> USE DEF Alone
<1>1. JugTypes /\ j \in Jugs /\ jug[j] \in JugInstance /\ jug[j].step = "tidy" /\ UNCHANGED <<reg, have>> /\ faults' \in Nat
  BY DEF JugInv, Store!Tidy, Store!Fault, JugTypes
<1>2. Store!Exists("path") /\ Store!Whole(disk["path"]) /\ jug[j].v \in JugVersion
  BY <1>1 DEF JugInv, Placed, Store!RunsWhatWasChecked, JugVersion
<1>3. /\ disk' \in [JugFiles -> Store!Contents \cup {Store!None}] /\ disk'["path"] = disk["path"]
      /\ disk'["backup"] \in {Store!None, disk["backup"]}
  BY <1>1 DEF JugTypes, Store!Tidy, Store!Removed, JugFiles
<1>4. jug' = [jug EXCEPT ![j].step = "erase", ![j].mem = jug[j].v, ![j].says = "installed"]
  BY DEF Store!Tidy
<1>5. jug' \in [Jugs -> JugInstance] /\ jug'[j].step = "erase" /\ jug'[j].says = "installed"
  <2>1. "erase" \in JugSteps /\ "installed" \in JugWords
    BY DEF JugSteps, JugWords
  <2> DEFINE r == [jug[j] EXCEPT !.step = "erase", !.mem = jug[j].v, !.says = "installed"]
  <2>2. jug' = [jug EXCEPT ![j] = r]
    BY <1>1, <1>4 DEF JugTypes
  <2>3. r \in JugInstance /\ r.step = "erase" /\ r.says = "installed"
    BY <1>1, <1>2, <2>1 DEF JugInstance
  <2> HIDE DEF r
  <2> QED
    BY <1>1, <2>2, <2>3 DEF JugTypes
<1>6. JugTypes'
  BY <1>1, <1>3, <1>5 DEF JugTypes
<1>7. (Store!RunsWhatWasChecked /\ BackupWhole /\ Store!NeverLost)'
  BY <1>2, <1>3 DEF JugInv, Store!RunsWhatWasChecked, BackupWhole, Store!NeverLost, Store!Exists, Store!Whole, Store!Build
<1>8. Store!ToldTheTruth' /\ Store!LeftoversHarmless'
  BY <1>5 DEF Store!ToldTheTruth, Store!LeftoversHarmless
<1>9. (Written(j) /\ Ready(j) /\ Between(j) /\ Placed(j))'
  BY <1>5 DEF Written, Ready, Between, Placed
<1> QED
  BY <1>6, <1>7, <1>8, <1>9 DEF JugInv

LEMMA UninstallJugInv == ASSUME NEW j, Alone(j), JugInv, Store!Uninstall(j) PROVE JugInv'
<1> USE DEF Alone
<1>1. JugTypes /\ j \in Jugs /\ UNCHANGED <<reg, faults>> /\ have' = FALSE
  BY DEF JugInv, Store!Uninstall
<1>2. /\ disk' \in [JugFiles -> Store!Contents \cup {Store!None}] /\ disk'["path"] = Store!None
      /\ disk'["backup"] = disk["backup"]
  BY <1>1 DEF JugTypes, Store!Uninstall, Store!Removed, JugFiles
<1>3. jug' = [jug EXCEPT ![j].step = "erase", ![j].mem = 0, ![j].says = "removed"]
  BY DEF Store!Uninstall
<1>4. jug' \in [Jugs -> JugInstance] /\ jug'[j].step = "erase" /\ jug'[j].says = "removed"
  <2>1. 0 \in JugVersion /\ "erase" \in JugSteps /\ "removed" \in JugWords
    BY DEF JugVersion, JugSteps, JugWords
  <2> DEFINE r == [jug[j] EXCEPT !.step = "erase", !.mem = 0, !.says = "removed"]
  <2>2. jug[j] \in JugInstance /\ jug' = [jug EXCEPT ![j] = r]
    BY <1>1, <1>3 DEF JugTypes
  <2>3. r \in JugInstance /\ r.step = "erase" /\ r.says = "removed"
    BY <2>1, <2>2 DEF JugInstance
  <2> HIDE DEF r
  <2> QED
    BY <1>1, <2>2, <2>3 DEF JugTypes
<1>5. JugTypes'
  BY <1>1, <1>2, <1>4 DEF JugTypes
<1>6. (Store!RunsWhatWasChecked /\ BackupWhole /\ Store!NeverLost)'
  BY <1>1, <1>2 DEF JugInv, Store!RunsWhatWasChecked, BackupWhole, Store!NeverLost, Store!Exists, Store!Whole, Store!Build
<1>7. Store!ToldTheTruth' /\ Store!LeftoversHarmless'
  BY <1>4 DEF Store!ToldTheTruth, Store!LeftoversHarmless
<1>8. (Written(j) /\ Ready(j) /\ Between(j) /\ Placed(j))'
  BY <1>4 DEF Written, Ready, Between, Placed
<1> QED
  BY <1>5, <1>6, <1>7, <1>8 DEF JugInv

LEMMA StutterJugInv == ASSUME JugInv, UNCHANGED Store!vars PROVE JugInv'
<1>1. disk' = disk /\ reg' = reg /\ jug' = jug /\ faults' = faults /\ have' = have
  BY DEF Store!vars
<1>2. JugTypes'
  BY <1>1 DEF JugInv, JugTypes
<1>3. (Store!RunsWhatWasChecked /\ BackupWhole /\ Store!NeverLost)'
  BY <1>1 DEF JugInv, Store!RunsWhatWasChecked, BackupWhole, Store!NeverLost, Store!Exists
<1>4. (Store!ToldTheTruth /\ Store!LeftoversHarmless)'
  BY <1>1 DEF JugInv, Store!ToldTheTruth, Store!LeftoversHarmless
<1>5. ASSUME NEW j \in Jugs PROVE (Written(j) /\ Ready(j) /\ Between(j) /\ Placed(j))'
  <2>1. Written(j) /\ Ready(j) /\ Between(j) /\ Placed(j)
    BY DEF JugInv
  <2> QED
    BY <1>1, <2>1, Zenon DEF Written, Ready, Between, Placed, Untouched, Store!Exists
<1> QED
  BY <1>2, <1>3, <1>4, <1>5 DEF JugInv

LEMMA StepJugInv == ASSUME NEW j, StoreSizes, Jugs = {j}, JugInv, [Store!Next]_Store!vars PROVE JugInv'
<1>1. Alone(j)
  BY DEF Alone
<1>2. ASSUME Store!Step(j) PROVE JugInv'
  <2>1. CASE Store!WriteFails(j)
    <3>1. faults' \in Nat
      BY <2>1 DEF Store!WriteFails, Store!Fault, JugInv, JugTypes
    <3> QED
      BY <1>1, <2>1, <3>1, StopsJugInv DEF Store!WriteFails
  <2>2. CASE Store!KeepFails(j)
    <3>1. faults' \in Nat
      BY <2>2 DEF Store!KeepFails, Store!Fault, JugInv, JugTypes
    <3> QED
      BY <1>1, <2>2, <3>1, StopsJugInv DEF Store!KeepFails
  <2> QED
    BY <1>1, <1>2, <2>1, <2>2, WriteJugInv, VerifyJugInv, ClearJugInv, KeepJugInv, PublishJugInv,
       PublishFailsJugInv, RestoreJugInv, TidyJugInv, OutsideJugInv DEF Store!Step
<1>3. CASE Store!Next
  BY <1>1, <1>2, <1>3, BeginJugInv, OutsideJugInv, UninstallJugInv DEF Store!Next
<1> QED
  BY <1>3, StutterJugInv

-----------------------------------------------------------------------------
(* What MCNetwork checks, for constants of any value.                        *)

\* A behaviour of MCNetwork is one of the component `part` names.
LEMMA PartStays ==
  ASSUME [Next]_vars
  PROVE  /\ part' = part
         /\ part = "frames" => [Frames!Next]_Frames!vars
         /\ part = "pool" => [Pool!Next]_Pool!vars
         /\ part = "page" => [Page!Next]_Page!vars
         /\ part = "dns" => [Dns!Next]_Dns!vars
         /\ part = "conns" => [Conns!Next]_Conns!vars
         /\ part = "mux" => [Mux!Next]_Mux!vars
         /\ part = "lease" => [Dhcp!Next]_Dhcp!vars
         /\ part = "restart" => [Again!Next]_Again!vars
         /\ part = "cache" => [Cache!Next]_Cache!vars
         /\ part = "store" => [Store!Next]_Store!vars
         /\ part = "window" => [Window!Next]_Window!vars
         /\ part = "mdns" => [Mdns!Next]_Mdns!vars
<1>1. CASE Next
  BY <1>1 DEF Next, Rest
<1>2. CASE UNCHANGED vars
  BY <1>2 DEF vars, frames_vars, pool_vars, page_vars, dns_vars, conns_vars, mux_vars, dhcp_vars, cache_vars,
     store_vars, window_vars, mdns_vars, Frames!vars, Frames!senderVars, Frames!receiverVars, Pool!vars, Page!vars,
     Dns!vars, Conns!vars, Mux!vars, Dhcp!vars, Dhcp!client, Again!vars, Again!client, Cache!vars, Store!vars,
     Window!vars, Mdns!vars, Mdns!machine, Mdns!responder, Mdns!browser
<1> QED
  BY <1>1, <1>2

\* web/net_r2.cpp, a connection: the server gets what send() accepted, in order and
\* with its end last; the loader reads the server's bytes in order and is told their
\* end when it has them all; and a loader that has read everything leaves the server a
\* window it can send into.  For any sizes of request, reply, buffers and segments with
\* a window that fits the ring, whatever is lost, late or repeated.
THEOREM PagesAreIntact == ASSUME PageSizes PROVE Spec => []PageIntact
<1> DEFINE I == part = "page" => PageInv
<1>1. Init => I
  BY PageInitially DEF Init
<1>2. I /\ [Next]_vars => I'
  BY PartStays, PageStep
<1>3. I => PageIntact
  BY PageHolds DEF PageIntact
<1> QED
  BY <1>1, <1>2, <1>3, PTL DEF Spec

\* web/net_r2.cpp, onTcp(): a byte leaves the send buffer, and the FIN counts as
\* acknowledged, only when the server has it, so nothing is left to be asked for again.
THEOREM SentIsKept == ASSUME PageSizes PROVE Spec => [](part = "page" => NothingForgotten)
<1> DEFINE I == part = "page" => PageInv
<1>1. Init => I
  BY PageInitially DEF Init
<1>2. I /\ [Next]_vars => I'
  BY PartStays, PageStep
<1>3. I => (part = "page" => NothingForgotten)
  BY DEF PageInv
<1> QED
  BY <1>1, <1>2, <1>3, PTL DEF Spec

\* resolve() never gives a loader the address of another name than it asked for, and the
\* browser's connections and the kernel's port entries are where they belong.
THEOREM LoadersAreServed == ASSUME CacheSize \in Nat \ {0}, ConnSizes PROVE Spec => []LoadersServed
<1> DEFINE I == (part = "dns" => DnsInv) /\ (part = "conns" => ConnInv)
<1>1. Init => I
  BY DnsInit, ConnInitially DEF Init
<1>2. I /\ [Next]_vars => I'
  BY PartStays, DnsStep, ConnStep
<1>3. I => LoadersServed
  BY DEF DnsInv, ConnInv, Sound, LoadersServed, Conns!PortsDiffer, Conns!NoLeak, Conns!conns
<1> QED
  BY <1>1, <1>2, <1>3, PTL DEF Spec

\* Frames that rntp sends over libcr2 arrive as they are.
THEOREM FramesAreIntact == ASSUME Frames!Sizes PROVE Spec => []FramesIntact
<1> DEFINE I == part = "frames" => Frames!StreamInv
<1>1. Init => I
  BY Frames!StreamInit DEF Init
<1>2. I /\ [Next]_vars => I'
  BY PartStays, Frames!StreamNext
<1>3. I => FramesIntact
  BY Frames!Ends DEF FramesIntact
<1> QED
  BY <1>1, <1>2, <1>3, PTL DEF Spec

\* on_tcp_packet() and alloc_socket(): a tuple has one owner, which acknowledges what it has.
THEOREM PoolIsSound == ASSUME PoolSizes PROVE Spec => []PoolSound
<1> DEFINE I == part = "pool" => SocketInv
<1>1. Init => I
  BY SocketInit DEF Init
<1>2. I /\ [Next]_vars => I'
  BY PartStays, SocketStep
<1>3. I => PoolSound
  BY DEF SocketInv, PoolSound
<1> QED
  BY <1>1, <1>2, <1>3, PTL DEF Spec

\* dhcp_poll(), dhcp_on_ack() and publish_config(): everyone is told the address in use, and
\* a leased one is used no longer than its server keeps it.  browse_list(): a listed
\* service was served less than the life of an SRV record ago, and while no frame is lost,
\* it is off the list as soon as its goodbye is there.  For any servers, names and lives
\* of leases and records.
THEOREM WhatIsToldIsTrue ==
  ASSUME Lease \in Nat \ {0, 1}, Delay \in Nat, MdnsSizes PROVE Spec => []AnnouncedTrue
<1> DEFINE I == /\ part = "lease" => Dhcp!Told /\ Dhcp!LeaseInv
                /\ part = "restart" => Again!Told
                /\ part = "mdns" => MdnsInv
<1>1. Dhcp!KeptLeases
  BY DEF Dhcp!KeptLeases
<1>2. Init => I
  BY <1>1, Dhcp!InitTells, Dhcp!InitHeld, Again!InitTells, MdnsInit DEF Init
<1>3. I /\ [Next]_vars => I'
  BY <1>1, PartStays, Dhcp!StepTells, Dhcp!StepHeld, Again!StepTells, MdnsStep
<1>4. I => AnnouncedTrue
  BY ListIsTrue DEF AnnouncedTrue, Dhcp!Told, Dhcp!LeaseInv, Again!Told
<1> QED
  BY <1>1, <1>2, <1>3, <1>4, PTL DEF Spec

\* A lookup of rntp_client_read() finds what cache_put() was last given for the sector.
THEOREM CacheIsNewest == ASSUME Cache!Shape PROVE Spec => []LookupNewest
<1> DEFINE I == part = "cache" => Cache!IInv
<1>1. Init => I
  BY Cache!InitIInv DEF Init
<1>2. I /\ [Next]_vars => I'
  BY PartStays, Cache!StepIInv
<1>3. I => LookupNewest
  BY DEF LookupNewest, Cache!IInv
<1> QED
  BY <1>1, <1>2, <1>3, PTL DEF Spec

\* install() of a jug that has the disk to itself is safe, with any failures and kills.
THEOREM InstallIsSafe == ASSUME NEW j, Jugs = {j}, StoreSizes PROVE Spec => []InstallSafe
<1> DEFINE I == part = "store" => JugInv
<1>1. Init => I
  BY InitJugInv DEF Init
<1>2. I /\ [Next]_vars => I'
  BY PartStays, StepJugInv
<1>3. I => InstallSafe
  BY DEF InstallSafe, JugInv, Store!InstallSafe
<1> QED
  BY <1>1, <1>2, <1>3, PTL DEF Spec

\* yieldCheck(), nextInQueue() and finishJob(): what is queued is worked on, only a build of
\* the list is installed, and a user's job ends by itself or by Escape.  For any programs
\* and builds.
THEOREM JobsAreKept == ASSUME Programs \subseteq Nat PROVE Spec => JobsStand
<1> DEFINE I == part = "window" => WindowInv
           A == part = "window" => Window!QueueIsWorkedOn /\ Window!InstallsTheListed /\ Window!UsersJobStands
<1>1. Init => I
  BY WindowInit DEF Init
<1>2. I /\ [Next]_vars => I'
  BY PartStays, WindowStep
<1>3. I /\ [Next]_vars => [A]_vars
  <2>1. ASSUME I, Next PROVE A
    BY <2>1, OnlyListed, JobStands DEF Next, WindowInv
  <2> QED
    BY <2>1
<1> QED
  BY <1>1, <1>2, <1>3, PTL DEF Spec, JobsStand

\* netmux_pull(): each stack is given its own frames, in the order they came in and none
\* of them twice, whoever took them from the kernel; an ARP frame waits for every other
\* stack that listens and has room.  For rings of any size and any bound on a call.
THEOREM FramesAreShared == ASSUME MuxSizes PROVE Spec => FramesShared
<1> DEFINE I == part = "mux" => MuxInv
           A == part = "mux" => Mux!RightStack /\ Mux!GivenInOrder /\ Mux!ArpReachesAll
<1>1. Init => I
  BY MuxInitially DEF Init
<1>2. I /\ [Next]_vars => I'
  BY PartStays, MuxStep
<1>3. I /\ [Next]_vars => [A]_vars
  <2>1. ASSUME I, Next PROVE A
    <3>1. part = "mux" => Mux!RightStack
      BY <2>1 DEF MuxInv, GotRight, Mux!RightStack
    <3> QED
      BY <2>1, <3>1, MuxOrder, MuxArp DEF Next
  <2> QED
    BY <2>1
<1> QED
  BY <1>1, <1>2, <1>3, PTL DEF Spec, FramesShared

\* What no step does: alloc_socket() evicts no live connection and a FIN no unread request,
\* dnsStep() replaces no query under way, cache_put() evicts only the sector unused longest,
\* and browse_query() lets no record run out of a service that answers.
THEOREM StepsAreSound ==
  ASSUME PoolSizes, CacheSize \in Nat \ {0}, Cache!Shape, MdnsSizes PROVE Spec => StepsSound
<1> DEFINE I == /\ part = "pool" => SocketInv
                /\ part = "dns" => DnsInv
                /\ part = "cache" => Cache!IInv
                /\ part = "mdns" => MdnsInv
           A == /\ part = "pool" => Pool!LiveNotEvicted /\ Pool!UnreadKept
                /\ part = "dns" => Dns!QueryStands
                /\ part = "cache" => Cache!RecentStays
                /\ part = "mdns" => Mdns!KeptAlive
<1>1. Init => I
  BY SocketInit, DnsInit, Cache!InitIInv, MdnsInit DEF Init
<1>2. I /\ [Next]_vars => I'
  BY PartStays, SocketStep, DnsStep, Cache!StepIInv, MdnsStep
<1>3. I /\ [Next]_vars => [A]_vars
  <2>1. ASSUME I, Next PROVE A
    BY <2>1, SocketsKept, QueryStays, Cache!StepKeepsRecent, ListIsKept DEF Next
  <2> QED
    BY <2>1
<1> QED
  BY <1>1, <1>2, <1>3, PTL DEF Spec, StepsSound
=============================================================================

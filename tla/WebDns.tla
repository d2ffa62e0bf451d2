------------------------------- MODULE WebDns -------------------------------
(***************************************************************************)
(* The resolver of cpp/memento-hello/web/net_r2.cpp: resolve(), dnsStep(),  *)
(* dnsParse() and the cache, shared by the loaders of a page.  The window's *)
(* idle loop runs poll(), with dnsStep() in it, and every loader once a     *)
(* round.                                                                   *)
(***************************************************************************)
EXTENDS Integers, Sequences

CONSTANTS Loaders,     \* those that resolve, in the order the idle loop runs them
          Hosts,       \* the names they look up
          CacheSize    \* entries of cache_

NoHost == "none"
Round == <<"poll">> \o Loaders
LoaderSet == {Loaders[i] : i \in DOMAIN Loaders}

VARIABLES dns,      \* phase and host of the query, and what came of it
          cache,    \* host, ip, and whether the entry is still fresh
          next,     \* cacheNext_
          want,     \* per loader: the host it waits for
          misled,   \* history: resolve() has given the address of another name
          turn,     \* the idle loop's position in Round
          wire      \* answers the servers may still send: to this query (its id) or an earlier one

vars == <<dns, cache, next, want, misled, turn, wire>>

Failed == "error"
Empty == [host |-> NoHost, ip |-> NoHost, fresh |-> FALSE]

Init == /\ dns = [phase |-> "IDLE", host |-> NoHost, answer |-> NoHost]
        /\ cache = [i \in 0 .. CacheSize - 1 |-> Empty] /\ next = 0
        /\ want = [l \in LoaderSet |-> NoHost] /\ misled = FALSE
        /\ turn = 1 /\ wire = {}

Turn(who) == Round[turn] = who
Passes == turn' = (turn % Len(Round)) + 1

Waiting == {want[l] : l \in LoaderSet} \ {NoHost}

-----------------------------------------------------------------------------
(* resolve().                                                               *)

\* An answer that has come is published whoever asks, a failure too.
Published ==
    IF dns.phase # "DONE" THEN cache
    ELSE [cache EXCEPT ![next] = [host |-> dns.host, ip |-> dns.answer, fresh |-> TRUE]]

SlotAfter == (next + 1) % CacheSize

\* One query at a time.
MayStart(phase) == phase = "IDLE"

Resolve(l) ==
    /\ Turn(l) /\ Passes /\ want[l] # NoHost
    /\ LET phase == IF dns.phase = "DONE" THEN "IDLE" ELSE dns.phase
           hits  == {i \in DOMAIN cache : Published[i].fresh /\ Published[i].host = want[l]}
       IN  /\ cache' = Published
           /\ next' = IF dns.phase = "DONE" THEN SlotAfter ELSE next
           /\ IF hits # {}
              THEN /\ \E i \in hits : misled' = (misled \/ Published[i].ip \notin {want[l], Failed})
                   /\ want' = [want EXCEPT ![l] = NoHost]
                   /\ dns' = [dns EXCEPT !.phase = phase]
                   /\ UNCHANGED wire
              ELSE /\ UNCHANGED <<want, misled>>
                   /\ \/ /\ MayStart(phase)
                         /\ dns' = [phase |-> "UDP1", host |-> want[l], answer |-> NoHost]
                         /\ wire' = {[m EXCEPT !.id = "old"] : m \in wire} \cup {[id |-> "this", host |-> want[l]]}
                      \/ ~MayStart(phase) /\ dns' = [dns EXCEPT !.phase = phase] /\ UNCHANGED wire

\* A loader starts with a name, gives one up, or has nothing to do.
Begin(l, h) ==
    /\ Turn(l) /\ Passes /\ want[l] = NoHost
    /\ want' = [want EXCEPT ![l] = h]
    /\ UNCHANGED <<dns, cache, next, misled, wire>>

Cancel(l) ==
    /\ Turn(l) /\ Passes /\ want[l] # NoHost
    /\ want' = [want EXCEPT ![l] = NoHost]
    /\ UNCHANGED <<dns, cache, next, misled, wire>>

Rests(l) == Turn(l) /\ Passes /\ want[l] = NoHost /\ UNCHANGED <<dns, cache, next, want, misled, wire>>

-----------------------------------------------------------------------------
(* poll().                                                                  *)

\* Faulty variant: any answer is taken for the query's.
IsAnswerAny(m) == TRUE

\* dnsParse(): the transaction is this one.
IsAnswer(m) == m.id = "this"

Done(answer) == dns' = [dns EXCEPT !.phase = "DONE", !.answer = answer]

\* onUdp(), or what the DNS connection has received: an address, or the server's
\* word that there is none.
Answer(m) ==
    /\ Turn("poll") /\ Passes
    /\ dns.phase \in {"UDP1", "UDP2", "TCP"} /\ m \in wire
    /\ IF IsAnswer(m) THEN \E a \in {m.host, Failed} : Done(a) ELSE UNCHANGED dns
    /\ wire' = wire \ {m}
    /\ UNCHANGED <<cache, next, want, misled>>

\* Faulty variant: an ARP retry puts the deadline off.
DeadlineSlips == FALSE

\* The phase has lasted as long as it may, whatever has been sent.
Deadline == TRUE

\* dnsStep(): to the second server, to TCP, and to the end.
TimesOut ==
    /\ Turn("poll") /\ Passes /\ Deadline
    /\ \/ dns.phase = "UDP1" /\ dns' = [dns EXCEPT !.phase = "UDP2"]
       \/ dns.phase = "UDP2" /\ dns' = [dns EXCEPT !.phase = "TCP"]
       \/ dns.phase \in {"UDP2", "TCP"} /\ Done(Failed)
    /\ UNCHANGED <<cache, next, want, misled, wire>>

\* Nothing has come yet, and the phase may go on.
Poll == Turn("poll") /\ Passes /\ UNCHANGED <<dns, cache, next, want, misled, wire>>

\* An entry gets old; it is fresh for longer than a round takes.
Ages(i) ==
    /\ cache[i].fresh /\ cache[i].host \notin Waiting
    /\ cache' = [cache EXCEPT ![i].fresh = FALSE]
    /\ UNCHANGED <<dns, next, want, misled, turn, wire>>

Next == \/ \E l \in LoaderSet : Resolve(l) \/ Cancel(l) \/ Rests(l) \/ \E h \in Hosts : Begin(l, h)
        \/ \E m \in wire : Answer(m)
        \/ TimesOut \/ Poll
        \/ \E i \in DOMAIN cache : Ages(i)

Spec == Init /\ [][Next]_vars

-----------------------------------------------------------------------------
\* A loader is told the address of the name it asked for, however late answers
\* come and whoever started the query.
RightAddress == ~misled

\* "One wire query at a time": the query under way is never replaced.
QueryStands == dns'.host # dns.host => dns.phase \in {"IDLE", "DONE"}
=============================================================================

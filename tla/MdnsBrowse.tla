----------------------------- MODULE MdnsBrowse -----------------------------
(***************************************************************************)
(* c/mdnsd: one machine answers for its name and its servers (mdns.c and    *)
(* main.c), another keeps a cache of what it heard and asks again before it *)
(* runs out (browse.c).  Frames may be lost.                                *)
(*                                                                         *)
(* A tick is the second after which both look again.  The instance of a     *)
(* server is named after the machine: <<server, name>>.                     *)
(***************************************************************************)
EXTENDS Integers, Sequences, SequencesExt, FiniteSets

CONSTANTS Servers, Names, Addrs,        \* Names = 1 .. n, Addrs has no 0
          PtrTtl, HostTtl,              \* MDNS_TTL_OTHER, MDNS_TTL_HOST, in ticks
          Refreshes, Asks,              \* REFRESHES, ASKS
          MaxChanges                    \* bound: what happens to the machine

VARIABLES running, name, addr,      \* of the machine: its port table, sysinfo, the address
          host, ip, known, left,    \* as mdnsd has it: mdns.host, ip, services, announce_left
          net,                      \* frames on the way to the other
          cache, hosts,             \* the other's: services and hosts
          since,                    \* history: ticks since the instance was served
          lost,                     \* history: a frame was lost, or the machine its address
          changes

machine == <<running, name, addr, changes>>
responder == <<host, ip, known, left>>
browser == <<cache, hosts>>
vars == <<machine, responder, net, browser, since, lost>>

Insts == Servers \X Names
\* ptr, srv: ticks to expiry (0: no record); bye: said goodbye; done: refreshes asked
NoService == [ptr |-> 0, ptrBye |-> FALSE, ptrDone |-> 0, srv |-> 0, srvBye |-> FALSE, srvDone |-> 0, asks |-> 0]
NoHost == [ip |-> 0, left |-> 0]
Long == PtrTtl + HostTtl + 2        \* history is not told apart beyond this

Init == /\ running = {} /\ name = 1 /\ addr = 0 /\ changes = 0
        /\ host = 1 /\ ip = 0 /\ known = {} /\ left = 0 /\ net = <<>>
        /\ cache = [i \in Insts |-> NoService] /\ hosts = [n \in Names |-> NoHost]
        /\ since = [i \in Insts |-> Long] /\ lost = FALSE

-----------------------------------------------------------------------------
(* Answers: the records of a frame.                                         *)

Frame(kind, i, n, a) == [kind |-> kind, inst |-> i, host |-> n, ip |-> a]
NoInst == CHOOSE i \in Insts : TRUE

\* mdns_announce(): a service with its host, the host alone, or a goodbye.
AnnounceService(i, n, a) == Frame("service", i, n, a)
AnnounceHost(n, a) == Frame("host", NoInst, n, a)
Goodbye(i, n, a) == Frame("bye", i, n, a)

\* match(): what is asked for, and the records a client asks for next.
AnswersType == {AnnounceService(i, host, ip) : i \in known}

AnswersSrv(i) == {AnnounceService(i, host, ip) : j \in known \cap {i}}
AnswersA(n) == {AnnounceHost(host, ip) : m \in {host} \cap {n}}

\* mdns_handle(): without an address nothing is answered.
Handle(type, srvs, as) ==
    IF ip = 0 THEN {}
    ELSE (IF type THEN AnswersType ELSE {}) \cup (UNION {AnswersSrv(i) : i \in srvs})
         \cup (UNION {AnswersA(n) : n \in as})

-----------------------------------------------------------------------------
(* Keeping up with the machine: refresh(), once a second.                   *)

\* scan_services(): the known servers that listen, named after the machine.
Scan(n) == {<<s, n>> : s \in running}

\* follow_rename(), refresh(): what is no longer served is withdrawn, as it was named.
Withdrawn(old, new) == old \ new

\* A renamed machine says it from the address it had, a stopped server from the new one.
Byes == IF (name # host /\ ip = 0) \/ (name = host /\ addr = 0) THEN <<>>
        ELSE SetToSeq({Goodbye(i, host, ip) : i \in Withdrawn(known, Scan(name))})

\* A rename forgets the services, to find them anew.
Changed == \/ name # host /\ ip # 0
           \/ Scan(name) # (IF name # host THEN {} ELSE known)
           \/ addr # ip /\ addr # 0

\* schedule_announcements(), announce(): twice, a second apart.
LeftNow == IF Changed THEN 2 ELSE left
Announced == IF LeftNow = 0 \/ addr = 0 THEN <<>>
             ELSE <<AnnounceHost(name, addr)>> \o SetToSeq({AnnounceService(i, name, addr) : i \in Scan(name)})

Refresh == /\ host' = name /\ ip' = addr /\ known' = Scan(name)
           /\ left' = IF LeftNow = 0 THEN 0 ELSE LeftNow - 1
           /\ net' = Byes \o Announced

-----------------------------------------------------------------------------
(* The cache.                                                               *)

\* on_ptr(): a PTR makes a service; a goodbye leaves it one more second.
OnPtr(s, bye) == IF bye /\ s.ptr = 0 THEN s
                 ELSE [s EXCEPT !.ptr = IF bye THEN 1 ELSE PtrTtl, !.ptrBye = bye,
                                !.ptrDone = IF bye THEN Refreshes ELSE 0]

\* on_srv(): only for a service a PTR made.
OnSrv(s, bye) == IF s.ptr = 0 THEN s
                 ELSE [s EXCEPT !.srv = IF bye THEN 1 ELSE HostTtl, !.srvBye = bye,
                                !.srvDone = IF bye THEN Refreshes ELSE 0, !.asks = 0]

IsTarget(c, n) == \E s \in Servers : c[<<s, n>>].srv > 0

\* on_a(): for the targets of SRV records only.
OnA(hs, c, n, a) == IF IsTarget(c, n) THEN [hs EXCEPT ![n] = [ip |-> a, left |-> HostTtl]] ELSE hs

\* browse_input(): PTRs, then SRVs, then addresses.
Input == /\ net # <<>>
         /\ LET f == Head(net)
                c == IF f.kind = "host" THEN cache
                     ELSE [cache EXCEPT ![f.inst] = OnSrv(OnPtr(@, f.kind = "bye"), f.kind = "bye")]
            IN /\ cache' = c
               /\ hosts' = IF f.kind = "bye" THEN hosts ELSE OnA(hosts, c, f.host, f.ip)
         /\ net' = Tail(net)
         /\ UNCHANGED <<machine, responder, since, lost>>

Lose == net # <<>> /\ net' = Tail(net) /\ lost' = TRUE /\ UNCHANGED <<machine, responder, browser, since>>

\* Faulty variant: an SRV is kept as long as its PTR.
SrvAfterKept(s) == s

\* An SRV runs out: it may be asked for again.
SrvAfter(s) == IF s.srv = 0 THEN s
               ELSE [s EXCEPT !.srv = @ - 1, !.asks = IF s.srv = 1 THEN 0 ELSE @]

HostAfter(h) == IF h.left <= 1 THEN NoHost ELSE [h EXCEPT !.left = @ - 1]

\* browse_expire().
Expire == /\ cache' = [i \in Insts |-> IF cache[i].ptr <= 1 THEN NoService
                                       ELSE SrvAfter([cache[i] EXCEPT !.ptr = @ - 1])]
          /\ hosts' = [n \in Names |-> HostAfter(hosts[n])]

-----------------------------------------------------------------------------
(* Asking.                                                                  *)

\* Faulty variant: a record that runs out is not asked for in time.
RefreshDueNever(ticks, done) == FALSE

\* refresh_due(): asked again in the last part of a record's life, so many times.
RefreshDue(ticks, done) == ticks > 0 /\ done < Refreshes /\ ticks <= Refreshes - done

ServiceDue(s) == s.ptr > 0 /\ (RefreshDue(s.ptr, s.ptrDone) \/ RefreshDue(s.srv, s.srvDone))
MayAsk(s) == s.ptr > 0 /\ ~s.ptrBye /\ s.asks < Asks
WantsSrv == {i \in Insts : MayAsk(cache[i]) /\ cache[i].srv = 0}
WantsA == {i \in Insts : MayAsk(cache[i]) /\ cache[i].srv > 0 /\ hosts[i[2]] = NoHost}

Asked(type, i) == LET s == cache[i]
                      t == IF ~type \/ s.ptr = 0 THEN s
                           ELSE [s EXCEPT !.ptrDone = IF RefreshDue(s.ptr, @) THEN @ + 1 ELSE @,
                                          !.srvDone = IF RefreshDue(s.srv, @) THEN @ + 1 ELSE @]
                  IN [t EXCEPT !.asks = IF i \in WantsSrv \cup WantsA THEN @ + 1 ELSE @]

\* browse_query(): the type at its intervals or for a refresh, missing SRVs and addresses.
Query(interval) ==
    LET type == interval \/ \E i \in Insts : ServiceDue(cache[i])
    IN /\ net = <<>> /\ (type \/ WantsSrv \cup WantsA # {})
       /\ net' = SetToSeq(Handle(type, WantsSrv, {i[2] : i \in WantsA}))
       /\ cache' = [i \in Insts |-> Asked(type, i)]
       /\ UNCHANGED <<machine, responder, hosts, since, lost>>

-----------------------------------------------------------------------------
Older(n) == IF n < Long THEN n + 1 ELSE Long

\* A second: frames are there by then, or lost, and what is due has been asked.
Tick == /\ net = <<>> /\ ~(\E i \in Insts : ServiceDue(cache[i])) /\ Refresh /\ Expire
        /\ since' = [i \in Insts |-> IF i \in Scan(name) /\ addr # 0 THEN 0 ELSE Older(since[i])]
        /\ lost' = (lost \/ (addr = 0 /\ known # {}))
        /\ UNCHANGED machine

\* What happens to the machine.
Change == /\ changes < MaxChanges /\ changes' = changes + 1
          /\ \/ \E s \in Servers : running' = (running \cup {s}) \ (running \cap {s}) /\ UNCHANGED <<name, addr>>
             \/ \E n \in Names : n > name /\ name' = n /\ UNCHANGED <<running, addr>>
             \/ \E a \in Addrs \cup {0} : a # addr /\ addr' = a /\ UNCHANGED <<running, name>>
          /\ UNCHANGED <<responder, net, browser, since, lost>>

Next == Tick \/ Change \/ Input \/ Lose \/ \E d \in BOOLEAN : Query(d)

-----------------------------------------------------------------------------
\* browse_list(): services with an SRV that did not say goodbye.
Listed(i) == cache[i].ptr > 0 /\ cache[i].srv > 0 /\ ~cache[i].ptrBye /\ ~cache[i].srvBye

\* A listed service was served not longer ago than an SRV record lives, whatever
\* goodbyes were lost.
StaleBounded == \A i \in Insts : Listed(i) => since[i] <= HostTtl + 1

\* While no frame is lost, a server that stops or is renamed is off the list two seconds
\* later, long before its records run out.
GoneSoon == \A i \in Insts : ~lost /\ net = <<>> /\ since[i] >= 2 => ~Listed(i)

\* While no frame is lost, a service that is served stays on the list: its records are
\* asked for before they run out.
KeptAlive == \A i \in Insts : (Listed(i) /\ i \in known \cap Scan(name) /\ ip # 0 /\ addr = ip /\ ~lost')
                                  => Listed(i)'
=============================================================================

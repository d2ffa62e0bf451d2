------------------------------ MODULE EthDhcp ------------------------------
(***************************************************************************)
(* c/eth/main.c: the Ethernet driver's address: DHCP, the address used      *)
(* meanwhile when no server answers, the gateway's MAC, and what it         *)
(* publishes for every other process.                                       *)
(*                                                                         *)
(* Time goes in seconds.  Every server has a network of its own: an address *)
(* and a gateway are the number of their network, 0 is none, Own is the     *)
(* address eth had when it started.  A gateway's MAC is its number too.     *)
(***************************************************************************)
EXTENDS Integers, FiniteSets, TLAPS

CONSTANTS Servers,          \* 1 .. n
          Own,              \* the built-in or given address
          Lease,            \* seconds
          RetryMax, FallbackAfter,  \* DHCP_RETRY_MAX_MS, DHCP_FALLBACK_MS
          Delay,            \* bound: a message older than this is lost
          Naks,             \* servers may take an address back
          MaxRestarts       \* bound

VARIABLES state, ip, gw, mac,       \* dhcp_state, my_ip, net_gw, gw_mac (0: not known)
          source, fallback, onFallback,
          round,                    \* dhcp_xid
          offered, server,          \* dhcp_offered, dhcp_server
          resend, backoff, waited,  \* to dhcp_resend_ms, dhcp_backoff_ms, since dhcp_started_ms
          left,                     \* to dhcp_expire_ms
          pub,                      \* what the kernel keeps for everyone: ip, gw, mac
          net,                      \* on the way: [type, round, from, age]
          granted,                  \* per server: how long it keeps the address for us
          restarts

client == <<state, ip, gw, mac, source, fallback, onFallback, round, offered, server, resend, backoff, waited, left, pub>>
vars == <<client, net, granted, restarts>>

HalfLease == Lease \div 2
Msg(t, r, s) == [type |-> t, round |-> r, from |-> s, age |-> 0]

-----------------------------------------------------------------------------
(* What eth tells the others.                                               *)

\* publish_config(): Busy is tried again, and not for as long as the fifty tries last.
Publish == pub' = [ip |-> ip', gw |-> gw', mac |-> mac']

\* set_gateway(): another gateway's MAC is not known.
SetGateway(g) == gw' = g /\ mac' = IF g # gw THEN 0 ELSE mac

\* default_mask_gw(): the gateway at .1, if there is none yet.
DefaultGateway(addr) == SetGateway(IF gw = 0 THEN addr ELSE gw)

Init == /\ \/ state = "off" /\ ip = Own /\ gw = Own /\ source = "static"
              /\ pub = [ip |-> Own, gw |-> Own, mac |-> 0] /\ net = {}
           \/ state = "discovering" /\ ip = 0 /\ gw = 0 /\ source = "none"
              /\ pub = [ip |-> 0, gw |-> 0, mac |-> 0] /\ net = {Msg("discover", 1, 0)}
        /\ mac = 0 /\ fallback = Own /\ onFallback = FALSE /\ round = 1 /\ offered = 0 /\ server = 0
        /\ resend = 1 /\ backoff = 2 /\ waited = 0 /\ left = 0
        /\ granted = [s \in Servers |-> 0] /\ restarts = 0

-----------------------------------------------------------------------------
(* Sending.                                                                 *)

\* dhcp_arm_retry().
ArmRetry(from) == /\ resend' = from
                  /\ backoff' = IF from * 2 > RetryMax THEN RetryMax ELSE from * 2

\* dhcp_start(): a new transaction; messages of the one before are no longer ours.
Start(old) == /\ state' = "discovering" /\ round' = 1 /\ waited' = 0 /\ ArmRetry(1)
              /\ net' = {[m EXCEPT !.round = 0] : m \in old} \cup {Msg("discover", 1, 0)}

SendDiscover(old) == /\ state' = "discovering" /\ ArmRetry(backoff)
                     /\ net' = old \cup {Msg("discover", round, 0)} /\ UNCHANGED round

SendRequest(old, renew, from, to) ==
    /\ state' = IF renew THEN "renewing" ELSE "requesting"
    /\ ArmRetry(from)
    /\ net' = old \cup {Msg(IF renew THEN "renew" ELSE "request", round, to)}
    /\ UNCHANGED round

-----------------------------------------------------------------------------
(* Replies: on_dhcp_packet().                                               *)

Ours(m) == m.round = round

Offer(m) ==
    /\ m \in net /\ m.type = "offer" /\ Ours(m) /\ state = "discovering"
    /\ offered' = m.from /\ server' = m.from
    /\ SendRequest(net \ {m}, FALSE, 1, m.from)
    /\ UNCHANGED <<ip, gw, mac, source, fallback, onFallback, waited, left, pub, granted, restarts>>

\* dhcp_on_ack().
Ack(m) ==
    /\ m \in net /\ m.type = "ack" /\ Ours(m) /\ state \in {"requesting", "renewing"}
    /\ server' = m.from /\ onFallback' = FALSE /\ source' = "dhcp"
    /\ ip' = m.from /\ SetGateway(m.from) /\ Publish
    /\ state' = "bound" /\ left' = Lease
    /\ net' = net \ {m}
    /\ UNCHANGED <<fallback, round, offered, resend, backoff, waited, granted, restarts>>

Nak(m) ==
    /\ m \in net /\ m.type = "nak" /\ Ours(m) /\ state \in {"requesting", "renewing"}
    /\ Start(net \ {m})
    /\ UNCHANGED <<ip, gw, mac, source, fallback, onFallback, offered, server, left, pub, granted, restarts>>

\* Anything else is not looked at.
Ignored(m) ==
    /\ m \in net /\ m.type \in {"offer", "ack", "nak"}
    /\ ~Ours(m) \/ (m.type = "offer" /\ state # "discovering")
       \/ (m.type # "offer" /\ state \notin {"requesting", "renewing"})
    /\ net' = net \ {m}
    /\ UNCHANGED <<client, granted, restarts>>

-----------------------------------------------------------------------------
(* A second passes: dhcp_poll(), gw_poll().                                 *)

\* Faulty variant: what got no answer is not sent again.
DueNever == FALSE

Due == resend <= 1

Gone == IF left > 0 THEN left - 1 ELSE 0

\* Faulty variant: an address that runs out is still used.
ExpiredKept == UNCHANGED <<ip, pub, gw, mac, source>>

Expired == ip' = 0 /\ source' = "none" /\ UNCHANGED <<gw, mac>> /\ Publish

\* No lease in time: the fallback address, and still asking.
UseFallback ==
    IF ~onFallback /\ ip = 0 /\ waited + 1 >= FallbackAfter
    THEN /\ onFallback' = TRUE /\ ip' = fallback /\ DefaultGateway(fallback) /\ source' = "fallback" /\ Publish
    ELSE UNCHANGED <<onFallback, ip, gw, mac, source, pub>>

\* An unanswered REQUEST goes back to DISCOVER.
GivesUp == state = "requesting" /\ backoff >= 8

\* Unacknowledged messages age, and the old ones are lost.
Aged == {[m EXCEPT !.age = @ + 1] : m \in {n \in net : n.age < Delay}}
ServersTick == granted' = [s \in Servers |-> IF granted[s] > 0 THEN granted[s] - 1 ELSE 0]

Asking ==
    /\ state \in {"discovering", "requesting"}
    /\ UseFallback
    /\ IF ~Due THEN /\ resend' = resend - 1 /\ net' = Aged /\ UNCHANGED <<state, backoff, round>>
                    /\ waited' = IF waited < FallbackAfter THEN waited + 1 ELSE waited
       ELSE IF GivesUp THEN Start(Aged)
       ELSE /\ IF state = "requesting" THEN SendRequest(Aged, FALSE, backoff, server) ELSE SendDiscover(Aged)
            /\ waited' = IF waited < FallbackAfter THEN waited + 1 ELSE waited
    /\ UNCHANGED <<fallback, offered, server>>

\* T1, or the machine has another name: the lease is renewed.
Bound(renamed) ==
    /\ state = "bound"
    /\ IF Gone <= Lease - HalfLease \/ renamed THEN SendRequest(Aged, TRUE, 1, server)
       ELSE net' = Aged /\ UNCHANGED <<state, resend, backoff, round>>
    /\ UNCHANGED <<ip, gw, mac, source, fallback, onFallback, offered, server, waited, pub>>

Renewing ==
    /\ state = "renewing"
    /\ IF Gone = 0 THEN Expired /\ Start(Aged)
       ELSE /\ IF Due THEN SendRequest(Aged, TRUE, backoff, server)
               ELSE resend' = resend - 1 /\ net' = Aged /\ UNCHANGED <<state, backoff, round>>
            /\ UNCHANGED <<ip, pub, gw, mac, source, waited>>
    /\ UNCHANGED <<fallback, onFallback, offered, server>>

Tick == /\ left' = Gone /\ ServersTick /\ UNCHANGED restarts
        /\ Asking \/ Renewing \/ \E renamed \in BOOLEAN : Bound(renamed)

\* A gateway speaks (ARP): the one we use tells its MAC.
GatewaySpeaks(g) ==
    /\ ip # 0 /\ g = gw /\ mac # g
    /\ mac' = g /\ UNCHANGED <<ip, gw>> /\ Publish
    /\ UNCHANGED <<state, source, fallback, onFallback, round, offered, server, resend, backoff, waited, left,
                   net, granted, restarts>>

\* eth is started again: the address everyone knows is what to fall back to.
Restart ==
    /\ restarts < MaxRestarts /\ restarts' = restarts + 1
    /\ state # "off"
    /\ fallback' = IF pub.ip # 0 THEN pub.ip ELSE Own
    /\ ip' = 0 /\ gw' = 0 /\ mac' = 0 /\ source' = "none" /\ onFallback' = FALSE
    /\ offered' = 0 /\ server' = 0 /\ left' = 0 /\ Start(net)
    /\ UNCHANGED <<pub, granted>>

-----------------------------------------------------------------------------
(* Servers.                                                                 *)

Answer(s, m, type) == /\ net' = (net \ {m}) \cup {Msg(type, m.round, s)}
                      /\ UNCHANGED <<client, restarts>>

Offers(s, m) == m \in net /\ m.type = "discover" /\ Answer(s, m, "offer") /\ UNCHANGED granted

Grants(s, m) == /\ m \in net /\ m.type \in {"request", "renew"} /\ m.from = s
                /\ m.type = "renew" => granted[s] > 0
                /\ granted' = [granted EXCEPT ![s] = Lease] /\ Answer(s, m, "ack")

Refuses(s, m) == /\ Naks /\ m \in net /\ m.type \in {"request", "renew"} /\ m.from = s
                 /\ granted' = [granted EXCEPT ![s] = 0] /\ Answer(s, m, "nak")

Next == \/ Tick \/ Restart
        \/ \E g \in Servers \cup {Own} : GatewaySpeaks(g)
        \/ \E m \in net : \/ Offer(m) \/ Ack(m) \/ Nak(m) \/ Ignored(m)
                          \/ \E s \in Servers : Offers(s, m) \/ Grants(s, m) \/ Refuses(s, m)

Spec == Init /\ [][Next]_vars

-----------------------------------------------------------------------------
\* A leased address is used only while its server keeps it for us, give or take how
\* long the answer was on its way.
LeaseHeld == source = "dhcp" => /\ left > 0 /\ ip \in Servers
                                /\ left <= granted[ip] + Delay

\* Everyone is told the address in use, the gateway, and a MAC that is that gateway's.
PublishedTrue == /\ (ip # 0 \/ restarts = 0) => pub.ip = ip /\ pub.gw = gw
                 /\ pub.mac \in {0, pub.gw}
                 /\ (mac # 0 => pub.mac = mac)

-----------------------------------------------------------------------------
(* Proof that everyone is told the address in use, for any servers, lease   *)
(* and timeouts.                                                            *)

\* The MAC kept is the gateway's, so set_gateway() has to forget it.
MacFits == mac \in {0, gw}

Told == restarts \in Nat /\ MacFits /\ PublishedTrue

\* publish_config() with an address that fits leaves everyone right.
LEMMA PublishTells ==
  ASSUME Publish, mac' \in {0, gw'}, restarts' \in Nat PROVE Told'
<1>1. pub'.ip = ip' /\ pub'.gw = gw' /\ pub'.mac = mac'
  BY DEF Publish
<1> QED
  BY <1>1 DEF Told, MacFits, PublishedTrue

LEMMA SameTells ==
  ASSUME Told, UNCHANGED <<ip, gw, mac, pub, restarts>> PROVE Told'
  BY DEF Told, MacFits, PublishedTrue

LEMMA GatewayFits ==
  ASSUME Told, NEW g, SetGateway(g) PROVE mac' \in {0, gw'}
  BY DEF Told, MacFits, SetGateway

LEMMA FallbackTells ==
  ASSUME Told, UseFallback, UNCHANGED restarts PROVE Told'
<1>1. CASE ~onFallback /\ ip = 0 /\ waited + 1 >= FallbackAfter
  <2>1. DefaultGateway(fallback) /\ Publish
    BY <1>1 DEF UseFallback
  <2>2. mac' \in {0, gw'}
    BY <2>1, GatewayFits DEF DefaultGateway
  <2> QED
    BY <2>1, <2>2, PublishTells DEF Told
<1>2. CASE ~(~onFallback /\ ip = 0 /\ waited + 1 >= FallbackAfter)
  BY <1>2, SameTells DEF UseFallback
<1> QED
  BY <1>1, <1>2

LEMMA TickTells == ASSUME Told, Tick PROVE Told'
<1>1. UNCHANGED restarts /\ restarts \in Nat
  BY DEF Tick, Told
<1>2. CASE Asking
  BY <1>1, <1>2, FallbackTells DEF Asking
<1>3. CASE Renewing
  <2>1. CASE Gone = 0
    <3>1. Publish /\ UNCHANGED <<gw, mac>>
      BY <1>3, <2>1 DEF Renewing, Expired
    <3> QED
      BY <1>1, <3>1, PublishTells DEF Told, MacFits
  <2>2. CASE Gone # 0
    BY <1>1, <1>3, <2>2, SameTells DEF Renewing
  <2> QED
    BY <2>1, <2>2
<1>4. CASE \E renamed \in BOOLEAN : Bound(renamed)
  BY <1>1, <1>4, SameTells DEF Bound
<1> QED
  BY <1>2, <1>3, <1>4 DEF Tick

LEMMA NextTells == ASSUME Told, Next PROVE Told'
<1>1. CASE Tick
  BY <1>1, TickTells
<1>2. CASE Restart
  BY <1>2 DEF Restart, Told, MacFits, PublishedTrue
<1>3. CASE \E g \in Servers \cup {Own} : GatewaySpeaks(g)
  <2>1. Publish /\ mac' = gw' /\ restarts' = restarts
    BY <1>3 DEF GatewaySpeaks
  <2> QED
    BY <2>1, PublishTells DEF Told
<1>4. ASSUME NEW m \in net, Ack(m) PROVE Told'
  <2>1. Publish /\ SetGateway(m.from) /\ restarts' = restarts
    BY <1>4 DEF Ack
  <2> QED
    BY <2>1, GatewayFits, PublishTells DEF Told
<1>5. ASSUME NEW m \in net, Offer(m) \/ Nak(m) \/ Ignored(m) PROVE Told'
  BY <1>5, SameTells DEF Offer, Nak, Ignored, client
<1>6. ASSUME NEW m \in net, NEW s \in Servers, Offers(s, m) \/ Grants(s, m) \/ Refuses(s, m) PROVE Told'
  BY <1>6, SameTells DEF Offers, Grants, Refuses, Answer, client
<1> QED
  BY <1>1, <1>2, <1>3, <1>4, <1>5, <1>6 DEF Next

LEMMA InitTells == ASSUME Init PROVE Told
  BY DEF Init, Told, MacFits, PublishedTrue

LEMMA StepTells == ASSUME Told, [Next]_vars PROVE Told'
  BY NextTells, SameTells DEF vars, client

\* Whatever leases, refusals, fallbacks and restarts there are, publish_config() has told
\* everyone the address and the gateway in use, and no MAC that is another gateway's.
THEOREM EveryoneIsTold == Spec => []PublishedTrue
<1>1. Init => Told
  BY InitTells
<1>2. Told /\ [Next]_vars => Told'
  BY StepTells
<1>3. Told => PublishedTrue
  BY DEF Told
<1> QED
  BY <1>1, <1>2, <1>3, PTL DEF Spec

-----------------------------------------------------------------------------
(* Proof that a leased address is used only while its server keeps it, for  *)
(* any servers, lease and timeouts, when servers keep their word.           *)

Message == [type : {"discover", "offer", "request", "renew", "ack"}, round : {0, 1},
            from : Servers \cup {0}, age : 0 .. Delay]

\* An acknowledgment on its way is as old as the promise it carries.
Good(msgs, promised) ==
    \A m \in msgs : m \in Message /\ (m.type = "ack" => m.from \in Servers /\ promised[m.from] + m.age >= Lease)

Types == granted \in [Servers -> Nat] /\ left \in 0 .. Lease /\ server \in Servers \cup {0} /\ round \in {0, 1}

\* dhcp_poll() asks again at half the lease, so it is still running when RENEWING begins.
Runs == source = "dhcp" => state \in {"bound", "renewing"} /\ (state = "bound" => left > Lease - HalfLease)

LeaseInv == Types /\ Good(net, granted) /\ Runs /\ LeaseHeld

\* A lease has two halves, and servers do not take it back.
KeptLeases == Lease \in Nat \ {0, 1} /\ Delay \in Nat /\ Naks = FALSE

\* A lease runs out no sooner than half of it.
LEMMA Halves == ASSUME KeptLeases PROVE HalfLease \in Nat /\ HalfLease > 0 /\ HalfLease <= Lease - 1
  BY DEF KeptLeases, HalfLease

LEMMA GoodFewer == ASSUME NEW a, NEW b \in SUBSET a, NEW g, Good(a, g) PROVE Good(b, g)
  BY DEF Good

LEMMA GoodSent ==
  ASSUME KeptLeases, NEW a, NEW g, Good(a, g), NEW t \in {"discover", "offer", "request", "renew"},
         NEW r \in {0, 1}, NEW s \in Servers \cup {0}
  PROVE  Good(a \cup {Msg(t, r, s)}, g)
<1>1. Msg(t, r, s) \in Message /\ Msg(t, r, s).type # "ack"
  BY DEF Msg, Message, KeptLeases
<1> QED
  BY <1>1 DEF Good

\* Messages of the transaction before are as good as they were.
LEMMA GoodOld ==
  ASSUME NEW a, NEW g, Good(a, g) PROVE Good({[m EXCEPT !.round = 0] : m \in a}, g)
<1>1. ASSUME NEW m \in a
      PROVE  /\ [m EXCEPT !.round = 0] \in Message /\ [m EXCEPT !.round = 0].type = m.type
             /\ [m EXCEPT !.round = 0].from = m.from /\ [m EXCEPT !.round = 0].age = m.age
  BY <1>1 DEF Good, Message
<1>2. ASSUME NEW o \in {[m EXCEPT !.round = 0] : m \in a}
      PROVE  o \in Message /\ (o.type = "ack" => o.from \in Servers /\ g[o.from] + o.age >= Lease)
  <2>1. PICK m \in a : o = [m EXCEPT !.round = 0]
    BY <1>2
  <2>2. m.type = "ack" => m.from \in Servers /\ g[m.from] + m.age >= Lease
    BY <2>1 DEF Good
  <2>3. o \in Message /\ o.type = m.type /\ o.from = m.from /\ o.age = m.age
    BY <1>1, <2>1
  <2> QED
    BY <2>2, <2>3
<1> QED
  BY <1>2 DEF Good

\* A second takes as much from the promise as it adds to the message's age.
LEMMA GoodAged ==
  ASSUME KeptLeases, Types, Good(net, granted), ServersTick
  PROVE  granted' \in [Servers -> Nat] /\ Good(Aged, granted')
<1>1. granted' \in [Servers -> Nat] /\ \A s \in Servers : granted'[s] >= granted[s] - 1
  BY DEF ServersTick, Types
<1>2. ASSUME NEW m \in net, m.age < Delay
      PROVE  LET o == [m EXCEPT !.age = @ + 1]
             IN  o \in Message /\ (o.type = "ack" => o.from \in Servers /\ granted'[o.from] + o.age >= Lease)
  <2>1. /\ m \in Message /\ m.age \in Nat /\ Delay \in Nat
        /\ m.type = "ack" => m.from \in Servers /\ granted[m.from] + m.age >= Lease
    BY DEF Good, Message, KeptLeases
  <2>2. /\ [m EXCEPT !.age = @ + 1] \in Message /\ [m EXCEPT !.age = @ + 1].type = m.type
        /\ [m EXCEPT !.age = @ + 1].from = m.from /\ [m EXCEPT !.age = @ + 1].age = m.age + 1
    BY <1>2, <2>1 DEF Message
  <2>3. CASE m.type = "ack"
    <3>1. /\ granted[m.from] \in Nat /\ granted'[m.from] \in Nat /\ granted'[m.from] >= granted[m.from] - 1
          /\ Lease \in Nat
      BY <1>1, <2>1, <2>3 DEF Types, KeptLeases
    <3> QED
      BY <2>1, <2>2, <2>3, <3>1
  <2>4. CASE m.type # "ack"
    BY <2>2, <2>4
  <2> QED
    BY <2>3, <2>4
<1>3. Good(Aged, granted')
  BY <1>2 DEF Good, Aged
<1> QED
  BY <1>1, <1>3

\* What each of the ways to send leaves under way.
LEMMA GoodStart ==
  ASSUME KeptLeases, NEW a, NEW g, Good(a, g), Start(a)
  PROVE  Good(net', g) /\ state' = "discovering" /\ round' = 1
<1>1. Good({[m EXCEPT !.round = 0] : m \in a}, g)
  BY GoodOld
<1>2. Good({[m EXCEPT !.round = 0] : m \in a} \cup {Msg("discover", 1, 0)}, g)
  BY <1>1, GoodSent
<1> QED
  BY <1>2 DEF Start

LEMMA GoodRequest ==
  ASSUME KeptLeases, Types, NEW a, NEW g, Good(a, g), NEW renew \in BOOLEAN, NEW from,
         NEW to \in Servers \cup {0}, SendRequest(a, renew, from, to)
  PROVE  Good(net', g) /\ state' = (IF renew THEN "renewing" ELSE "requesting") /\ round' = round
  BY GoodSent DEF SendRequest, Types

LEMMA GoodDiscover ==
  ASSUME KeptLeases, Types, NEW a, NEW g, Good(a, g), SendDiscover(a)
  PROVE  Good(net', g) /\ state' = "discovering" /\ round' = round
  BY GoodSent DEF SendDiscover, Types

\* A step that leaves the address and the clocks alone keeps the lease.
LEMMA LeaseStands ==
  ASSUME LeaseInv, UNCHANGED <<ip, source, left, granted>>, Good(net', granted'), round' \in {0, 1},
         server' \in Servers \cup {0},
         source = "dhcp" => state' = "renewing" \/ state' = state
  PROVE  LeaseInv'
  BY DEF LeaseInv, Types, Runs, LeaseHeld

\* So does one after which no leased address is in use.
LEMMA NoLease ==
  ASSUME source' # "dhcp", granted' \in [Servers -> Nat], left' \in 0 .. Lease, server' \in Servers \cup {0},
         round' \in {0, 1}, Good(net', granted')
  PROVE  LeaseInv'
  BY DEF LeaseInv, Types, Runs, LeaseHeld

\* A second takes as much from the lease as from the server's promise.
LEMMA LeaseRuns ==
  ASSUME KeptLeases, LeaseInv, ServersTick, left' = Gone, UNCHANGED <<ip, source, server>>, round' \in {0, 1},
         Good(net', granted'), source = "dhcp" => Gone > 0,
         source = "dhcp" => state' = "renewing" \/ (state' = "bound" /\ Gone > Lease - HalfLease)
  PROVE  LeaseInv'
<1>1. granted' \in [Servers -> Nat] /\ Gone \in 0 .. Lease /\ Delay \in Nat
  <2>1. granted' \in [Servers -> Nat]
    BY GoodAged DEF LeaseInv
  <2>2. left \in 0 .. Lease /\ Delay \in Nat /\ Lease \in Nat
    BY DEF LeaseInv, Types, KeptLeases
  <2> QED
    BY <2>1, <2>2 DEF Gone
<1>2. CASE source = "dhcp"
  <2>1. ip \in Servers /\ left > 0 /\ left <= granted[ip] + Delay /\ left \in Nat
    BY <1>2 DEF LeaseInv, LeaseHeld, Types, KeptLeases
  <2>2. granted[ip] \in Nat /\ granted'[ip] \in Nat /\ granted'[ip] >= granted[ip] - 1
    BY <2>1 DEF LeaseInv, Types, ServersTick
  <2>3. Gone = left - 1
    BY <2>1 DEF Gone
  <2>4. left' <= granted'[ip] + Delay
    BY <1>1, <2>1, <2>2, <2>3
  <2> QED
    BY <1>1, <1>2, <2>1, <2>4 DEF LeaseInv, Types, Runs, LeaseHeld
<1>3. CASE source # "dhcp"
  BY <1>1, <1>3, NoLease DEF LeaseInv, Types
<1> QED
  BY <1>2, <1>3

LEMMA TickHeld == ASSUME KeptLeases, LeaseInv, Tick PROVE LeaseInv'
<1>1. ServersTick /\ left' = Gone /\ granted' \in [Servers -> Nat] /\ Good(Aged, granted')
  BY GoodAged DEF Tick, LeaseInv
<1>2. Types /\ Gone \in 0 .. Lease /\ left \in Nat /\ Lease \in Nat
  BY DEF LeaseInv, Types, Gone, KeptLeases
<1>3. CASE Asking
  <2>1. source # "dhcp" /\ source' # "dhcp"
    BY <1>3 DEF Asking, UseFallback, LeaseInv, Runs
  <2>2. server' = server /\ server \in Servers \cup {0} /\ round \in {0, 1}
    BY <1>2, <1>3 DEF Asking, Types
  <2>3. Good(net', granted') /\ round' \in {0, 1}
    <3>1. CASE ~Due
      BY <1>1, <1>3, <2>2, <3>1 DEF Asking
    <3>2. CASE Due /\ GivesUp
      BY <1>1, <1>3, <3>2, GoodStart DEF Asking
    <3>3. CASE Due /\ ~GivesUp /\ state = "requesting"
      <4>1. SendRequest(Aged, FALSE, backoff, server)
        BY <1>3, <3>3 DEF Asking
      <4> QED
        BY <1>1, <1>2, <2>2, <4>1, GoodRequest
    <3>4. CASE Due /\ ~GivesUp /\ state # "requesting"
      <4>1. SendDiscover(Aged)
        BY <1>3, <3>4 DEF Asking
      <4> QED
        BY <1>1, <1>2, <2>2, <4>1, GoodDiscover
    <3> QED
      BY <3>1, <3>2, <3>3, <3>4
  <2> QED
    BY <1>1, <1>2, <2>1, <2>2, <2>3, NoLease
<1>4. CASE Renewing
  <2>1. server' = server /\ server \in Servers \cup {0} /\ round \in {0, 1}
    BY <1>2, <1>4 DEF Renewing, Types
  <2>2. CASE Gone = 0
    <3>1. Good(net', granted') /\ round' = 1 /\ source' = "none"
      BY <1>1, <1>4, <2>2, GoodStart DEF Renewing, Expired
    <3> QED
      BY <1>1, <1>2, <2>1, <3>1, NoLease
  <2>3. CASE Gone # 0
    <3>1. UNCHANGED <<ip, source>>
      BY <1>4, <2>3 DEF Renewing
    <3>2. Good(net', granted') /\ round' \in {0, 1} /\ state' = "renewing"
      <4>1. CASE Due
        <5>1. SendRequest(Aged, TRUE, backoff, server)
          BY <1>4, <2>3, <4>1 DEF Renewing
        <5> QED
          BY <1>1, <1>2, <2>1, <5>1, GoodRequest
      <4>2. CASE ~Due
        BY <1>1, <1>4, <2>1, <2>3, <4>2 DEF Renewing
      <4> QED
        BY <4>1, <4>2
    <3> QED
      BY <1>1, <1>2, <2>1, <2>3, <3>1, <3>2, LeaseRuns
  <2> QED
    BY <2>2, <2>3
<1>5. ASSUME NEW renamed \in BOOLEAN, Bound(renamed) PROVE LeaseInv'
  <2>1. /\ UNCHANGED <<ip, source, server>> /\ state = "bound" /\ server \in Servers \cup {0} /\ round \in {0, 1}
    BY <1>2, <1>5 DEF Bound, Types
  <2>2. source = "dhcp" => Gone > 0
    <3>1. source = "dhcp" => left > Lease - HalfLease
      BY <2>1 DEF LeaseInv, Runs
    <3>2. left > 0 => Gone = left - 1
      BY DEF Gone
    <3> QED
      BY <1>2, <3>1, <3>2, Halves
  <2>3. CASE Gone <= Lease - HalfLease \/ renamed
    <3>1. SendRequest(Aged, TRUE, 1, server)
      BY <1>5, <2>3 DEF Bound
    <3>2. Good(net', granted') /\ round' = round /\ state' = "renewing"
      BY <1>1, <1>2, <2>1, <3>1, GoodRequest
    <3> QED
      BY <1>1, <2>1, <2>2, <3>2, LeaseRuns
  <2>4. CASE ~(Gone <= Lease - HalfLease \/ renamed)
    <3>1. net' = Aged /\ UNCHANGED <<state, round>>
      BY <1>5, <2>4 DEF Bound
    <3>2. Gone > Lease - HalfLease
      BY <1>2, <2>4, Halves
    <3> QED
      BY <1>1, <2>1, <2>2, <3>1, <3>2, LeaseRuns
  <2> QED
    BY <2>3, <2>4
<1> QED
  BY <1>3, <1>4, <1>5 DEF Tick

LEMMA NextHeld == ASSUME KeptLeases, LeaseInv, Next PROVE LeaseInv'
<1>1. Types /\ Good(net, granted) /\ Lease \in Nat
  BY DEF LeaseInv, KeptLeases
<1>2. CASE Tick
  BY <1>2, TickHeld
<1>3. CASE Restart
  <2>1. Good(net', granted) /\ round' = 1
    BY <1>1, <1>3, GoodStart DEF Restart
  <2> QED
    BY <1>1, <1>3, <2>1, NoLease DEF Restart, Types
<1>4. CASE \E g \in Servers \cup {Own} : GatewaySpeaks(g)
  BY <1>1, <1>4, LeaseStands DEF GatewaySpeaks, Types
<1>5. ASSUME NEW m \in net, Offer(m) PROVE LeaseInv'
  <2>1. Good(net \ {m}, granted) /\ m.from \in Servers \cup {0}
    BY <1>1, GoodFewer DEF Good, Message
  <2>2. Good(net', granted) /\ round' = round
    BY <1>1, <1>5, <2>1, GoodRequest DEF Offer
  <2>3. source # "dhcp"
    BY <1>5 DEF Offer, LeaseInv, Runs
  <2> QED
    BY <1>1, <1>5, <2>1, <2>2, <2>3, NoLease DEF Offer, Types
<1>6. ASSUME NEW m \in net, Ack(m) PROVE LeaseInv'
  <2>1. Good(net', granted') /\ m \in Message /\ m.from \in Servers /\ granted[m.from] + m.age >= Lease
    BY <1>1, <1>6, GoodFewer DEF Good, Ack
  <2>2. m.age \in 0 .. Delay /\ granted[m.from] \in Nat /\ Delay \in Nat
    BY <1>1, <2>1 DEF Message, Types, KeptLeases
  <2>3. /\ ip' = m.from /\ left' = Lease /\ state' = "bound" /\ server' = m.from
        /\ UNCHANGED <<granted, round>>
    BY <1>6 DEF Ack
  <2>4. left' > 0 /\ left' \in 0 .. Lease /\ left' > Lease - HalfLease
    <3>1. HalfLease \in Nat /\ HalfLease > 0 /\ HalfLease <= Lease - 1 /\ Lease \in Nat
      BY <1>1, Halves
    <3> QED
      BY <2>3, <3>1
  <2>5. left' <= granted'[ip'] + Delay
    BY <1>1, <2>1, <2>2, <2>3
  <2> QED
    BY <1>1, <2>1, <2>3, <2>4, <2>5 DEF LeaseInv, Types, Runs, LeaseHeld
<1>7. ASSUME NEW m \in net, Nak(m) PROVE FALSE
  BY <1>1, <1>7 DEF Nak, Good, Message
<1>8. ASSUME NEW m \in net, Ignored(m) PROVE LeaseInv'
  <2>1. Good(net', granted) /\ UNCHANGED <<ip, source, left, granted, round, server, state>>
    BY <1>1, <1>8, GoodFewer DEF Ignored, client
  <2> QED
    BY <1>1, <2>1, LeaseStands DEF Types
<1>9. ASSUME NEW m \in net, NEW s \in Servers, Offers(s, m) PROVE LeaseInv'
  <2>1. Good(net \ {m}, granted) /\ m.round \in {0, 1}
    BY <1>1, GoodFewer DEF Good, Message
  <2>2. Good(net', granted) /\ UNCHANGED <<ip, source, left, granted, round, server, state>>
    BY <1>9, <2>1, GoodSent DEF Offers, Answer, client
  <2> QED
    BY <1>1, <2>2, LeaseStands DEF Types
<1>10. ASSUME NEW m \in net, NEW s \in Servers, Grants(s, m) PROVE LeaseInv'
  <2>1. /\ granted' = [granted EXCEPT ![s] = Lease] /\ net' = (net \ {m}) \cup {Msg("ack", m.round, s)}
        /\ UNCHANGED <<ip, source, left, round, server, state>>
    BY <1>10 DEF Grants, Answer, client
  <2>2. granted' \in [Servers -> Nat] /\ granted'[s] = Lease /\ \A z \in Servers : z # s => granted'[z] = granted[z]
    BY <1>1, <2>1 DEF Types
  <2>3. Msg("ack", m.round, s) \in Message /\ Msg("ack", m.round, s).from = s /\ Msg("ack", m.round, s).age = 0
    BY <1>1 DEF Good, Message, Msg, KeptLeases
  <2>4. ASSUME NEW o \in net, o.type = "ack" PROVE o.from \in Servers /\ granted'[o.from] + o.age >= Lease
    <3>1. o.from \in Servers /\ granted[o.from] + o.age >= Lease /\ o.age \in Nat
      BY <1>1, <2>4 DEF Good, Message, KeptLeases
    <3> QED
      BY <1>1, <2>2, <3>1
  <2>5. Good(net', granted')
    BY <1>1, <2>1, <2>2, <2>3, <2>4 DEF Good
  <2>6. source = "dhcp" => left' <= granted'[ip'] + Delay
    <3>1. source = "dhcp" => ip \in Servers /\ left <= granted[ip] + Delay
      BY DEF LeaseInv, LeaseHeld
    <3>2. left \in 0 .. Lease /\ Delay \in Nat
      BY <1>1 DEF Types, KeptLeases
    <3> QED
      BY <1>1, <2>1, <2>2, <3>1, <3>2
  <2> QED
    BY <1>1, <2>1, <2>2, <2>5, <2>6 DEF LeaseInv, Types, Runs, LeaseHeld
<1>11. ASSUME NEW m \in net, NEW s \in Servers, Refuses(s, m) PROVE FALSE
  BY <1>11 DEF Refuses, KeptLeases
<1> QED
  BY <1>2, <1>3, <1>4, <1>5, <1>6, <1>7, <1>8, <1>9, <1>10, <1>11 DEF Next

LEMMA InitHeld == ASSUME KeptLeases, Init PROVE LeaseInv
<1>1. Good({}, granted)
  BY DEF Good
<1>2. Good({} \cup {Msg("discover", 1, 0)}, granted)
  BY <1>1, GoodSent
<1>3. Good(net, granted)
  BY <1>1, <1>2 DEF Init
<1> QED
  BY <1>3 DEF Init, LeaseInv, Types, Runs, LeaseHeld, KeptLeases

LEMMA StepHeld == ASSUME KeptLeases, LeaseInv, [Next]_vars PROVE LeaseInv'
<1>1. CASE UNCHANGED vars
  BY <1>1 DEF vars, client, LeaseInv, Types, Good, Runs, LeaseHeld
<1> QED
  BY <1>1, NextHeld

\* Messages are lost, late and of transactions that are over, the daemon is started again,
\* and dhcp_poll() still uses no address longer than the server that granted it keeps
\* it, but for the time the acknowledgment was on its way.
THEOREM LeasedIsHeld == ASSUME KeptLeases PROVE Spec => []LeaseHeld
<1>1. Init => LeaseInv
  BY InitHeld
<1>2. LeaseInv /\ [Next]_vars => LeaseInv'
  BY StepHeld
<1>3. LeaseInv => LeaseHeld
  BY DEF LeaseInv
<1> QED
  BY <1>1, <1>2, <1>3, PTL DEF Spec
=============================================================================

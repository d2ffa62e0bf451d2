----------------------------- MODULE Cr2Sockets -----------------------------
(***************************************************************************)
(* The socket pool of c/libcr2/net.c: on_tcp_packet(), alloc_socket(),      *)
(* tcp_connect(), tcp_read(), tcp_write(), tcp_close() and socket_reap(),   *)
(* with remote hosts that open, use, abandon and reopen connections.        *)
(*                                                                         *)
(* A host's request is Request bytes, numbered from 1 (its SYN is 0), and   *)
(* its FIN is number Request + 1.  Any part of it may arrive at any time,   *)
(* again, or never, as may anything an earlier connection of the host has   *)
(* left behind.  Slot 0 listens on the port Server; Client is the local     *)
(* port of an outgoing connection.  What this side sends is left out: the   *)
(* hosts may send anything they could ever have a reason to send.           *)
(***************************************************************************)
EXTENDS Integers, FiniteSets, FiniteSetsExt

CONSTANTS Slots,      \* 0 .. MAX_SOCKETS - 1
          Hosts,      \* remote address and port
          Request,    \* bytes of a host's request
          Buffer      \* RX_BUFFER_SIZE

Server == "server"
Client == "client"

States == {"CLOSED", "LISTENING", "SYN_SENT", "ESTABLISHED", "FIN_WAIT", "CLOSE_WAIT"}

VARIABLES sock,     \* the pool
          got,      \* history: bytes of the request a slot has appended
          event     \* history: what the last step was, a segment by its flag

vars == <<sock, got, event>>

Listener == 0

Used(i) == sock[i].state # "CLOSED"

\* free_socket().
Free(s) == [s EXCEPT !.state = "CLOSED", !.rx_len = 0]

-----------------------------------------------------------------------------
(* Allocation.                                                              *)

\* Slots alloc_socket() may take: free ones first, then ones that only wait for
\* the peer to finish a close.
Allocatable(pool) ==
    LET free == {i \in Slots : pool[i].state = "CLOSED"}
    IN  IF free # {} THEN free ELSE {i \in Slots : pool[i].state = "FIN_WAIT"}

\* socket_claim() and the caller's assignments: the pool with a new connection,
\* or as it was when there is no slot.
Claim(pool, s) ==
    IF Allocatable(pool) = {} THEN pool ELSE [pool EXCEPT ![Min(Allocatable(pool))] = s]

Fresh(state, host, port, ack) ==
    [state |-> state, host |-> host, port |-> port, seq |-> 1, ack |-> ack, rx_len |-> 0]

\* A connection that begins or ends has received nothing.
Restarted == [i \in Slots |-> IF sock'[i] # sock[i] THEN 0 ELSE got[i]]

-----------------------------------------------------------------------------
(* on_tcp_packet().                                                         *)

Matches(i, p) == Used(i) /\ sock[i].port = p.port /\ sock[i].host = p.host

\* Faulty variant: the tuple of a SYN is not looked up.
DuplicatesIgnored(p) == {}

\* find_conn(): the connection that already owns the tuple.
Duplicates(p) == {i \in Slots \ {Listener} : Matches(i, p)}

\* SYN for the listener: repeat the SYN-ACK of a connection that has sent nothing
\* and has nothing to read, drop a stale one, and accept if there is a slot; a
\* full pool answers with a reset.
OnSyn(p) ==
    /\ p.port = Server /\ p.flag \in {"SYN", "SYNACK"}
    /\ LET old   == Duplicates(p)
           quiet == {i \in old : /\ sock[i].state = "ESTABLISHED"
                                 /\ sock[i].seq <= 1 /\ sock[i].rx_len = 0}
           pool  == [i \in Slots |-> IF i \in old THEN Free(sock[i]) ELSE sock[i]]
       IN  /\ sock' = IF quiet # {}
                      THEN [i \in Slots |-> IF i \in quiet THEN [sock[i] EXCEPT !.ack = 1] ELSE sock[i]]
                      ELSE Claim(pool, Fresh("ESTABLISHED", p.host, Server, 1))
           /\ event' = IF quiet # {} THEN "REPEAT" ELSE "SYN"
    /\ got' = Restarted

\* A connection of ours that is not open yet: any reset of its port ends it, a
\* challenge is answered with RST and SYN, and SYN-ACK opens it.
OnSynSent(i, p) ==
    /\ sock[i].state = "SYN_SENT" /\ sock[i].port = p.port
    /\ \/ /\ p.flag = "RST"
          /\ sock' = [sock EXCEPT ![i] = Free(@)]
       \/ /\ sock[i].host = p.host /\ p.flag \in {"ACK", "FIN"}
          /\ sock' = [sock EXCEPT ![i].ack = 0]
       \/ /\ sock[i].host = p.host /\ p.flag = "SYNACK"
          /\ sock' = [sock EXCEPT ![i].state = "ESTABLISHED", ![i].ack = 1]
    /\ event' = p.flag
    /\ got' = Restarted

\* Closed from this side: the peer's FIN, once acknowledged, or a reset ends it.
OnFinWait(i, p) ==
    /\ sock[i].state = "FIN_WAIT" /\ Matches(i, p) /\ p.flag \in {"RST", "FIN"}
    /\ sock' = [sock EXCEPT ![i] = Free(@)]
    /\ event' = p.flag
    /\ got' = Restarted

\* A half-closed connection is kept while its request is unread.
AfterFin(s) == IF s.rx_len > 0 THEN [s EXCEPT !.state = "CLOSE_WAIT"] ELSE Free(s)

\* The part of a segment that is appended.
Takes(s, p) == IF p.seq = s.ack THEN Min({p.len, Buffer - s.rx_len}) ELSE 0

\* How far data moves ack_num.
Acks(s, p) == Takes(s, p)

\* An open connection: data in order is appended as far as it fits, and a FIN
\* moves ack_num behind itself whatever came before it.
OnOpen(i, p) ==
    /\ sock[i].state \in {"ESTABLISHED", "CLOSE_WAIT"} /\ Matches(i, p)
    /\ p.flag \in {"ACK", "FIN", "RST"}
    /\ LET take  == Takes(sock[i], p)
           taken == [sock[i] EXCEPT !.rx_len = @ + take, !.ack = @ + Acks(sock[i], p)]
       IN  /\ sock' = [sock EXCEPT ![i] =
                          IF p.flag = "RST" THEN Free(@)
                          ELSE IF p.flag = "FIN" THEN AfterFin([taken EXCEPT !.ack = p.seq + p.len + 1])
                          ELSE taken]
           /\ got' = IF sock'[i].state = "CLOSED" THEN Restarted
                     ELSE [got EXCEPT ![i] = @ + take]
    /\ event' = p.flag

\* Every segment a host may send, now or from an earlier life.
Packets ==
    {[host |-> h, port |-> q, flag |-> f, seq |-> 0, len |-> 0] :
        h \in Hosts, q \in {Server, Client}, f \in {"SYN", "SYNACK", "RST"}}
    \cup {p \in [host : Hosts, port : {Server, Client}, flag : {"ACK", "FIN"},
                 seq : 1 .. Request + 1, len : 0 .. Request] :
             IF p.flag = "FIN" THEN p.seq + p.len = Request + 1 ELSE p.seq + p.len <= Request + 1}

Receive(p) ==
    \/ OnSyn(p)
    \/ \E i \in Slots : OnSynSent(i, p) \/ OnFinWait(i, p) \/ OnOpen(i, p)

-----------------------------------------------------------------------------
(* The application.                                                         *)

\* tcp_connect(), from a local port that is not in use.
Connect(h) ==
    /\ \A i \in Slots : Used(i) => sock[i].port # Client
    /\ sock' = Claim(sock, Fresh("SYN_SENT", h, Client, 0))
    /\ got' = Restarted

\* tcp_read() with room for everything; a full buffer announces its new room.
Read(i) ==
    /\ sock[i].state \in {"ESTABLISHED", "CLOSE_WAIT"} /\ sock[i].rx_len > 0
    /\ sock' = [sock EXCEPT ![i].rx_len = 0]
    /\ UNCHANGED got

\* tcp_write(): one byte stands for all that was ever sent.
Write(i) ==
    /\ sock[i].state \in {"ESTABLISHED", "CLOSE_WAIT"}
    /\ sock' = [sock EXCEPT ![i].seq = 2]
    /\ UNCHANGED got

\* tcp_close(): FIN and wait, or give up a connection that never opened.
Close(i) ==
    /\ i # Listener /\ sock[i].state \notin {"CLOSED", "FIN_WAIT"}
    /\ sock' = [sock EXCEPT ![i] = IF @.state = "SYN_SENT" THEN Free(@)
                                   ELSE [@ EXCEPT !.state = "FIN_WAIT", !.seq = 2]]
    /\ got' = Restarted

\* Sockets socket_reap() judges when they have been idle long enough.
Reapable == {i \in Slots \ {Listener} : Used(i)}

\* socket_reap(), for the sockets that are idle and not protected.
Reap(idle) ==
    /\ idle \subseteq Reapable /\ idle # {}
    /\ sock' = [i \in Slots |-> IF i \in idle THEN Free(sock[i]) ELSE sock[i]]
    /\ got' = Restarted

\* socket_pool_init(), socket_tcp4(), bind() and listen().
Init ==
    /\ \E h \in Hosts :
          sock = [i \in Slots |-> [Fresh("CLOSED", h, Server, 0) EXCEPT
                                      !.state = IF i = Listener THEN "LISTENING" ELSE "CLOSED"]]
    /\ got = [i \in Slots |-> 0]
    /\ event = "start"

Application ==
    \/ \E h \in Hosts : Connect(h)
    \/ \E i \in Slots : Read(i) \/ Write(i) \/ Close(i)
    \/ \E idle \in SUBSET Reapable : Reap(idle)

Next == (\E p \in Packets : Receive(p)) \/ (Application /\ event' = "application")

Spec == Init /\ [][Next]_vars

-----------------------------------------------------------------------------
(* Properties.                                                              *)

\* A tuple belongs to one connection, whatever SYNs are repeated or reused:
\* accept() would otherwise offer the same peer twice and data go to the older.
OneOwner ==
    \A i, j \in Slots \ {Listener} :
        (Used(i) /\ Used(j) /\ sock[i].host = sock[j].host /\ sock[i].port = sock[j].port) => i = j

\* Until the peer finishes, a connection acknowledges exactly the prefix of the
\* request it has appended, and its buffer holds no more than that.
DataAcked ==
    \A i \in Slots : sock[i].state = "ESTABLISHED" =>
        sock[i].ack = 1 + got[i] /\ sock[i].rx_len <= got[i]

\* A slot goes from one tuple to another only from a socket that is free or
\* already closed from this side: a full pool never costs a live connection.
LiveNotEvicted ==
    \A i \in Slots : sock[i].state \in {"SYN_SENT", "ESTABLISHED", "CLOSE_WAIT"} =>
          sock'[i].state = "CLOSED" \/ <<sock'[i].host, sock'[i].port>> = <<sock[i].host, sock[i].port>>

\* A request that has not been read is never dropped because its sender has
\* finished: only a reset, a new connection of the same peer, or this side ends it.
UnreadKept ==
    \A i \in Slots :
          (event' = "FIN" /\ sock[i].rx_len > 0 /\ sock[i].state # "FIN_WAIT") => sock'[i].rx_len > 0

\* "Keep the socket so the application can still read that request and write a
\* reply": a half-closed connection is not freed by anything but a reset, a new
\* connection of the peer, or this side.
ReplyPossible ==
    [][\A i \in Slots :
          (event' \in {"ACK", "FIN"} /\ sock[i].state = "CLOSE_WAIT") => sock'[i].state = "CLOSE_WAIT"]_vars
=============================================================================

----------------------------- MODULE WebStream -----------------------------
(***************************************************************************)
(* One TCP connection of the browser's network stack,                       *)
(* cpp/memento-hello/web/net_r2.cpp: connect(), send(), recv(), close(),    *)
(* onTcp(), pump() and tick().                                              *)
(*                                                                         *)
(* Bytes are numbered from 1 in both directions and carry their number.     *)
(* What this side sends stays on the wire and may reach the server late,    *)
(* again or never; the server sends any part of its Reply bytes and its FIN *)
(* at any time, again, or in any order, and acknowledges what it has.       *)
(***************************************************************************)
EXTENDS Integers, Sequences, FiniteSets, FiniteSetsExt

CONSTANTS Request,     \* bytes the loader has to send
          TxCap,       \* TX_CAP
          SegMax,      \* SEG_MAX or the peer's MSS, whichever is less
          Reply,       \* bytes the server has to send
          RxCap,       \* RX_CAP
          RxWindow,    \* RX_WINDOW
          Mss,         \* MSS_IN
          MaxRetries   \* MAX_RETRIES

VARIABLES c,         \* the connection
          given,     \* bytes send() has accepted
          read,      \* bytes recv() has handed out
          wire,      \* segments this side has sent: number of the first byte, bytes, FIN
          server,    \* the server: bytes received in order, and whether the FIN was
          answer     \* what the last step sent: "none", "ack", "rst", or "silent" when data was not answered

vars == <<c, given, read, wire, server, answer>>

Open == {"ESTABLISHED", "CLOSE_WAIT", "FIN_WAIT"}
Bytes(a, b) == [i \in 1 .. b - a + 1 |-> a + i - 1]
FinNumber == Reply + 1

Free == [state |-> "FREE", failed |-> FALSE, una |-> 0, tx |-> <<>>, inflight |-> 0, fin |-> "no",
         peerFin |-> FALSE, retries |-> 0, arpWait |-> FALSE, rx |-> <<>>, rcv |-> 0, adv |-> 0]

\* connect(): the SYN is out, or waits for the next hop's MAC.
Init == /\ \E wait \in BOOLEAN : c = [Free EXCEPT !.state = "SYN_SENT", !.arpWait = wait, !.adv = RxWindow]
        /\ given = 0 /\ read = 0 /\ wire = {} /\ server = [got |-> <<>>, fin |-> FALSE]
        /\ answer = "none"

-----------------------------------------------------------------------------
(* Sending.                                                                 *)

\* The window a segment sent now announces.
Window(d) == Min({RxCap - Len(d.rx), RxWindow})
Announces(d) == [d EXCEPT !.adv = Window(d)]

Waiting(d) == d.inflight > 0 \/ d.fin = "sent" \/ d.state = "SYN_SENT"

Segment(d) == [first |-> d.una + 1, data |-> SubSeq(d.tx, 1, d.inflight), fin |-> d.fin = "sent"]

NothingLeftToSend(d) == d.tx = <<>>

\* pump(): the next segment or the FIN, when nothing is in flight.
Pump(d) ==
    IF Waiting(d) \/ d.failed THEN d
    ELSE IF NothingLeftToSend(d) /\ d.fin = "queued" THEN Announces([d EXCEPT !.fin = "sent", !.retries = 0])
    ELSE IF d.tx # <<>> THEN Announces([d EXCEPT !.inflight = Min({Len(d.tx), SegMax}), !.retries = 0])
    ELSE d

\* A step of this side: the connection becomes d and pump() runs; what pump() sends
\* is on the wire, if the next hop's MAC is known.
Becomes(d) ==
    \E known \in BOOLEAN :
        LET p == Pump(d) IN
        /\ c' = IF p # d THEN [p EXCEPT !.arpWait = ~known] ELSE p
        /\ wire' = IF p # d /\ known THEN wire \cup {Segment(p)} ELSE wire

Send(n) ==
    /\ c.state \in {"SYN_SENT", "ESTABLISHED", "CLOSE_WAIT"} /\ ~c.failed
    /\ n \in 1 .. Min({Request - given, TxCap - Len(c.tx)})
    /\ Becomes([c EXCEPT !.tx = @ \o Bytes(given + 1, given + n)])
    /\ given' = given + n
    /\ answer' = "none" /\ UNCHANGED <<read, server>>

MayRetry == c.arpWait \/ c.retries < MaxRetries

\* tick() after the timeout: again, counted only if the last try has left.
Retransmit ==
    /\ ~c.failed /\ Waiting(c)
    /\ MayRetry
    /\ \E known \in BOOLEAN :
        /\ c' = [Announces(c) EXCEPT !.retries = IF c.arpWait THEN @ ELSE @ + 1, !.arpWait = ~known]
        /\ wire' = IF known /\ c.state # "SYN_SENT" THEN wire \cup {Segment(c)} ELSE wire
    /\ answer' = "none" /\ UNCHANGED <<given, read, server>>

\* No answer, or no ARP answer for ARP_GIVE_UP_MS.
GiveUp ==
    /\ ~c.failed /\ Waiting(c)
    /\ c.arpWait \/ c.retries = MaxRetries
    /\ c' = IF c.state = "FIN_WAIT" THEN Free ELSE [c EXCEPT !.failed = TRUE]
    /\ answer' = "none" /\ UNCHANGED <<given, read, wire, server>>

-----------------------------------------------------------------------------
(* onTcp().                                                                 *)

\* SYN-ACK.
Accepted ==
    /\ c.state = "SYN_SENT" /\ ~c.failed
    /\ Becomes(Announces([c EXCEPT !.state = "ESTABLISHED", !.arpWait = FALSE]))
    /\ answer' = "ack" /\ UNCHANGED <<given, read, server>>

\* The server still has an old connection on the ports: a reset clears it.
StaleAck ==
    /\ c.state = "SYN_SENT"
    /\ answer' = "rst" /\ UNCHANGED <<c, given, read, wire, server>>

Reset ==
    /\ c.state # "FREE"
    /\ c' = IF c.state = "FIN_WAIT" THEN Free ELSE [c EXCEPT !.failed = TRUE]
    /\ answer' = "none" /\ UNCHANGED <<given, read, wire, server>>

\* Faulty variant: the bytes acknowledged stay at the front of the buffer.
ReleasedInPlace(d, n) ==
    [d EXCEPT !.tx = SubSeq(@, 1, Len(@) - n), !.inflight = @ - n, !.una = @ + n, !.retries = 0]

\* n bytes in flight are acknowledged.
Released(d, n) ==
    [d EXCEPT !.tx = SubSeq(@, n + 1, Len(@)), !.inflight = @ - n, !.una = @ + n, !.retries = 0]

\* The connection after an acknowledgment of everything up to byte k, the FIN
\* being number una + 1 when it is in flight.
AckedTo(k) ==
    IF c.fin = "sent" THEN (IF k = c.una + 1 THEN [c EXCEPT !.fin = "acked", !.una = k] ELSE c)
    ELSE IF k \in c.una + 1 .. c.una + c.inflight THEN Released(c, k - c.una) ELSE c

Skip(first) == c.rcv + 1 - first

Taken(first, last, room) == Min({last - c.rcv, room})

\* What of the segment first .. last goes to the ring, and the FIN after it.
Received(d, first, last, fin) ==
    LET wanted == ~d.peerFin /\ d.state # "FIN_WAIT" /\ first <= d.rcv + 1 /\ last > d.rcv
        n      == Taken(first, last, RxCap - Len(d.rx))
        data   == SubSeq(Bytes(first, last), Skip(first) + 1, Skip(first) + n)
        e      == IF wanted THEN [d EXCEPT !.rx = @ \o SubSeq(data, 1, Min({n, RxCap - Len(d.rx)})), !.rcv = @ + n] ELSE d
    IN  IF fin /\ last = e.rcv
        THEN [e EXCEPT !.rcv = @ + 1, !.peerFin = TRUE, !.state = IF @ = "ESTABLISHED" THEN "CLOSE_WAIT" ELSE @]
        ELSE e

\* Whether a segment is answered: data this side still wants, repeated or ahead of
\* a gap, and a FIN in order or ahead.
Answered(first, last, fin) ==
    \/ last >= first /\ ~c.peerFin /\ c.state # "FIN_WAIT"
    \/ fin /\ last >= c.rcv

\* A segment of the server's stream with an acknowledgment.  The slot is free when
\* both sides have finished.
Arrives(first, last, fin, k) ==
    /\ c.state \in Open
    /\ LET d == Received(AckedTo(k), first, last, fin)
           s == IF Answered(first, last, fin) THEN Announces(d) ELSE d
       IN  IF d.state = "FIN_WAIT" /\ d.fin = "acked" /\ d.peerFin
           THEN c' = Free /\ UNCHANGED wire
           ELSE Becomes(s)
    /\ answer' = IF Answered(first, last, fin) THEN "ack" ELSE IF last >= first THEN "silent" ELSE "none"
    /\ UNCHANGED <<given, read, server>>

-----------------------------------------------------------------------------
(* recv() and close().                                                      *)

Reopens(d) == Window(d) >= d.adv + Mss

Recv(n) ==
    /\ n \in 1 .. Len(c.rx)
    /\ LET d == [c EXCEPT !.rx = SubSeq(@, n + 1, Len(@))] IN
       /\ c' = IF ~c.failed /\ c.state = "ESTABLISHED" /\ Reopens(d) THEN Announces(d) ELSE d
       /\ answer' = IF c' # d THEN "ack" ELSE "none"
    /\ read' = read + n
    /\ UNCHANGED <<given, wire, server>>

Close ==
    /\ c.state \notin {"FREE", "FIN_WAIT"}
    /\ IF c.failed \/ c.state = "SYN_SENT"
       THEN c' = Free /\ UNCHANGED wire
       ELSE Becomes([c EXCEPT !.state = "FIN_WAIT", !.fin = "queued", !.rx = <<>>])
    /\ answer' = IF c.failed \/ c.state # "SYN_SENT" THEN "none" ELSE "rst"
    /\ UNCHANGED <<given, read, server>>

\* FIN_WAIT_MS after close().
Expire ==
    /\ c.state = "FIN_WAIT"
    /\ c' = Free /\ answer' = "none"
    /\ UNCHANGED <<given, read, wire, server>>

-----------------------------------------------------------------------------
(* The server.                                                              *)

\* It takes what is in order, all or a part, of any segment ever sent.
Takes(s) ==
    LET have == Len(server.got)
        new  == SubSeq(s.data, have + 2 - s.first, Len(s.data))
    IN  /\ s \in wire /\ s.first <= have + 1 /\ ~server.fin
        /\ \E n \in 0 .. Len(new) :
            server' = [got |-> server.got \o SubSeq(new, 1, n),
                       fin |-> s.fin /\ n = Len(new) /\ s.first + Len(s.data) = have + n + 1]
        /\ answer' = "none" /\ UNCHANGED <<c, given, read, wire>>

\* Any piece of its stream, with an acknowledgment of up to what it has.
Sends == \E first \in 1 .. FinNumber, last \in 0 .. Reply, fin \in BOOLEAN,
            k \in 0 .. Len(server.got) + (IF server.fin THEN 1 ELSE 0) :
            /\ last >= first - 1 /\ last - first < Mss /\ (fin => last = Reply)
            /\ Arrives(first, last, fin, k)

Next == \/ \E n \in 1 .. Request : Send(n)
        \/ Retransmit \/ GiveUp \/ Accepted \/ StaleAck \/ Reset
        \/ Sends
        \/ \E n \in 1 .. RxCap : Recv(n)
        \/ Close \/ Expire
        \/ \E s \in wire : Takes(s)

-----------------------------------------------------------------------------
\* What the server has is what send() accepted, in order and without holes, through
\* partial acknowledgments, retransmissions and late copies.
ServerGetsRequest == server.got = Bytes(1, Len(server.got)) /\ Len(server.got) <= given

\* The server sees the end of the request only after all of it.
FinComesLast == server.fin => Len(server.got) = given

\* What the loader reads is the server's stream: the ring continues where it has read.
ReplyIntact == c.state \in {"ESTABLISHED", "CLOSE_WAIT"} => c.rx = Bytes(read + 1, read + Len(c.rx))

\* The end of the reply is reported when all of it is in the ring or read.
EndIsEnd == c.state = "CLOSE_WAIT" => read + Len(c.rx) = Reply

\* With everything read, the peer has been told of a window it can send into: the
\* window it knows is less than a segment short of all.
WindowReopened == c.state = "ESTABLISHED" /\ ~c.failed /\ c.rx = <<>> => c.adv + Mss > RxWindow
=============================================================================

------------------------------ MODULE R2NetTcp ------------------------------
(***************************************************************************)
(* The client TCP of go/r2net: Dial, Write, Read and Close with the segment *)
(* handler of tcp.go and the reorder queue of tcp_receive.go, against a     *)
(* peer behind a network that loses, duplicates and reorders.               *)
(*                                                                         *)
(* The peer sends the bytes 1 .. Supply and a FIN, in any pieces, as often  *)
(* as it likes and inside the window or not; the client writes Demand       *)
(* segments of one byte, one at a time.  A sequence number is counted from  *)
(* the initial one, modulo SeqMod.                                          *)
(***************************************************************************)
EXTENDS Integers, Sequences, FiniteSets, FiniteSetsExt

CONSTANTS Supply, Demand,
          RxCap,       \* rxCap: unread bytes a connection holds
          QueueLen,    \* segments of the reorder queue (16)
          MaxRetries,  \* maxRetries (5)
          SeqMod,      \* 2^32
          Isn, PeerIsn \* initial sequence numbers

VARIABLES state, err,           \* Conn
          snd, sndUna, rcv,
          pending, pendFlags, pendSeq, retries,
          rx, reorder, peerFIN,
          delivered,            \* what Read has returned so far
          written,              \* segments Write has been asked for and has sent
          call,                 \* the call the program is in
          out,                  \* our segments under way
          pstale, pgot, pfin    \* peer: old connection, bytes taken, our FIN taken

connVars == <<state, err, snd, sndUna, rcv, pending, pendFlags, pendSeq, retries,
              rx, reorder, peerFIN>>
peerVars == <<pstale, pgot, pfin>>
vars == <<connVars, delivered, written, call, out, peerVars>>

Seqno(n) == n % SeqMod
Ahead(a, b) == LET d == (a - b) % SeqMod IN IF d < SeqMod \div 2 THEN d ELSE d - SeqMod
SeqLess(a, b) == Ahead(a, b) < 0

-----------------------------------------------------------------------------
(* The receive buffer.                                                      *)

Empty == [seq |-> 0, data |-> <<>>]

\* Faulty variant: the whole of an overlapping segment is taken.
TcpPayloadWhole(expected, seq, data, space) ==
    IF Ahead(seq, expected) > 0 \/ Ahead(expected, seq) >= Len(data) THEN <<>>
    ELSE SubSeq(data, 1, Min({Len(data), Max({space, 0})}))

\* tcpPayload(): the new suffix of a segment, as far as there is space.
TcpPayload(expected, seq, data, space) ==
    LET overlap == Ahead(expected, seq)
    IN  IF overlap < 0 THEN <<>>
        ELSE SubSeq(data, overlap + 1, Min({Len(data), overlap + Max({space, 0})}))

QueueBytes(q) == FoldSet(LAMBDA i, n : n + Len(q[i].data), 0, 1 .. QueueLen)

ReceiveWindow == RxCap - Len(rx) - QueueBytes(reorder)

\* How far ahead of rcv the queue may reach.
QueueWindow == RxCap - Len(rx)

\* tcpReorder.store(): a segment behind a gap is kept if it lies in the window,
\* overlaps no other and a place is free.
Store(seq, data) ==
    LET distance == Ahead(seq, rcv)
        window   == QueueWindow
        kept     == SubSeq(data, 1, Min({Len(data), window - distance}))
        free     == {i \in 1 .. QueueLen : reorder[i].data = <<>>}
        clash    == \E i \in (1 .. QueueLen) \ free :
                       LET start == Ahead(reorder[i].seq, rcv)
                       IN  /\ distance < start + Len(reorder[i].data)
                           /\ start < distance + Len(kept)
    IN  IF \/ distance >= window \/ kept = <<>> \/ Len(kept) > window - QueueBytes(reorder)
           \/ clash \/ free = {}
        THEN reorder
        ELSE [reorder EXCEPT ![Max(free)] = [seq |-> seq, data |-> kept]]

\* tcpReorder.take(), until nothing more is due: the buffer, the next sequence
\* number and the queue after `data' was appended.
Drain(data) ==
    LET f[n \in 0 .. QueueLen] ==
            IF n = 0 THEN [rx |-> rx \o data, rcv |-> Seqno(rcv + Len(data)), queue |-> reorder]
            ELSE LET g   == f[n - 1]
                     due == {i \in 1 .. QueueLen :
                                g.queue[i].data # <<>> /\ Ahead(g.queue[i].seq, g.rcv) <= 0}
                 IN  IF due = {} THEN g
                     ELSE LET s   == g.queue[Min(due)]
                              new == TcpPayload(g.rcv, s.seq, s.data, Len(s.data))
                          IN  [rx |-> g.rx \o new, rcv |-> Seqno(g.rcv + Len(new)),
                               queue |-> [g.queue EXCEPT ![Min(due)] = Empty]]
    IN  f[QueueLen]

-----------------------------------------------------------------------------
(* Sending.                                                                 *)

Outgoing(flags, seq, data) == [flags |-> flags, seq |-> seq, data |-> data]

\* transmit(): send one segment and remember it, when it takes sequence space.
Transmit(flags, data) ==
    /\ out' = out \cup {Outgoing(flags, snd, data)}
    /\ snd' = Seqno(snd + Len(data) + IF flags \in {"SYN", "FIN"} THEN 1 ELSE 0)
    /\ pending' = data
    /\ pendFlags' = flags
    /\ pendSeq' = snd
    /\ retries' = 0

Outstanding == pending # <<>> \/ pendFlags # "none"

MayRetry == retries < MaxRetries

\* tick(): send the outstanding segment again, or give up.
Retransmit ==
    /\ Outstanding /\ state # "Closed" /\ MayRetry
    /\ retries' = retries + 1
    /\ out' = out \cup {Outgoing(pendFlags, pendSeq, pending)}
    /\ UNCHANGED <<state, err, snd, sndUna, rcv, pending, pendFlags, pendSeq, rx, reorder, peerFIN,
                   delivered, written, call, peerVars>>

GiveUp ==
    /\ Outstanding /\ state # "Closed" /\ ~MayRetry
    /\ err' = "timeout"
    /\ state' = "Closed"
    /\ pending' = <<>>
    /\ UNCHANGED <<snd, sndUna, rcv, pendFlags, pendSeq, retries, rx, reorder, peerFIN,
                   delivered, written, call, out, peerVars>>

-----------------------------------------------------------------------------
(* onSegment().                                                             *)

\* onAck(): the outstanding segment is released when all of it is acknowledged.
Releases(ack) ==
    /\ ~SeqLess(snd, ack)
    /\ ~SeqLess(ack, Seqno(pendSeq + Len(pending) + IF pendFlags \in {"SYN", "FIN"} THEN 1 ELSE 0))

OnAck(ack) ==
    /\ sndUna' = IF SeqLess(snd, ack) \/ ~SeqLess(sndUna, ack) THEN sndUna ELSE ack
    /\ IF Outstanding /\ Releases(ack)
       THEN pending' = <<>> /\ pendFlags' = "none"
       ELSE UNCHANGED <<pending, pendFlags>>
    /\ UNCHANGED <<snd, pendSeq, retries>>

\* onFIN(): acknowledged only behind everything the peer has sent.
FinDue(seq, data, next) == Seqno(seq + Len(data)) = next

\* onAck(), onData() and onFIN() in a row; a closing connection that has the
\* peer's FIN and holds no data of its own is closed.
OnOpen(ack, seq, data, fin) ==
    /\ state \in {"Established", "CloseWait", "FinWait"}
    /\ OnAck(ack)
    /\ LET fresh == TcpPayload(rcv, seq, data, ReceiveWindow)
           after == IF data = <<>> \/ fresh = <<>>
                    THEN [rx |-> rx, rcv |-> rcv,
                          queue |-> IF Ahead(seq, rcv) > 0 /\ data # <<>> THEN Store(seq, data) ELSE reorder]
                    ELSE Drain(fresh)
           ends  == fin /\ FinDue(seq, data, after.rcv)
       IN  /\ rx' = after.rx
           /\ reorder' = after.queue
           /\ rcv' = IF ends THEN Seqno(after.rcv + 1) ELSE after.rcv
           /\ peerFIN' = (peerFIN \/ ends)
           /\ state' = IF state = "FinWait" /\ pending' = <<>> /\ peerFIN' THEN "Closed"
                       ELSE IF state = "Established" /\ ends THEN "CloseWait" ELSE state
    /\ UNCHANGED <<err, out>>

\* SYN-SENT: what acknowledges another connection is answered with a reset, and
\* SYN-ACK opens the connection.
OnSynSent(flags, ack) ==
    /\ state = "SynSent"
    /\ IF ack # snd
       THEN out' = out \cup {Outgoing("RST", ack, <<>>)} /\ UNCHANGED connVars
       ELSE /\ flags = "SYNACK"
            /\ rcv' = Seqno(PeerIsn + 1)
            /\ sndUna' = ack
            /\ pending' = <<>>
            /\ pendFlags' = "none"
            /\ state' = "Established"
            /\ UNCHANGED <<err, snd, pendSeq, retries, rx, reorder, peerFIN, out>>

OnReset ==
    /\ state \notin {"Closed", "idle"}
    /\ err' = IF state = "SynSent" THEN "refused" ELSE "reset"
    /\ state' = "Closed"
    /\ pending' = <<>>
    /\ UNCHANGED <<snd, sndUna, rcv, pendFlags, pendSeq, retries, rx, reorder, peerFIN>>

-----------------------------------------------------------------------------
(* The peer.                                                                *)

PeerAck == Seqno(Isn + 1 + pgot + IF pfin THEN 1 ELSE 0)

\* Any piece of what it has to send, with any acknowledgment it has ever given.
PeerSends ==
    /\ ~pstale /\ pgot >= 0
    /\ \E a \in 0 .. pgot + (IF pfin THEN 1 ELSE 0), from \in 1 .. Supply + 1 :
          \E n \in 0 .. Supply + 1 - from, fin \in BOOLEAN :
             /\ fin => from + n = Supply + 1
             /\ OnOpen(Seqno(Isn + 1 + a), Seqno(PeerIsn + from), [i \in 1 .. n |-> from + i - 1], fin)
    /\ UNCHANGED <<delivered, written, call, peerVars>>

\* It answers a SYN: with SYN-ACK, or with an old acknowledgment from a
\* connection it still remembers on this tuple.
PeerAccepts ==
    /\ \/ ~pstale /\ pgot >= 0 /\ OnSynSent("SYNACK", PeerAck)
       \/ pstale /\ OnSynSent("ACK", Seqno(Isn + SeqMod \div 2))
    /\ UNCHANGED <<delivered, written, call, peerVars>>

PeerTakes(s) ==
    /\ s \in out
    /\ out' \in {out, out \ {s}}
    /\ pstale' = (pstale /\ s.flags # "RST")
    /\ pgot' = IF s.flags = "SYN" /\ ~pstale /\ pgot < 0 THEN 0
               ELSE IF s.flags = "ACK" /\ s.seq = PeerAck /\ ~pfin THEN pgot + Len(s.data) ELSE pgot
    /\ pfin' = (pfin \/ (s.flags = "FIN" /\ pgot >= 0 /\ s.seq = PeerAck))
    /\ UNCHANGED <<connVars, delivered, written, call>>

Loses(s) == s \in out /\ out' = out \ {s} /\ UNCHANGED <<connVars, delivered, written, call, peerVars>>

PeerResets == OnReset /\ UNCHANGED <<delivered, written, call, out, peerVars>>

-----------------------------------------------------------------------------
(* The program's calls.                                                     *)

\* drop().
Dropped ==
    /\ state' = "Closed"
    /\ pending' = <<>> /\ pendFlags' = "none"
    /\ rx' = <<>> /\ reorder' = [i \in 1 .. QueueLen |-> Empty]
    /\ UNCHANGED <<err, snd, sndUna, rcv, pendSeq, retries, peerFIN>>

Dial ==
    /\ call = "start"
    /\ call' = "dial"
    /\ state' = "SynSent"
    /\ Transmit("SYN", <<>>)
    /\ UNCHANGED <<err, sndUna, rcv, rx, reorder, peerFIN, delivered, written, peerVars>>

\* Dial returns: connected, or dropped because it failed or took too long.
DialReturns ==
    /\ call = "dial"
    /\ \/ state = "Established" /\ call' = "open" /\ UNCHANGED connVars
       \/ state = "CloseWait" /\ call' = "open" /\ UNCHANGED connVars
       \/ state \in {"SynSent", "Closed"} /\ Dropped /\ call' = "failed"
    /\ UNCHANGED <<delivered, written, out, peerVars>>

Usable == err = "none" /\ state \in {"Established", "CloseWait"}

\* Write: stop and wait, one segment after the other; the call returns when the
\* last one is acknowledged.
Write ==
    /\ call \in {"open", "write"} /\ Usable /\ pending = <<>> /\ written < Demand
    /\ call' = "write"
    /\ written' = written + 1
    /\ Transmit("ACK", <<written + 1>>)
    /\ UNCHANGED <<state, err, sndUna, rcv, rx, reorder, peerFIN, delivered, peerVars>>

\* Success; failure, because the connection is closed; or the deadline.
WriteReturns ==
    /\ call = "write"
    /\ \/ pending = <<>> /\ Usable /\ call' = "open"
       \/ call' = "failed"
    /\ UNCHANGED <<connVars, delivered, written, out, peerVars>>

Read ==
    /\ call = "open" /\ rx # <<>>
    /\ \E n \in 1 .. Len(rx) :
          /\ delivered' = delivered \o SubSeq(rx, 1, n)
          /\ rx' = SubSeq(rx, n + 1, Len(rx))
    /\ UNCHANGED <<state, err, snd, sndUna, rcv, pending, pendFlags, pendSeq, retries, reorder, peerFIN,
                   written, call, out, peerVars>>

\* Close: a FIN in place of whatever is outstanding, then a short wait.
Close ==
    /\ call \in {"open", "failed"} /\ state \in {"Established", "CloseWait"}
    /\ call' = "close"
    /\ state' = "FinWait"
    /\ Transmit("FIN", <<>>)
    /\ UNCHANGED <<err, sndUna, rcv, rx, reorder, peerFIN, delivered, written, peerVars>>

\* The wait is over, with the connection closed or not; or there was none.
CloseReturns ==
    /\ call = "close" \/ (call \in {"open", "failed"} /\ state = "Closed")
    /\ Dropped
    /\ call' = "done"
    /\ UNCHANGED <<delivered, written, out, peerVars>>

Init ==
    /\ state = "idle" /\ err = "none"
    /\ snd = Isn /\ sndUna = Isn /\ rcv = 0
    /\ pending = <<>> /\ pendFlags = "none" /\ pendSeq = 0 /\ retries = 0
    /\ rx = <<>> /\ reorder = [i \in 1 .. QueueLen |-> Empty] /\ peerFIN = FALSE
    /\ delivered = <<>> /\ written = 0 /\ call = "start" /\ out = {}
    /\ pstale \in BOOLEAN /\ pgot = -1 /\ pfin = FALSE

Next ==
    \/ Dial \/ DialReturns \/ Write \/ WriteReturns \/ Read \/ Close \/ CloseReturns
    \/ Retransmit \/ GiveUp
    \/ PeerSends \/ PeerAccepts \/ PeerResets
    \/ \E s \in out : PeerTakes(s) \/ Loses(s)

-----------------------------------------------------------------------------
(* Properties.                                                              *)

\* What Read returns and what waits to be read is the peer's stream from its
\* first byte on, each byte once, in whatever pieces and order it arrived.
StreamIntact == \A i \in DOMAIN (delivered \o rx) : (delivered \o rx)[i] = i

\* The window holds: buffer and queue together never exceed it, and while a
\* segment waits behind a gap there is room for the bytes that close it.
GapFits ==
    /\ ReceiveWindow >= 0
    /\ \A i \in 1 .. QueueLen : (reorder[i].data # <<>> /\ state # "Closed") =>
          /\ Ahead(reorder[i].seq, rcv) > 0
          /\ ReceiveWindow > 0

\* The end of the stream is reported only when all of it has been taken.
EndIsEnd == peerFIN => rcv = Seqno(PeerIsn + Supply + 2)

\* A Write that has succeeded is in the peer's hands.
WriteConfirmed == call = "open" => pgot = written

\* Received bytes that are right do not tell states apart.
View == <<state, err, snd, sndUna, rcv, pending, pendFlags, pendSeq, retries, Len(rx), reorder,
          peerFIN, Len(delivered), StreamIntact, written, call, out, peerVars>>
=============================================================================

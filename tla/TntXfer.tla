------------------------------- MODULE TntXfer -------------------------------
(* The transfers of tnt, src/c/tnt/xfer.c: `get` sends a file over a          *)
(* connection of its own, `read` a text over the session.  The stream is the  *)
(* bytes of an HTTP header, if any, and the file.  The network loses, repeats *)
(* and reorders: what was ever put on the wire may arrive at any time, or     *)
(* never.  Clocks are left open: a timer may run out whenever it is looked at.*)
EXTENDS Integers, Sequences, SequencesExt

CONSTANTS Seg,           \* SEG
          CwndMax,       \* CWND_MAX
          CacheCap,      \* CACHE_CAP
          HeadLen,       \* bytes of an HTTP header
          Lengths,       \* how long files are
          Windows,       \* what a client advertises, in two digits
          Base,          \* values of a digit: 256 of a byte
          FinTries       \* FIN_TRIES

VARIABLES job,           \* what is sent, and what the client is
          at,            \* where the code is
          s,             \* the locals of send_stream() and what `peer` keeps
          conn,          \* the connection: whether used, and what was taken of the client's bytes
          wire,          \* the segments sent
          client         \* what it holds, what it acknowledged, whether it is done sending

vars == <<job, at, s, conn, wire, client>>

Unknown == -1
Smaller(a, b) == IF a < b THEN a ELSE b
Larger(a, b) == IF a > b THEN a ELSE b

-----------------------------------------------------------------------------
(* The stream.  Byte f of the file is f, byte i of the header -i - 1.        *)

FileBytes == [f \in 1 .. job.file |-> f - 1]
HeadBytes(len) == [i \in 1 .. len |-> -i]

\* Faulty variant: the block is only looked at from its start.
HitFrom(c, f) == c.valid /\ f >= c.off

\* Whether byte f of the file is in the cache.
Hit(c, f) == c.valid /\ f >= c.off /\ f < c.off + Len(c.data)

Load(f) ==
    LET off == f - (f % CacheCap)
    IN  [valid |-> TRUE, off |-> off,
         data |-> SubSeq(FileBytes, off + 1, Smaller(off + CacheCap, job.file))]

\* A pass of the loop of stream_copy(): what one block has.
CopyBlock(r) ==
    LET d == IF Hit(r.cache, r.f) THEN r.cache ELSE Load(r.f)
        k == Smaller(d.off + Len(d.data) - r.f, r.left)
    IN  IF r.left = 0 THEN r
        ELSE IF k <= 0 THEN [r EXCEPT !.cache = d, !.loads = TRUE]
        ELSE [cache |-> d, f |-> r.f + k, left |-> r.left - k, loads |-> r.loads \/ ~Hit(r.cache, r.f),
              bytes |-> r.bytes \o SubSeq(d.data, r.f - d.off + 1, r.f - d.off + k)]

\* stream_copy(): up to len bytes of the stream, fewer at the end.
StreamCopy(cache, head, off, len) ==
    LET h == SubSeq(HeadBytes(head), off + 1, Smaller(off + len, head))
        start == [cache |-> cache, f |-> off + Len(h) - head, left |-> len - Len(h),
                  loads |-> FALSE, bytes |-> h]
        pass[n \in 0 .. Seg] == IF n = 0 THEN start ELSE CopyBlock(pass[n - 1])
        mem == SubSeq(FileBytes, start.f + 1, Smaller(start.f + start.left, job.file))
    IN  IF job.keep THEN [start EXCEPT !.bytes = @ \o mem] ELSE pass[Seg]

-----------------------------------------------------------------------------
(* What arrives.                                                             *)

\* swap16(); parse_tcp_packet() has put the window in order before pump() swaps it.
Swap(w) == (w % Base) * Base + (w \div Base)

Nothing == [k |-> "none"]
\* The client's request is a byte of its own stream, and its FIN comes behind it.
Said == IF client.says = "none" THEN 0 ELSE 1
Packets ==
    {Nothing} \cup [k : {"ack"}, ack : client.acks, win : Windows]
    \cup {[k |-> "data", fin |-> fin] : fin \in IF Said = 0 THEN {} ELSE {FALSE, client.done}}
    \cup (IF client.done THEN {[k |-> "fin", fin |-> TRUE]} ELSE {})
    \cup (IF client.gone THEN {[k |-> "rst", fin |-> FALSE]} ELSE {})

\* pump(): an ACK that the sender counts.
Counted(p) ==
    LET t == [s EXCEPT !.window = Swap(p.win), !.told = p.win, !.progress = FALSE]
    IN  IF p.k # "ack" THEN [s EXCEPT !.progress = FALSE]
        ELSE IF p.ack > s.acked /\ p.ack <= s.hi
             THEN [t EXCEPT !.acked = p.ack, !.dup = 0, !.progress = TRUE]
        ELSE IF p.ack = s.acked THEN [t EXCEPT !.dup = Smaller(@ + 1, 3)]
        ELSE t

\* Faulty variant: the TCP layer sees the FIN, and frees a socket with nothing unread.
OwnFinFrees(c) == [c EXCEPT !.used = c.rx > 0, !.ack = @ + 1]

\* The client's FIN behind all it has said: it still listens.
OwnFin(c) == [c EXCEPT !.ack = @ + 1, !.fin = TRUE]

\* The connection after pump().
Pumped(p) ==
    LET took == IF p.k = "data" /\ conn.ack = 0 THEN [conn EXCEPT !.ack = 1, !.rx = 1] ELSE conn
    IN  IF p.k = "rst" THEN [conn EXCEPT !.used = FALSE]
        ELSE IF p.k \in {"none", "ack"} \/ ~p.fin THEN took
        ELSE IF at = "fin" THEN [took EXCEPT !.used = FALSE]     \* FIN_WAIT: both have closed
        ELSE IF took.ack = Said THEN OwnFin(took)
        ELSE took

-----------------------------------------------------------------------------
(* send_stream().                                                            *)

\* The window: what the client advertises and the congestion window allows.
Limit(t) == Smaller(t.cwnd * Seg, t.window)
Want(t) == IF t.total # Unknown THEN Smaller(Seg, t.total - t.next) ELSE Seg

\* Faulty variant: nothing goes while the window is closed.
MayGoInside(t) == t.next - t.acked + Want(t) <= Limit(t)

\* One segment may always go when none is out: the probe of a closed window.
MayGo(t) == t.next = t.acked \/ t.next - t.acked + Want(t) <= Limit(t)

\* Faulty variant: what is sent again is folded in again.
SkipNone(t) == 0

\* The bytes of a segment that the CRC has already.
Skip(t) == IF t.next > t.crcOff + t.head THEN 0 ELSE t.crcOff + t.head - t.next

Sent(t, c) ==
    LET len == Len(c.bytes)
        end == t.next + len
        new == end > t.head /\ end - t.head > t.crcOff
    IN  IF t.fails /\ c.loads THEN [t EXCEPT !.stop = TRUE, !.error = TRUE]
        ELSE [t EXCEPT !.total = IF len < Want(t) THEN end ELSE @,
                       !.stop = len = 0,
                       !.cache = c.cache,
                       !.crc = IF new THEN @ \o SubSeq(c.bytes, Skip(t) + 1, len) ELSE @,
                       !.crcOff = IF new THEN end - t.head ELSE @,
                       !.out = IF len > 0 THEN @ \cup {[off |-> t.next, bytes |-> c.bytes]} ELSE @,
                       !.beyond = @ \/ (t.next > t.acked /\ end > t.acked + t.told),
                       !.seq = IF len > 0 THEN end ELSE @,
                       !.next = end,
                       !.hi = Larger(@, end)]

\* One pass of the loop that sends, and the loop.
SendOne(t) ==
    IF t.stop \/ (t.total # Unknown /\ t.next >= t.total) \/ ~MayGo(t) THEN [t EXCEPT !.stop = TRUE]
    ELSE Sent(t, StreamCopy(t.cache, t.head, t.next, Want(t)))
SendAll(t) ==
    LET pass[n \in 0 .. CwndMax + 2] == IF n = 0 THEN t ELSE SendOne(pass[n - 1])
    IN  pass[CwndMax + 2]

\* Faulty variant: the stream ends where the next segment would begin.
CutAtNext(t) == t.next

\* Where a stream ends that a key stops: behind all that is out, even if it goes out again.
CutAt(t) == Larger(t.hi, t.next)

AfterKey(t, key) == IF key THEN [t EXCEPT !.total = CutAt(t), !.status = "CANCELLED"] ELSE t
AfterProgress(t) ==
    IF t.progress
    THEN [t EXCEPT !.recovering = FALSE, !.cwnd = Smaller(@ + 1, CwndMax), !.next = Larger(@, t.acked)]
    ELSE t
AfterLoss(t, late) ==
    IF t.next > t.acked /\ late THEN [t EXCEPT !.next = t.acked, !.cwnd = 1, !.recovering = TRUE]
    ELSE IF t.dup >= 3 /\ ~t.recovering
         THEN [t EXCEPT !.next = t.acked, !.cwnd = Larger(@ \div 2, 1), !.recovering = TRUE, !.dup = 0]
    ELSE t
Complete(t) == t.total # Unknown /\ t.acked >= t.total

Ended(status, c) == at' = "over" /\ s' = [s EXCEPT !.status = status] /\ conn' = c /\ UNCHANGED wire
Aborted(c) == [c EXCEPT !.used = FALSE]     \* abort_conn()

\* The stream is through: the session goes on behind it, or the connection is closed
\* with a FIN where the last write ended.
Through(t, c) ==
    /\ s' = [t EXCEPT !.bytes = t.total - t.head, !.out = {}, !.seq = IF job.keep THEN t.total ELSE @,
                      !.hi = IF job.keep THEN @ ELSE t.total + 1, !.tries = 0]
    /\ wire' = wire \cup t.out \cup (IF job.keep THEN {} ELSE {[off |-> t.seq, bytes |-> <<>>]})
    /\ at' = (IF job.keep THEN "over" ELSE "fin") /\ conn' = c

\* What is left of a turn once the packet and the key are dealt with.
Rest(t, c, late, stalled, fails) ==
    LET u == SendAll([AfterLoss(t, late) EXCEPT !.stop = FALSE, !.fails = fails, !.out = {}])
    IN  \/ Complete(t) /\ Through(t, c)
        \/ ~Complete(t) /\ stalled /\ Ended("STALLED", Aborted(c))
        \/ /\ ~Complete(t) /\ ~stalled
           /\ \E v \in {u} :
                 \/ /\ v.error /\ at' = "over" /\ s' = [s EXCEPT !.status = "READ_ERROR"]
                    /\ conn' = Aborted(c) /\ wire' = wire \cup v.out
                 \/ ~v.error /\ Complete(v) /\ Through(v, c)
                 \/ /\ ~v.error /\ ~Complete(v)
                    /\ s' = [v EXCEPT !.out = {}, !.stop = FALSE, !.fails = FALSE]
                    /\ wire' = wire \cup v.out /\ conn' = c /\ at' = at

\* A turn of the loop: a packet or none, with the clock and the session as they may be.
Turn(p, late, key, stalled, fails) ==
    LET c == Pumped(p)
        stop == key /\ s.status = "OK"
    IN  /\ at = "send" /\ UNCHANGED <<job, client>>
        /\ \/ ~c.used /\ Ended("RESET", c)
           \/ c.used /\ stop /\ ~job.keep /\ Ended("CANCELLED", Aborted(c))
           \/ /\ c.used /\ (stop => job.keep)
              /\ \E t \in {AfterProgress(AfterKey(Counted(p), stop))} : Rest(t, c, late, stalled, fails)

\* The loop that waits for the FIN to be acknowledged.
FinTurn(p, late) ==
    LET c == Pumped(p)
        t == Counted(p)
        done == t.acked = t.total + 1
    IN  /\ at = "fin" /\ UNCHANGED <<job, client>>
        /\ \/ /\ ~c.used \/ done \/ s.tries = FinTries
              /\ at' = "over" /\ s' = t /\ UNCHANGED wire
              /\ conn' = [c EXCEPT !.used = @ /\ ~(done /\ c.fin)]
           \/ /\ c.used /\ ~done /\ s.tries < FinTries /\ at' = at /\ conn' = c
              /\ IF late THEN /\ s' = [t EXCEPT !.tries = @ + 1, !.seq = t.total]
                              /\ wire' = wire \cup {[off |-> t.total, bytes |-> <<>>]}
                 ELSE s' = t /\ UNCHANGED wire

-----------------------------------------------------------------------------
(* xfer_send() and xfer_send_buffer().                                       *)

NoCache == [valid |-> FALSE, off |-> 0, data |-> <<>>]
Fresh(head, size) ==
    [head |-> head, total |-> IF size = Unknown THEN Unknown ELSE head + size,
     next |-> 0, acked |-> 0, hi |-> 0, dup |-> 0, cwnd |-> 2,
     window |-> Seg, told |-> Seg, recovering |-> FALSE, progress |-> FALSE,
     crc |-> <<>>, crcOff |-> 0, cache |-> NoCache,
     stop |-> FALSE, fails |-> FALSE, error |-> FALSE, out |-> {}, beyond |-> FALSE,
     seq |-> 0, tries |-> 0, bytes |-> 0, status |-> "OK"]

Init ==
    \E file \in Lengths, keep \in BOOLEAN, says \in {"none", "GET", "other"} :
        \E size \in IF keep THEN {file} ELSE {file - 1, file, file + 1, Unknown} :
            /\ job = [file |-> file, keep |-> keep, size |-> size]
            /\ at = IF keep THEN "send" ELSE "wait"
            /\ s = Fresh(0, size)
            /\ conn = [used |-> keep, ack |-> 0, rx |-> 0, fin |-> FALSE]
            /\ wire = {}
            /\ client = [says |-> IF keep THEN "none" ELSE says, got |-> <<>>, acks |-> {0},
                         fin |-> FALSE, done |-> FALSE, gone |-> FALSE]

\* The wait for a client: one comes, a key is typed, or the time is up.
Wait(what) ==
    /\ at = "wait" /\ UNCHANGED <<job, client, wire>>
    /\ \/ what = "client" /\ at' = "sniff" /\ conn' = [conn EXCEPT !.used = TRUE] /\ UNCHANGED s
       \/ /\ what \in {"CANCELLED", "NO_CLIENT"}
          /\ at' = "over" /\ s' = [s EXCEPT !.status = what] /\ UNCHANGED conn

\* HTTP or raw: a turn of the wait for a request, which ends with one or with the time.
Sniff(p, key, ends) ==
    LET c == Pumped(p)
        http == c.rx > 0 /\ client.says = "GET"
    IN  /\ at = "sniff" /\ UNCHANGED <<job, client>>
        /\ \/ ~c.used /\ Ended("RESET", c)
           \/ c.used /\ key /\ Ended("CANCELLED", Aborted(c))
           \/ c.used /\ ~key /\ ~ends /\ conn' = c /\ UNCHANGED <<at, s, wire>>
           \/ /\ c.used /\ ~key /\ ends
              /\ at' = "send" /\ conn' = [c EXCEPT !.rx = 0]
              /\ s' = Fresh(IF http THEN HeadLen ELSE 0, job.size) /\ UNCHANGED wire

-----------------------------------------------------------------------------
(* The client (external).  It takes what continues what it has, as much of   *)
(* it as it has room for.                                                    *)

Receive(g, n) ==
    LET has == Len(client.got)
        more == g.off + Len(g.bytes) - has
        fin == client.fin \/ (g.bytes = <<>> /\ g.off = has)
        new == SubSeq(g.bytes, has - g.off + 1, has - g.off + Smaller(n, more))
        got == IF g.off <= has /\ more > 0 /\ ~client.fin THEN client.got \o new ELSE client.got
        ack == Len(got) + (IF fin THEN 1 ELSE 0)
    IN  /\ client' = [client EXCEPT !.got = got, !.fin = fin, !.acks = @ \cup {ack}]
        /\ UNCHANGED <<job, at, s, conn, wire>>
FinishSending ==
    ~client.done /\ client' = [client EXCEPT !.done = TRUE] /\ UNCHANGED <<job, at, s, conn, wire>>
GoAway ==
    ~client.gone /\ client' = [client EXCEPT !.gone = TRUE] /\ UNCHANGED <<job, at, s, conn, wire>>

Next ==
    \/ \E p \in Packets, late, key, stalled, fails \in BOOLEAN : Turn(p, late, key, stalled, fails)
    \/ \E p \in Packets, late \in BOOLEAN : FinTurn(p, late)
    \/ \E what \in {"client", "CANCELLED", "NO_CLIENT"} : Wait(what)
    \/ \E p \in Packets, key, ends \in BOOLEAN : Sniff(p, key, ends)
    \/ at # "over" /\ \E g \in wire, n \in 1 .. Seg : Receive(g, n)
    \/ at \in {"sniff", "send"} /\ FinishSending
    \/ at \in {"sniff", "send"} /\ GoAway

Spec == Init /\ [][Next]_vars

-----------------------------------------------------------------------------
Asked == IF job.size = Unknown THEN job.file ELSE Smaller(job.size, job.file)
Stream == HeadBytes(s.head) \o SubSeq(FileBytes, 1, Asked)
Prefix(a, b) == Len(a) <= Len(b) /\ SubSeq(b, 1, Len(a)) = a

\* What the client holds is the beginning of the stream, whatever was lost, cut or sent
\* again, and it sees the end behind the last byte only.
StreamExact == Prefix(client.got, Stream) /\ (client.fin => client.got = Stream)

\* A transfer that reports success has brought everything and its figures are those of
\* the file; one that a key stopped has brought all that is out, so that the session goes
\* on where the client is.
ReportTrue ==
    at \in {"fin", "over"} =>
        /\ s.status = "OK" =>
              client.got = Stream /\ s.bytes = Asked /\ s.crc = SubSeq(FileBytes, 1, Asked)
        /\ s.status = "CANCELLED" /\ job.keep =>
              /\ s.bytes = Len(client.got) /\ s.seq = Len(client.got) /\ s.crc = client.got
              /\ \A g \in wire : g.off + Len(g.bytes) <= s.seq

\* A client that closes its own side does not end the transfer.
OnlyResetResets == s.status = "RESET" => client.gone

\* While the stream is not through, something is out, so that the timer goes on.
NeverStuck == at = "send" /\ wire # {} => s.next > s.acked

\* No more is in flight than the client has last said it has room for, the probe excepted.
WindowKept == ~s.beyond
=============================================================================

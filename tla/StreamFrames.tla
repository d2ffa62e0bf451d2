---------------------------- MODULE StreamFrames ----------------------------
(***************************************************************************)
(* c/streamd/main.c: a screen sent as a stream of JPEG frames.  Two buffers *)
(* take turns: one is encoded into while the other is on its way, and the   *)
(* encoder calls back into the transmit queue after every row.              *)
(*                                                                         *)
(* A picture is named by the size of its JPEG, in units; a buffer holds     *)
(* units named by their picture.  A frame on the wire is its length, then   *)
(* its units.  The browser acknowledges what it likes, when it likes.       *)
(***************************************************************************)
EXTENDS Integers, Sequences, SequencesExt, FiniteSetsExt

CONSTANTS Pictures, InitialCap, MaxCap,   \* JPEG_INITIAL_BUFFER_SIZE, JPEG_BUFFER_SIZE
          Mss, TxWindow, Batch,           \* TCP_CHUNK, TCP_TX_WINDOW_BYTES, TCP_TX_BATCH
          MaxSnap, MaxSent                \* bounds: changes of the screen, units sent

Slots == {0, 1}
None == 0

VARIABLES screen,   \* [pic, id]: what is shown and the number of its snapshot
          buf,      \* per slot: header written, units, capacity
          cache,    \* [valid, slot, size, prev, id]: the last complete JPEG and its picture
          tx,       \* parts, head, seq, acked, window, failed
          enc,      \* [on, slot, pic, id, size]: the encoder's work; size -1 after an overflow
          sent,     \* the bytes of this connection, as they were first sent
          frames,   \* history: [base, pic] of the frames handed to TCP
          wire      \* what the last poll resent: [from, units]

vars == <<screen, buf, cache, tx, enc, sent, frames, wire>>

FreshTx == [parts |-> <<>>, head |-> 0, seq |-> 0, acked |-> 0, window |-> TxWindow, failed |-> FALSE]
Idle == [on |-> FALSE, slot |-> 0, pic |-> None, id |-> None, size |-> 0]
NoSegment == [from |-> 0, units |-> <<>>]

\* initialise_video() and the first tx_init().
Init ==
    /\ screen \in [pic : Pictures, id : {0, 1}]
    /\ buf = [s \in Slots |-> [head |-> None, data |-> <<>>, cap |-> InitialCap]]
    /\ cache = [valid |-> FALSE, slot |-> 0, size |-> 0, prev |-> None, id |-> None]
    /\ tx = FreshTx /\ enc = Idle
    /\ sent = <<>> /\ frames = <<>> /\ wire = NoSegment

-----------------------------------------------------------------------------
(* Buffers.                                                                 *)

CapFor(n, cap) == CHOOSE c \in {cap * 2 ^ k : k \in 0 .. 4} :
                    /\ c >= n /\ \A k \in 0 .. 4 : cap * 2 ^ k >= n => c <= cap * 2 ^ k

\* realloc() keeps what fits.
Resized(b, cap) == [b EXCEPT !.cap = cap,
                             !.data = SubSeq(@, 1, IF cap < Len(@) THEN cap ELSE Len(@))]

\* frame_completed(): shrink a retired buffer to what its frame needs.
Shrunk(b, size) ==
    LET cap == CapFor(size, InitialCap) IN IF cap < b.cap THEN Resized(b, cap) ELSE b

\* The units of a part, and the bytes i .. j - 1 of it.
Content(b, len) == <<b.head>> \o SubSeq(b.data, 1, len - 1)
Bytes(p, i, j) == SubSeq(Content(buf[p.slot], p.len), i + 1, j)

-----------------------------------------------------------------------------
(* The transmit queue.                                                      *)

Least(a, b) == IF a < b THEN a ELSE b

\* The parts that the acknowledgment retires, oldest first.
Done(t) == SelectSeq(t.parts, LAMBDA p : t.acked >= p.base + p.len)
Retire(t) == [t EXCEPT !.parts = SubSeq(@, Len(Done(t)) + 1, Len(@)),
                       !.head = (@ + Len(Done(t))) % 2]

Allowed(t) == Least(t.window, TxWindow)

Room(t) == Allowed(t) - (t.seq - t.acked)

Unsent(t) == {i \in DOMAIN t.parts : t.parts[i].pos < t.parts[i].len}

\* One turn of the send loop: the next chunk of the first part not sent whole.
SendOne(t) ==
    IF Room(t) <= 0 \/ Unsent(t) = {} THEN t
    ELSE LET i == Min(Unsent(t))
             p == t.parts[i]
             n == Min({p.len - p.pos, Mss, Room(t)})
         IN  IF t.seq # p.base + p.pos THEN [t EXCEPT !.failed = TRUE]
             ELSE [t EXCEPT !.seq = @ + n, !.parts[i].pos = @ + n]

Send(t) == FoldLeft(LAMBDA u, k : SendOne(u), t, [k \in 1 .. Batch |-> k])

\* What the parts add to the stream between two values of the queue.
Added(before, after) ==
    FlattenSeq([i \in DOMAIN after.parts |->
        Bytes(after.parts[i], before.parts[i].pos, after.parts[i].pos)])

Offset(t) == t.acked - Head(t.parts).base

\* The retry: a chunk of the head part, one byte into a closed window, or a probe.
Retry(t) ==
    LET p == Head(t.parts)
        chunk == Min({p.pos - Offset(t), Mss, IF t.window = 0 THEN 1 ELSE t.window})
    IN  IF t.seq > t.acked
        THEN [from |-> t.acked, units |-> Bytes(p, Offset(t), Offset(t) + chunk)]
        ELSE IF t.window = 0 /\ Offset(t) > 0
        THEN [from |-> t.acked - 1, units |-> Bytes(p, Offset(t) - 1, Offset(t))]
        ELSE NoSegment

\* tx_poll(): acknowledgments up to a and a window of w have come in; due: the
\* retry timer has run out.
Poll(a, w, due) ==
    /\ ~tx.failed /\ tx.parts # <<>>
    /\ LET t1 == Retire([tx EXCEPT !.acked = a, !.window = w])
           t2 == Send(t1)
           old == Done([tx EXCEPT !.acked = a])
       IN  /\ tx' = t2
           /\ buf' = [s \in Slots |->
                        IF \E i \in DOMAIN old : old[i].slot = s
                        THEN Shrunk(buf[s], (CHOOSE p \in Range(old) : p.slot = s).len - 1) ELSE buf[s]]
           /\ sent' = sent \o Added(t1, t2)
           /\ wire' = IF due /\ t2.parts # <<>> /\ ~t2.failed THEN Retry(t2) ELSE NoSegment
    /\ Len(sent) < MaxSent
    /\ UNCHANGED <<screen, cache, enc, frames>>

\* The connection is reset or closed, or TCP_STALL_MS pass without progress.
Fails == /\ ~tx.failed /\ tx' = [tx EXCEPT !.failed = TRUE]
         /\ UNCHANGED <<screen, buf, cache, enc, sent, frames, wire>>

-----------------------------------------------------------------------------
(* A turn of stream_client().                                               *)

\* Faulty variant: the newest frame is replaced although some of it was sent.
MayDropAny(p) == TRUE

MayDrop(p) == p.pos = 0

Full(t) == Len(t.parts) = 2
Dropped(t) == [t EXCEPT !.parts = Front(@)]

NextSlot(t) == (t.head + Len(t.parts)) % 2

EndSeq(t) == IF t.parts = <<>> THEN t.seq ELSE LET p == t.parts[Len(t.parts)] IN p.base + p.len

\* prepare_mjpeg_frame() and tx_enqueue(), for a JPEG of n units in slot s.
Enqueue(t, s, n) ==
    [t EXCEPT !.parts = Append(@, [slot |-> s, base |-> EndSeq(t), len |-> n + 1, pos |-> 0])]
Listed(t) == SelectSeq(frames, LAMBDA f : f.base < EndSeq(t))

\* Writing units over the beginning of a buffer.
Over(data, units) == units \o SubSeq(data, Len(units) + 1, Len(data))

\* The kernel knows the snapshot by its number, or the pixels compare equal.
Unchanged == cache.valid /\ (cache.prev = screen.pic \/ (screen.id # 0 /\ cache.id = screen.id))

OutOfDate(c) == [c EXCEPT !.valid = FALSE]

\* The last JPEG is copied into slot s, unless it is there.
Copied(s) == [buf EXCEPT ![s] = [head |-> cache.size, cap |-> CapFor(cache.size, @.cap),
                                 data |-> Over(@.data, SubSeq(buf[cache.slot].data, 1, cache.size))]]

\* A turn that is due.  A busy capture leaves everything; an unchanged picture is
\* copied from the last JPEG; another one is handed to the encoder.
Turn ==
    /\ ~enc.on /\ ~tx.failed /\ Len(sent) < MaxSent
    /\ Full(tx) => MayDrop(tx.parts[2])
    /\ LET t == IF Full(tx) THEN Dropped(tx) ELSE tx
           s == NextSlot(t)
       IN  \/ tx' = t /\ frames' = Listed(t) /\ UNCHANGED <<buf, cache, enc>>
           \/ /\ Unchanged
              /\ buf' = Copied(s)
              /\ cache' = [cache EXCEPT !.id = screen.id]
              /\ tx' = Enqueue(t, s, cache.size)
              /\ frames' = Append(Listed(t), [base |-> EndSeq(t), pic |-> screen.pic])
              /\ UNCHANGED enc
           \/ /\ ~Unchanged
              /\ enc' = [on |-> TRUE, slot |-> s, pic |-> screen.pic, id |-> screen.id, size |-> 0]
              /\ cache' = OutOfDate(cache)
              /\ tx' = t /\ frames' = Listed(t) /\ UNCHANGED buf
    /\ UNCHANGED <<screen, sent, wire>>

\* jpeg_write_callback(): one unit more, unless memory or the limit runs out.
EncodeUnit(memory) ==
    /\ enc.on /\ enc.size \in 0 .. enc.pic - 1
    /\ LET n == enc.size + 1
           b == buf[enc.slot]
           fits == n <= MaxCap /\ (n <= b.cap \/ memory)
           data == IF n <= Len(b.data) THEN [b.data EXCEPT ![n] = enc.pic] ELSE Append(b.data, enc.pic)
       IN  /\ enc' = [enc EXCEPT !.size = IF fits THEN n ELSE -1]
           /\ buf' = IF fits THEN [buf EXCEPT ![enc.slot].data = data, ![enc.slot].cap = CapFor(n, @)]
                     ELSE buf
    /\ UNCHANGED <<screen, cache, tx, sent, frames, wire>>

\* The encoder is done: the JPEG becomes the last one and is queued, unless it
\* overflowed or the connection failed meanwhile.
EncodeEnds ==
    /\ enc.on /\ enc.size \in {-1, enc.pic}
    /\ enc' = Idle
    /\ cache' = IF enc.size = -1 THEN cache
                ELSE [valid |-> TRUE, slot |-> enc.slot, size |-> enc.size, prev |-> enc.pic, id |-> enc.id]
    /\ IF enc.size = -1 \/ tx.failed THEN UNCHANGED <<buf, tx, frames>>
       ELSE /\ buf' = [buf EXCEPT ![enc.slot].head = enc.size]
            /\ tx' = Enqueue(tx, enc.slot, enc.size)
            /\ frames' = Append(frames, [base |-> EndSeq(tx), pic |-> enc.pic])
    /\ UNCHANGED <<screen, sent, wire>>

\* main(): the next client; the buffers and the last JPEG stay.
NextClient ==
    /\ tx.failed /\ ~enc.on
    /\ tx' = FreshTx /\ sent' = <<>> /\ frames' = <<>> /\ wire' = NoSegment
    /\ UNCHANGED <<screen, buf, cache, enc>>

\* Something is drawn: a new snapshot, or a write to the framebuffer itself.
Draw(p) == /\ screen.id < MaxSnap
           /\ screen' = [pic |-> p, id |-> IF screen.id = 0 THEN 0 ELSE screen.id + 1]
           /\ UNCHANGED <<buf, cache, tx, enc, sent, frames, wire>>

Next ==
    \/ \E a \in tx.acked .. tx.seq, w \in {0, TxWindow}, due \in BOOLEAN : Poll(a, w, due)
    \/ Fails \/ Turn \/ EncodeEnds \/ NextClient
    \/ \E memory \in BOOLEAN : EncodeUnit(memory)
    \/ \E p \in Pictures : Draw(p)

-----------------------------------------------------------------------------
\* What is sent again is what was sent first: no buffer changes or moves while the
\* browser has not acknowledged all of it.
SameBytes == \A i \in DOMAIN wire.units :
    /\ wire.from + i <= Len(sent)
    /\ wire.units[i] = sent[wire.from + i]

\* The stream is whole frames, one after the other, each of them its length and the
\* JPEG of the picture that was captured for it; only the last may be unfinished.
FramesWhole ==
    \A k \in DOMAIN frames : LET f == frames[k] IN
        /\ f.base = IF k = 1 THEN 0 ELSE frames[k - 1].base + frames[k - 1].pic + 1
        /\ \A i \in 0 .. f.pic : f.base + i < Len(sent) => sent[f.base + i + 1] = f.pic

\* "Encoding can retire earlier entries, but cannot change the next free ring slot":
\* the buffer in the encoder's hands is nobody else's.
EncoderOwnsSlot ==
    enc.on /\ ~tx.failed => enc.slot = NextSlot(tx) /\ \A p \in Range(tx.parts) : p.slot # enc.slot

\* The browser's window is never overrun.
WindowKept == tx'.seq > tx.seq => tx'.seq - tx'.acked <= tx'.window
=============================================================================

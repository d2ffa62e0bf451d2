-------------------------- MODULE Cr2StreamProofs --------------------------
(* Frames over libcr2: for frames, segments and buffers of any size the      *)
(* receiver has the bytes of the stream in order, each once, and the sender  *)
(* keeps a byte until the receiver has it, on a network that loses, repeats  *)
(* and reorders and across the wrap-around of sequence numbers.              *)
EXTENDS Cr2Stream, TLAPS

\* Sizes are what they are in the code, and no segment is older than a whole cycle of
\* sequence numbers: here nothing is ever too old, so the stream is shorter than one.
Sizes == /\ FrameLen \in Nat \ {0} /\ Mss \in Nat \ {0} /\ SeqMod \in Nat \ {0}
         /\ Burst \in Nat /\ MaxFrames \in Nat
         /\ SmallBuffer \in Nat /\ Buffer \in Nat /\ SmallBuffer <= Buffer
         /\ First \in 0 .. SeqMod - 1
         /\ MaxFrames * FrameLen < SeqMod

-----------------------------------------------------------------------------
(* Sequence numbers.                                                        *)

\* The sequence number of the byte at position p.
SeqNo(p) == (First + p) % SeqMod

LEMMA Remainder ==
  ASSUME NEW a \in Int, NEW M \in Nat \ {0}, NEW k \in Int, NEW r \in 0 .. M - 1, a = r + k * M
  PROVE  a % M = r
  OBVIOUS

LEMMA Quotient ==
  ASSUME NEW a \in Int, NEW M \in Nat \ {0}
  PROVE  a % M \in 0 .. M - 1 /\ a \div M \in Int /\ a = (a % M) + (a \div M) * M
  OBVIOUS

\* A remainder does not notice whole cycles.
LEMMA Cycle ==
  ASSUME NEW a \in Int, NEW M \in Nat \ {0}, NEW k \in Int PROVE (a + k * M) % M = a % M
<1> DEFINE r == a % M
           d == a \div M
<1>1. r \in 0 .. M - 1 /\ d \in Int /\ a = r + d * M
  BY Quotient
<1> HIDE DEF r, d
<1>2. a + k * M \in Int /\ d + k \in Int /\ a + k * M = r + (d + k) * M
  BY <1>1
<1>3. (a + k * M) % M = r
  BY <1>1, <1>2, Remainder
<1> QED
  BY <1>3 DEF r

LEMMA SeqNoType == ASSUME Sizes, NEW p \in Int PROVE SeqNo(p) \in 0 .. SeqMod - 1
<1>1. First + p \in Int /\ SeqMod \in Nat \ {0}
  BY DEF Sizes
<1> QED
  BY <1>1, Quotient DEF SeqNo

LEMMA SeqNoCycle ==
  ASSUME Sizes, NEW p \in Int PROVE \E k \in Int : First + p = SeqNo(p) + k * SeqMod
<1>1. First + p \in Int /\ SeqMod \in Nat \ {0}
  BY DEF Sizes
<1> QED
  BY <1>1, Quotient DEF SeqNo

\* seq_num + n, as transmit() and on_tcp_packet() count.
LEMMA SeqNoPlus ==
  ASSUME Sizes, NEW p \in Int, NEW n \in Int PROVE (SeqNo(p) + n) % SeqMod = SeqNo(p + n)
<1> DEFINE k == (First + p) \div SeqMod
<1>1. SeqMod \in Nat \ {0} /\ First \in Int
  BY DEF Sizes
<1>2. SeqNo(p) \in Int /\ k \in Int /\ First + p = SeqNo(p) + k * SeqMod
  BY SMTT(60), <1>1, Quotient DEF SeqNo
<1> HIDE DEF k
<1>3. First + (p + n) = (SeqNo(p) + n) + k * SeqMod /\ SeqNo(p) + n \in Int
  BY <1>1, <1>2
<1>4. ((SeqNo(p) + n) + k * SeqMod) % SeqMod = (SeqNo(p) + n) % SeqMod
  BY <1>1, <1>2, <1>3, Cycle
<1> QED
  BY <1>3, <1>4 DEF SeqNo

\* The distance of two sequence numbers is that of the positions, up to a cycle.
LEMMA SeqNoMinus ==
  ASSUME Sizes, NEW p \in Int, NEW q \in Int, NEW k \in Int, q - p + k * SeqMod \in 0 .. SeqMod - 1
  PROVE  (SeqNo(q) - SeqNo(p)) % SeqMod = q - p + k * SeqMod
<1>1. SeqMod \in Nat \ {0} /\ First \in Int /\ SeqNo(p) \in Int /\ SeqNo(q) \in Int
  BY SeqNoType DEF Sizes
<1>2. PICK i \in Int : First + p = SeqNo(p) + i * SeqMod
  BY SeqNoCycle
<1>3. PICK j \in Int : First + q = SeqNo(q) + j * SeqMod
  BY SeqNoCycle
<1> DEFINE x == i * SeqMod
           y == j * SeqMod
           z == k * SeqMod
<1>4. x \in Int /\ y \in Int /\ z \in Int /\ ((i - j) - k) * SeqMod = x - y - z /\ (i - j) - k \in Int
  BY <1>1
<1>5. First + p = SeqNo(p) + x /\ First + q = SeqNo(q) + y /\ q - p + z \in 0 .. SeqMod - 1
  BY <1>2, <1>3
<1> HIDE DEF x, y, z
<1>6. SeqNo(q) - SeqNo(p) = (q - p + z) + (x - y - z)
  BY <1>1, <1>4, <1>5
<1> DEFINE a == SeqNo(q) - SeqNo(p)
           r == q - p + z
           n == (i - j) - k
<1>7. a \in Int /\ r \in 0 .. SeqMod - 1 /\ n \in Int /\ a = r + n * SeqMod
  <2>1. n \in Int /\ n * SeqMod = x - y - z
    BY <1>4
  <2>2. a \in Int /\ r \in 0 .. SeqMod - 1 /\ a = r + (x - y - z)
    BY <1>1, <1>5, <1>6
  <2> QED
    BY <2>1, <2>2
<1> HIDE DEF a, r, n
<1>8. a % SeqMod = r
  BY <1>1, <1>7, Remainder
<1> QED
  BY <1>8 DEF a, r, z

\* A position less than a cycle ahead.
LEMMA Ahead ==
  ASSUME Sizes, NEW p \in Int, NEW q \in Int, p <= q, q - p < SeqMod
  PROVE  (SeqNo(q) - SeqNo(p)) % SeqMod = q - p
<1>1. SeqMod \in Nat /\ q - p + 0 * SeqMod = q - p
  BY DEF Sizes
<1>2. q - p + 0 * SeqMod \in 0 .. SeqMod - 1
  BY <1>1
<1>3. (SeqNo(q) - SeqNo(p)) % SeqMod = q - p + 0 * SeqMod
  BY <1>2, SeqNoMinus
<1> QED
  BY <1>1, <1>3

\* One behind looks almost a cycle ahead.
LEMMA Behind ==
  ASSUME Sizes, NEW p \in Int, NEW q \in Int, q < p, p - q < SeqMod
  PROVE  (SeqNo(q) - SeqNo(p)) % SeqMod = q - p + SeqMod
<1>1. SeqMod \in Nat /\ q - p + 1 * SeqMod = q - p + SeqMod
  BY DEF Sizes
<1>2. q - p + 1 * SeqMod \in 0 .. SeqMod - 1
  BY <1>1
<1>3. (SeqNo(q) - SeqNo(p)) % SeqMod = q - p + 1 * SeqMod
  BY <1>2, SeqNoMinus
<1> QED
  BY <1>1, <1>3

\* Within a cycle, a sequence number is one byte's.
LEMMA SeqNoOne ==
  ASSUME Sizes, NEW p \in Nat, NEW q \in Nat, p < SeqMod, q < SeqMod, SeqNo(p) = SeqNo(q)
  PROVE  p = q
<1>1. SeqMod \in Nat \ {0} /\ SeqNo(p) \in Int /\ 0 % SeqMod = 0
  BY SeqNoType DEF Sizes
<1>2. (SeqNo(q) - SeqNo(p)) % SeqMod = 0
  BY <1>1
<1>3. CASE p <= q
  BY <1>1, <1>2, <1>3, Ahead
<1>4. CASE q < p
  BY <1>1, <1>2, <1>4, Behind
<1> QED
  BY <1>3, <1>4

-----------------------------------------------------------------------------
(* The invariant.                                                           *)

\* How far the sender has forgotten the stream, and how far it has sent it.
Forgotten == IF frames = 0 THEN 0 ELSE Base
Reached == Forgotten + flight

Shape ==
    /\ frames \in 0 .. MaxFrames /\ tx_len \in {0, FrameLen} /\ tx_pos \in Nat /\ flight \in Nat
    /\ tx_pos + flight <= FrameLen
    /\ frames = 0 => tx_len = 0 /\ flight = 0
    /\ frames > 0 /\ tx_len = 0 => tx_pos = FrameLen /\ flight = 0
    /\ peer_window \in Int /\ capacity \in {SmallBuffer, Buffer} /\ rx_len \in 0 .. capacity
    /\ stream \in Seq(Nat) /\ taken \in Nat /\ taken + rx_len = Len(stream)

\* Every segment and acknowledgment that was ever sent says something true of the stream.
DataTrue(s, reach) ==
    \E p \in 0 .. reach : \E n \in 0 .. reach - p : s = Segment(SeqNo(p), [i \in 1 .. n |-> p + i])
AckTrue(s, len) == \E a \in 0 .. len : s = Ack(SeqNo(a), s.window) /\ s.window \in Int
Wire(segments, reach, len) == \A s \in segments : DataTrue(s, reach) \/ AckTrue(s, len)

\* What the sender believes of itself and of the receiver.
SenderTrue ==
    /\ seq_num = SeqNo(Reached)
    /\ flight > 0 => flight_seq = SeqNo(Forgotten)
    /\ \E a \in Forgotten .. Reached : tx_acked = SeqNo(a) /\ a <= Len(stream)

\* The receiver has a beginning of what was sent, and asks for the byte behind it.
ReceiverTrue == ack_num = SeqNo(Len(stream)) /\ Len(stream) <= Reached /\ StreamIntact

StreamInv == Shape /\ SenderTrue /\ ReceiverTrue /\ Wire(net, Reached, Len(stream))

-----------------------------------------------------------------------------
(* What the operators return.                                               *)

LEMMA MinOfTwo ==
  ASSUME NEW a \in Int, NEW b \in Int
  PROVE  Min({a, b}) \in {a, b} /\ Min({a, b}) <= a /\ Min({a, b}) <= b
<1>1. \E x \in {a, b} : \A y \in {a, b} : x <= y
  <2>1. a <= b \/ b <= a
    OBVIOUS
  <2> QED
    BY <2>1
<1> QED
  BY <1>1 DEF Min

LEMMA MinOfThree ==
  ASSUME NEW a \in Int, NEW b \in Int, NEW c \in Int
  PROVE  Min({a, b, c}) \in Int /\ Min({a, b, c}) <= a
<1>1. \E x \in {a, b, c} : \A y \in {a, b, c} : x <= y
  <2>1. \/ a <= b /\ a <= c
        \/ b <= a /\ b <= c
        \/ c <= a /\ c <= b
    OBVIOUS
  <2> QED
    BY <2>1
<1>2. Min({a, b, c}) \in {a, b, c} /\ \A y \in {a, b, c} : Min({a, b, c}) <= y
  BY <1>1 DEF Min
<1> QED
  BY <1>2

LEMMA MaxOfTwo ==
  ASSUME NEW a \in Int, NEW b \in Int
  PROVE  Max({a, b}) \in {a, b} /\ Max({a, b}) >= a /\ Max({a, b}) >= b
<1>1. \E x \in {a, b} : \A y \in {a, b} : x >= y
  <2>1. a >= b \/ b >= a
    OBVIOUS
  <2> QED
    BY <2>1
<1> QED
  BY <1>1 DEF Max

\* A pass adds no more than the frame has left.
LEMMA AddFits ==
  ASSUME Sizes, peer_window \in Int, NEW f \in Nat, NEW r \in Nat, f <= r
  PROVE  MayAdd(f, r) \in Nat /\ MayAdd(f, r) <= r - f
<1>1. r - f \in Int /\ peer_window - f \in Int /\ Burst * Mss \in Int
  BY DEF Sizes
<1>2. Min({r - f, peer_window - f, Burst * Mss}) \in Int /\ Min({r - f, peer_window - f, Burst * Mss}) <= r - f
  BY <1>1, MinOfThree
<1> DEFINE m == Min({r - f, peer_window - f, Burst * Mss})
<1> HIDE DEF m
<1>3. m \in Int /\ m <= r - f
  BY <1>2 DEF m
<1>4. Max({0, m}) \in {0, m} /\ Max({0, m}) >= 0
  BY <1>3, MaxOfTwo
<1>5. MayAdd(f, r) = Max({0, m})
  BY DEF MayAdd, m
<1> QED
  BY <1>3, <1>4, <1>5

\* The frame that is sent lies inside the stream, which is shorter than a cycle.
LEMMA Bounds ==
  ASSUME Sizes, Shape
  PROVE  /\ Forgotten \in Nat /\ Reached \in Nat /\ Forgotten <= Reached /\ Reached < SeqMod
         /\ frames * FrameLen \in Nat /\ Reached <= frames * FrameLen
         /\ frames > 0 => Base = frames * FrameLen - FrameLen + tx_pos /\ frames * FrameLen >= FrameLen
<1>1. /\ frames \in Nat /\ FrameLen \in Nat /\ MaxFrames \in Nat /\ SeqMod \in Nat /\ frames <= MaxFrames
      /\ MaxFrames * FrameLen < SeqMod /\ tx_pos \in Nat /\ flight \in Nat /\ tx_pos + flight <= FrameLen
      /\ frames = 0 => flight = 0
  BY DEF Sizes, Shape
<1> DEFINE end == frames * FrameLen
<1>2. end \in Nat /\ end <= MaxFrames * FrameLen /\ MaxFrames * FrameLen \in Nat
  BY <1>1
<1>3. (frames - 1) * FrameLen = end - FrameLen /\ (frames > 0 => end >= FrameLen)
  BY <1>1
<1> HIDE DEF end
<1>4. CASE frames = 0
  BY <1>1, <1>2, <1>4 DEF Forgotten, Reached, end
<1>5. CASE frames > 0
  <2>1. Base = end - FrameLen + tx_pos
    BY <1>3 DEF Base
  <2>2. Forgotten = end - FrameLen + tx_pos
    BY <1>1, <1>5, <2>1 DEF Forgotten
  <2>3. Forgotten \in Nat /\ Reached \in Nat /\ Forgotten <= Reached /\ Reached <= end
    BY <1>1, <1>2, <1>3, <1>5, <2>2 DEF Reached
  <2>4. Reached < SeqMod
    BY <1>1, <1>2, <2>3
  <2> QED
    BY <1>2, <1>3, <2>1, <2>3, <2>4, <1>5 DEF end
<1> QED
  BY <1>1, <1>4, <1>5

\* Segments cut from the stream say what is in it.
LEMMA ChunksTrue ==
  ASSUME Sizes, NEW p \in Nat, NEW s \in Int, NEW n \in Nat, NEW reach \in Nat, p + n <= reach,
         n > 0 => \A k \in Nat : (s + k) % SeqMod = SeqNo(p + k),
         NEW x \in Chunks(s, p, n)
  PROVE  DataTrue(x, reach)
<1>1. PICK k \in 0 .. n - 1 : x = Segment((s + k) % SeqMod, [i \in 1 .. Min({Mss, n - k}) |-> p + k + i])
  BY DEF Chunks
<1> DEFINE m == Min({Mss, n - k})
<1>2. m \in Nat /\ m <= n - k
  <2>1. Mss \in Int /\ n - k \in Int /\ Mss >= 0 /\ n - k >= 0
    BY DEF Sizes
  <2>2. m \in {Mss, n - k} /\ m <= n - k
    BY <2>1, MinOfTwo
  <2> HIDE DEF m
  <2> QED
    BY <2>1, <2>2
<1>3. k \in Nat /\ p + k \in 0 .. reach /\ m \in 0 .. reach - (p + k) /\ n > 0
  BY <1>2
<1>4. x = Segment(SeqNo(p + k), [i \in 1 .. m |-> (p + k) + i])
  BY <1>1, <1>3
<1> QED
  BY <1>3, <1>4 DEF DataTrue

\* What was true of a stream is true of a longer one, and what is lost says nothing.
LEMMA WireGrows ==
  ASSUME NEW a, NEW b \in SUBSET a, NEW r \in Nat, NEW q \in Nat, NEW l \in Nat, NEW k \in Nat, r <= q, l <= k,
         Wire(a, r, l)
  PROVE  Wire(b, q, k)
<1>1. ASSUME NEW s \in b, DataTrue(s, r) PROVE DataTrue(s, q)
  <2>0. PICK p \in 0 .. r : \E n \in 0 .. r - p : s = Segment(SeqNo(p), [i \in 1 .. n |-> p + i])
    BY <1>1 DEF DataTrue
  <2>1. PICK n \in 0 .. r - p : s = Segment(SeqNo(p), [i \in 1 .. n |-> p + i])
    BY <2>0
  <2>2. p \in 0 .. q /\ n \in 0 .. q - p
    OBVIOUS
  <2> QED
    BY <2>1, <2>2 DEF DataTrue
<1>2. ASSUME NEW s \in b, AckTrue(s, l) PROVE AckTrue(s, k)
  BY <1>2 DEF AckTrue
<1> QED
  BY <1>1, <1>2 DEF Wire

LEMMA WireSent ==
  ASSUME NEW more, NEW r \in Nat, NEW l \in Nat, Wire(net, r, l), Wire(more, r, l)
  PROVE  Wire(Sent(more), r, l)
  BY DEF Wire, Sent

-----------------------------------------------------------------------------
(* The steps.                                                               *)

LEMMA StreamInit == ASSUME Sizes, Init PROVE StreamInv
<1>1. Shape
  BY DEF Init, Shape, Sizes
<1>2. Forgotten = 0 /\ Reached = 0 /\ Len(stream) = 0
  BY DEF Init, Forgotten, Reached
<1>3. SeqNo(0) = First
  <2>1. First \in Int /\ SeqMod \in Nat \ {0} /\ First \in 0 .. SeqMod - 1 /\ First + 0 = First + 0 * SeqMod
    BY DEF Sizes
  <2>2. First = First + 0 * SeqMod
    BY <2>1
  <2>3. First % SeqMod = First
    BY <2>1, <2>2, Remainder
  <2> QED
    BY <2>1, <2>3 DEF SeqNo
<1>4. SenderTrue
  BY <1>2, <1>3 DEF Init, SenderTrue
<1>5. ReceiverTrue /\ Wire(net, Reached, Len(stream))
  BY <1>2, <1>3 DEF Init, ReceiverTrue, StreamIntact, Wire
<1> QED
  BY <1>1, <1>4, <1>5 DEF StreamInv

\* outgoing(): the reply has come, so the receiver has the frame before and every byte of
\* it is acknowledged.
LEMMA OutgoingStep == ASSUME Sizes, StreamInv, Outgoing PROVE StreamInv'
<1>1. Shape /\ SenderTrue /\ ReceiverTrue /\ Wire(net, Reached, Len(stream))
  BY DEF StreamInv
<1>2. /\ Forgotten \in Nat /\ Reached \in Nat /\ frames * FrameLen \in Nat /\ Reached <= frames * FrameLen
      /\ Len(stream) \in Nat /\ taken \in Nat /\ rx_len \in Nat /\ taken + rx_len = Len(stream)
  BY <1>1, Bounds DEF Shape, Sizes
<1>3. /\ frames' = frames + 1 /\ tx_len' = FrameLen /\ tx_pos' = 0 /\ flight' = 0 /\ taken = frames * FrameLen
      /\ tx_acked = seq_num /\ frames < MaxFrames
      /\ UNCHANGED <<flight_seq, seq_num, tx_acked, peer_window, capacity, ack_num, rx_len, stream, taken, net>>
  BY DEF Outgoing, receiverVars
<1>4. Reached = frames * FrameLen /\ Len(stream) = Reached
  BY <1>1, <1>2, <1>3 DEF ReceiverTrue
<1>5. frames \in Nat /\ FrameLen \in Nat /\ Base' = frames * FrameLen
  <2>1. frames \in Nat /\ FrameLen \in Nat
    BY <1>1 DEF Shape, Sizes
  <2>2. (frames + 1) - 1 = frames
    BY <2>1
  <2> QED
    BY <1>2, <1>3, <2>1, <2>2 DEF Base
<1>6. Forgotten' = Reached /\ Reached' = Reached
  BY <1>2, <1>3, <1>4, <1>5 DEF Forgotten, Reached
<1>7. Shape'
  BY <1>1, <1>3 DEF Shape, Sizes
<1>8. SenderTrue'
  BY <1>1, <1>2, <1>3, <1>4, <1>6 DEF SenderTrue
<1>9. ReceiverTrue' /\ Wire(net, Reached, Len(stream))'
  BY <1>1, <1>3, <1>6 DEF ReceiverTrue, StreamIntact, Wire, DataTrue, AckTrue
<1> QED
  BY <1>7, <1>8, <1>9 DEF StreamInv

\* transmit(): what is taken off the flight was acknowledged, so the receiver has it; what
\* is added or replayed is cut from the frame at its place.
LEMMA TransmitStep == ASSUME Sizes, StreamInv, NEW late \in BOOLEAN, Transmit(late) PROVE StreamInv'
<1> DEFINE acked == AckedOfFlight
           f == flight - acked
           fresh == MayAdd(f, tx_len - tx_pos - acked)
<1>1. Shape /\ SenderTrue /\ ReceiverTrue /\ Wire(net, Reached, Len(stream))
  BY DEF StreamInv
<1>2. /\ tx_len = FrameLen /\ frames > 0 /\ frames \in Nat /\ FrameLen \in Nat \ {0} /\ tx_pos \in Nat /\ flight \in Nat
      /\ tx_pos + flight <= FrameLen /\ peer_window \in Int /\ Len(stream) \in Nat /\ SeqMod \in Nat
  BY <1>1 DEF Shape, Sizes, Transmit
<1>3. /\ Base \in Nat /\ Forgotten = Base /\ Reached = Base + flight /\ Reached < SeqMod
      /\ Base = frames * FrameLen - FrameLen + tx_pos /\ frames * FrameLen \in Nat
  BY <1>1, <1>2, Bounds DEF Forgotten, Reached
<1>4. PICK a \in Base .. Base + flight : tx_acked = SeqNo(a) /\ a <= Len(stream)
  BY <1>1, <1>3 DEF SenderTrue
<1>5. acked \in 0 .. flight /\ Base + acked <= a /\ (flight > 0 => acked = a - Base)
  <2>1. CASE flight = 0
    BY <1>3, <1>4, <2>1 DEF AckedOfFlight
  <2>2. CASE flight > 0
    <3>1. flight_seq = SeqNo(Base)
      BY <1>1, <1>3, <2>2 DEF SenderTrue
    <3>2. (tx_acked - flight_seq) % SeqMod = a - Base
      BY <1>2, <1>3, <1>4, <3>1, Ahead
    <3>3. acked = a - Base
      BY <1>2, <1>3, <1>4, <2>2, <3>2 DEF AckedOfFlight
    <3> QED
      BY <1>2, <1>3, <1>4, <3>3
  <2> QED
    BY <1>2, <2>1, <2>2
<1> HIDE DEF acked
<1>6. f \in Nat /\ tx_len - tx_pos - acked \in Nat /\ f <= tx_len - tx_pos - acked
  BY <1>2, <1>5
<1> HIDE DEF f
<1>7. fresh \in Nat /\ fresh <= tx_len - tx_pos - acked - f
  BY <1>2, <1>6, AddFits
<1> HIDE DEF fresh
<1>8. /\ tx_pos' = tx_pos + acked /\ flight' = f + fresh /\ flight_seq' = FlightStart(acked, f, fresh)
      /\ seq_num' = (seq_num + fresh) % SeqMod
      /\ tx_len' = IF tx_pos' = tx_len /\ flight' = 0 THEN 0 ELSE tx_len
      /\ net' = Sent(Chunks(seq_num, Base + acked + f, fresh)
                     \cup IF late THEN Chunks(flight_seq + acked, ReplayFrom(acked), f) ELSE {})
      /\ UNCHANGED <<frames, tx_acked, peer_window, capacity, ack_num, rx_len, stream, taken>>
  BY DEF Transmit, receiverVars, acked, f, fresh
<1>9. f = flight - acked
  BY DEF f
<1>10. Shape'
  <2>1. tx_pos' \in Nat /\ flight' \in Nat /\ tx_pos' + flight' <= FrameLen
    BY <1>2, <1>5, <1>6, <1>7, <1>8, <1>9
  <2>2. tx_len' \in {0, FrameLen} /\ (tx_len' = 0 => tx_pos' = FrameLen /\ flight' = 0)
    BY <1>2, <1>8
  <2>3. frames' # 0 /\ frames' \in 0 .. MaxFrames
    BY <1>1, <1>2, <1>8 DEF Shape
  <2>4. /\ peer_window' \in Int /\ capacity' \in {SmallBuffer, Buffer} /\ rx_len' \in 0 .. capacity'
        /\ stream' \in Seq(Nat) /\ taken' \in Nat /\ taken' + rx_len' = Len(stream')
    BY <1>1, <1>8 DEF Shape
  <2> QED
    BY <2>1, <2>2, <2>3, <2>4 DEF Shape
<1>11. Base' = Base + acked /\ Forgotten' = Base + acked /\ Reached' = Reached + fresh /\ Reached' \in Nat
  <2>1. (frames - 1) * FrameLen \in Int
    BY <1>2
  <2>2. Base' = Base + acked
    BY <1>2, <1>5, <1>8, <2>1 DEF Base
  <2>3. Forgotten' = Base'
    BY <1>2, <1>8 DEF Forgotten
  <2> QED
    BY <1>2, <1>3, <1>5, <1>6, <1>7, <1>8, <1>9, <2>2, <2>3 DEF Reached
<1>12. seq_num = SeqNo(Reached)
  BY <1>1 DEF SenderTrue
<1>13. SenderTrue'
  <2>1. seq_num' = SeqNo(Reached')
    BY <1>3, <1>2, <1>7, <1>8, <1>11, <1>12, SeqNoPlus
  <2>2. flight' > 0 => flight_seq' = SeqNo(Forgotten')
    <3>1. CASE f = 0 /\ fresh > 0
      BY <1>2, <1>3, <1>5, <1>8, <1>9, <1>11, <1>12, <3>1 DEF FlightStart
    <3>2. CASE f > 0
      <4>1. flight > 0
        BY <1>2, <1>5, <1>9, <3>2
      <4>2. flight_seq = SeqNo(Base)
        BY <1>1, <1>3, <4>1 DEF SenderTrue
      <4>3. flight_seq' = (flight_seq + acked) % SeqMod
        BY <1>8, <3>2 DEF FlightStart
      <4> QED
        BY <1>3, <1>5, <1>11, <4>2, <4>3, SeqNoPlus
    <3>3. CASE f = 0 /\ fresh = 0
      BY <1>8, <3>3
    <3> QED
      BY <1>6, <1>7, <3>1, <3>2, <3>3
  <2>3. a \in Forgotten' .. Reached'
    BY <1>2, <1>3, <1>4, <1>5, <1>7, <1>11
  <2>4. tx_acked' = SeqNo(a) /\ a <= Len(stream')
    BY <1>4, <1>8
  <2> QED
    BY <2>1, <2>2, <2>3, <2>4 DEF SenderTrue
<1>14. ReceiverTrue'
  BY <1>1, <1>2, <1>3, <1>7, <1>8, <1>11 DEF ReceiverTrue, StreamIntact
<1>15. Wire(net', Reached', Len(stream'))
  <2> DEFINE new == Chunks(seq_num, Base + acked + f, fresh)
             again == Chunks(flight_seq + acked, ReplayFrom(acked), f)
  <2>1. ASSUME NEW x \in new PROVE DataTrue(x, Reached')
    <3>1. Base + acked + f = Reached
      BY <1>2, <1>3, <1>5, <1>9
    <3>2. ASSUME NEW k \in Nat PROVE (seq_num + k) % SeqMod = SeqNo(Reached + k)
      <4>1. Reached \in Int /\ k \in Int
        BY <1>2, <1>3
      <4> QED
        BY <1>12, <4>1, SeqNoPlus
    <3>3. Reached \in Nat /\ seq_num \in Int /\ Reached + fresh <= Reached'
      BY <1>2, <1>3, <1>7, <1>11, <1>12, SeqNoType
    <3>4. x \in Chunks(seq_num, Reached, fresh)
      BY <2>1, <3>1
    <3> QED
      BY <1>7, <1>11, <3>2, <3>3, <3>4, ChunksTrue
  <2>2. ASSUME NEW x \in again PROVE DataTrue(x, Reached')
    <3>1. CASE f = 0
      BY <2>2, <3>1 DEF Chunks
    <3>2. CASE f > 0
      <4>1. flight_seq = SeqNo(Base) /\ flight_seq \in Int
        BY <1>1, <1>2, <1>3, <1>5, <1>9, <3>2, SeqNoType DEF SenderTrue
      <4>2. ASSUME NEW k \in Nat PROVE ((flight_seq + acked) + k) % SeqMod = SeqNo((Base + acked) + k)
        <5>1. (flight_seq + acked) + k = flight_seq + (acked + k) /\ (Base + acked) + k = Base + (acked + k)
          BY <1>2, <1>3, <1>5, <4>1
        <5>2. (SeqNo(Base) + (acked + k)) % SeqMod = SeqNo(Base + (acked + k))
          BY <1>2, <1>3, <1>5, SeqNoPlus
        <5> QED
          BY <4>1, <5>1, <5>2
      <4>3. Base + acked \in Nat /\ flight_seq + acked \in Int /\ (Base + acked) + f <= Reached' /\ Reached' \in Nat
        BY <1>2, <1>3, <1>5, <1>7, <1>9, <1>11, <4>1
      <4>4. x \in Chunks(flight_seq + acked, Base + acked, f)
        BY <2>2 DEF ReplayFrom
      <4> QED
        BY <1>6, <4>2, <4>3, <4>4, ChunksTrue
    <3> QED
      BY <1>6, <3>1, <3>2
  <2> HIDE DEF new, again
  <2>3. net' = Sent(new \cup IF late THEN again ELSE {})
    BY <1>8 DEF new, again
  <2>4. Wire(new \cup IF late THEN again ELSE {}, Reached', Len(stream'))
    BY <2>1, <2>2 DEF Wire
  <2>5. Wire(net, Reached', Len(stream'))
    <3>1. Reached \in Nat /\ Reached' \in Nat /\ Reached <= Reached' /\ Len(stream') = Len(stream) /\ net \in SUBSET net
      BY <1>2, <1>3, <1>7, <1>8, <1>11
    <3> QED
      BY <1>1, <1>2, <3>1, WireGrows
  <2>6. Reached' \in Nat /\ Len(stream') \in Nat
    BY <1>2, <1>8, <1>11
  <2> QED
    BY <2>3, <2>4, <2>5, <2>6, WireSent
<1> QED
  BY <1>10, <1>13, <1>14, <1>15 DEF StreamInv

\* A segment tells what it is.
LEMMA Kinds ==
  ASSUME NEW s, NEW r, NEW l, DataTrue(s, r) \/ AckTrue(s, l)
  PROVE  (s.kind = "data" => DataTrue(s, r)) /\ (s.kind = "ack" => AckTrue(s, l))
  BY DEF DataTrue, AckTrue, Segment, Ack

\* on_tcp_packet() at the sender: an acknowledgment that is believed is of a byte between
\* the last one and the last byte sent, for an old one looks almost a cycle ahead.
LEMMA ReceiveAckStep ==
  ASSUME Sizes, StreamInv, NEW s \in net, ReceiveAck(s), net' \subseteq net PROVE StreamInv'
<1>1. Shape /\ SenderTrue /\ ReceiverTrue /\ Wire(net, Reached, Len(stream)) /\ Len(stream) \in Nat /\ SeqMod \in Nat
  BY DEF StreamInv, Shape, Sizes
<1>2. /\ Forgotten \in Nat /\ Reached \in Nat /\ Forgotten <= Reached /\ Reached < SeqMod
      /\ Len(stream) <= Reached
  BY <1>1, Bounds DEF ReceiverTrue
<1>3. /\ peer_window' = s.window /\ tx_acked' = IF NewAck(s.ack) THEN s.ack ELSE tx_acked
      /\ s.kind = "ack"
      /\ UNCHANGED <<frames, tx_len, tx_pos, flight, flight_seq, seq_num, capacity, ack_num, rx_len, stream, taken>>
  BY DEF ReceiveAck, receiverVars
<1>4. AckTrue(s, Len(stream))
  BY <1>1, <1>3, Kinds DEF Wire
<1>5. PICK b \in 0 .. Len(stream) : s.ack = SeqNo(b) /\ s.window \in Int
  BY <1>4 DEF AckTrue, Ack
<1>6. Forgotten' = Forgotten /\ Reached' = Reached
  BY <1>3 DEF Forgotten, Reached, Base
<1>7. Shape'
  BY <1>1, <1>3, <1>5 DEF Shape
<1>8. PICK a \in Forgotten .. Reached : tx_acked = SeqNo(a) /\ a <= Len(stream)
  BY <1>1 DEF SenderTrue
<1>9. NewAck(s.ack) => b >= a
  <2>1. ASSUME NewAck(s.ack), b < a PROVE FALSE
    <3>1. (s.ack - tx_acked) % SeqMod = b - a + SeqMod
      BY <1>1, <1>2, <1>5, <1>8, <2>1, Behind
    <3>2. (seq_num - tx_acked) % SeqMod = Reached - a
      BY <1>1, <1>2, <1>8, Ahead DEF SenderTrue
    <3>3. b - a + SeqMod <= Reached - a
      BY <2>1, <3>1, <3>2 DEF NewAck
    <3> QED
      BY <1>1, <1>2, <1>5, <1>8, <3>3
  <2> QED
    BY <1>1, <1>2, <1>5, <1>8, <2>1
<1>10. \E c \in Forgotten .. Reached : tx_acked' = SeqNo(c) /\ c <= Len(stream)
  <2>1. CASE NewAck(s.ack)
    <3>1. b \in Forgotten .. Reached /\ b <= Len(stream) /\ tx_acked' = SeqNo(b)
      BY <1>1, <1>2, <1>3, <1>5, <1>8, <1>9, <2>1
    <3> QED
      BY <3>1
  <2>2. CASE ~NewAck(s.ack)
    BY <1>3, <1>8, <2>2
  <2> QED
    BY <2>1, <2>2
<1>11. SenderTrue'
  BY <1>1, <1>3, <1>6, <1>10 DEF SenderTrue
<1>12. ReceiverTrue' /\ Wire(net, Reached, Len(stream))'
  <2>1. Wire(net', Reached, Len(stream))
    BY <1>1 DEF Wire
  <2> QED
    BY <1>1, <1>3, <1>6, <2>1 DEF ReceiverTrue, StreamIntact, Wire, DataTrue, AckTrue
<1> QED
  BY <1>7, <1>11, <1>12 DEF StreamInv

\* on_tcp_packet() at the receiver: a sequence number that fits is that of the next byte.
LEMMA AppendStep ==
  ASSUME Sizes, StreamInv, NEW s \in net, ReceiveData(s)
  PROVE  Shape' /\ SenderTrue' /\ ReceiverTrue' /\ Wire(net, Reached', Len(stream')) /\ Len(stream') \in Nat
<1>1. Shape /\ SenderTrue /\ ReceiverTrue /\ Wire(net, Reached, Len(stream)) /\ Len(stream) \in Nat /\ SeqMod \in Nat
  BY DEF StreamInv, Shape, Sizes
<1>2. /\ Forgotten \in Nat /\ Reached \in Nat /\ Forgotten <= Reached /\ Reached < SeqMod
      /\ Len(stream) <= Reached
  BY <1>1, Bounds DEF ReceiverTrue
<1>3. /\ s.kind = "data"
      /\ stream' = stream \o SubSeq(s.bytes, 1, Takes(s)) /\ rx_len' = rx_len + Takes(s)
      /\ ack_num' = (ack_num + Takes(s)) % SeqMod
      /\ UNCHANGED <<frames, tx_len, tx_pos, flight, flight_seq, seq_num, tx_acked, peer_window, capacity, taken>>
  BY DEF ReceiveData, senderVars, Acked
<1>4. DataTrue(s, Reached)
  BY <1>1, <1>3, Kinds DEF Wire
<1>5. PICK p \in 0 .. Reached : \E n \in 0 .. Reached - p : s = Segment(SeqNo(p), [i \in 1 .. n |-> p + i])
  BY <1>4 DEF DataTrue
<1>6. PICK n \in 0 .. Reached - p : s = Segment(SeqNo(p), [i \in 1 .. n |-> p + i])
  BY <1>5
<1>7. /\ s.seq = SeqNo(p) /\ s.bytes = [i \in 1 .. n |-> p + i] /\ n \in Nat /\ p \in Nat /\ p + n <= Reached
  BY <1>2, <1>6 DEF Segment
<1>8. s.bytes \in Seq(Nat) /\ Len(s.bytes) = n
  BY <1>7
<1>9. rx_len \in Nat /\ capacity \in Nat /\ rx_len <= capacity /\ taken \in Nat /\ taken + rx_len = Len(stream)
  BY <1>1 DEF Shape, Sizes
<1> DEFINE k == Takes(s)
<1>10. k \in Nat /\ k <= n /\ rx_len + k <= capacity /\ (k > 0 => p = Len(stream))
  <2>1. CASE s.seq = ack_num
    <3>1. p = Len(stream)
      <4>1. SeqNo(p) = SeqNo(Len(stream))
        BY <1>1, <1>7, <2>1 DEF ReceiverTrue
      <4>2. p < SeqMod /\ Len(stream) < SeqMod
        BY <1>1, <1>2, <1>7
      <4> QED
        BY <1>1, <1>7, <4>1, <4>2, SeqNoOne
    <3>2. k = Min({n, capacity - rx_len})
      BY <1>8, <2>1 DEF Takes
    <3>3. n \in Int /\ capacity - rx_len \in Int /\ n >= 0 /\ capacity - rx_len >= 0
      BY <1>7, <1>9
    <3>4. k \in {n, capacity - rx_len} /\ k <= n /\ k <= capacity - rx_len
      BY <3>2, <3>3, MinOfTwo
    <3> HIDE DEF k
    <3> QED
      BY <1>7, <1>9, <3>1, <3>3, <3>4
  <2>2. CASE s.seq # ack_num
    BY <1>7, <1>9, <2>2 DEF Takes
  <2> QED
    BY <2>1, <2>2
<1> HIDE DEF k
<1>11. /\ SubSeq(s.bytes, 1, k) \in Seq(Nat) /\ Len(SubSeq(s.bytes, 1, k)) = k
       /\ \A i \in 1 .. k : SubSeq(s.bytes, 1, k)[i] = p + i
  BY <1>7, <1>8, <1>10
<1>12. stream \in Seq(Nat) /\ stream' = stream \o SubSeq(s.bytes, 1, k)
  BY <1>1, <1>3 DEF Shape, k
<1>13. stream' \in Seq(Nat) /\ Len(stream') = Len(stream) + k
  BY <1>10, <1>11, <1>12
<1>14. Len(stream') <= Reached
  BY <1>1, <1>2, <1>7, <1>10, <1>13
<1>15. \A i \in 1 .. Len(stream') : stream'[i] = i
  <2>1. ASSUME NEW i \in 1 .. Len(stream) PROVE stream'[i] = i
    <3>1. stream'[i] = stream[i] /\ i \in DOMAIN stream
      BY <1>11, <1>12
    <3> QED
      BY <1>1, <3>1 DEF ReceiverTrue, StreamIntact
  <2>2. ASSUME NEW i \in Len(stream) + 1 .. Len(stream) + k PROVE stream'[i] = i
    <3>1. i - Len(stream) \in 1 .. k /\ k > 0 /\ i \in Nat
      BY <1>1, <1>10
    <3>2. stream'[i] = SubSeq(s.bytes, 1, k)[i - Len(stream)]
      BY SMTT(60), <1>1, <1>10, <1>11, <1>12, <3>1
    <3> QED
      BY SMTT(60), <1>1, <1>10, <1>11, <3>1, <3>2
  <2> QED
    BY <1>1, <1>10, <1>13, <2>1, <2>2
<1>16. Forgotten' = Forgotten /\ Reached' = Reached
  BY <1>3 DEF Forgotten, Reached, Base
<1>17. Shape'
  <2>1. rx_len' \in 0 .. capacity' /\ taken' + rx_len' = Len(stream')
    <3>1. rx_len' = rx_len + k /\ capacity' = capacity /\ taken' = taken
      BY <1>3 DEF k
    <3> QED
      BY SMTT(60), <1>1, <1>9, <1>10, <1>13, <3>1
  <2> QED
    BY <1>1, <1>3, <1>13, <2>1 DEF Shape
<1>18. SenderTrue'
  <2>1. PICK a \in Forgotten .. Reached : tx_acked = SeqNo(a) /\ a <= Len(stream)
    BY <1>1 DEF SenderTrue
  <2>2. a <= Len(stream')
    BY <1>1, <1>2, <1>10, <1>13, <2>1
  <2> QED
    BY <1>1, <1>3, <1>16, <2>1, <2>2 DEF SenderTrue
<1>19. ReceiverTrue'
  <2>1. ack_num' = SeqNo(Len(stream'))
    <3>1. ack_num = SeqNo(Len(stream)) /\ Len(stream) \in Int /\ k \in Int
      BY <1>1, <1>10 DEF ReceiverTrue
    <3>2. (SeqNo(Len(stream)) + k) % SeqMod = SeqNo(Len(stream) + k)
      BY <3>1, SeqNoPlus
    <3> QED
      BY <1>3, <1>13, <3>1, <3>2 DEF k
  <2>2. StreamIntact'
    BY <1>13, <1>15 DEF StreamIntact
  <2> QED
    BY <1>14, <1>16, <2>1, <2>2 DEF ReceiverTrue
<1>20. Len(stream') \in Nat /\ Len(stream) <= Len(stream') /\ net \in SUBSET net
  BY <1>1, <1>10, <1>13
<1>21. Wire(net, Reached', Len(stream'))
  BY <1>1, <1>2, <1>16, <1>20, WireGrows
<1> QED
  BY <1>17, <1>18, <1>19, <1>20, <1>21

\* What the receiver says of itself is true.
LEMMA AdvertisedTrue ==
  ASSUME Sizes, Shape', ReceiverTrue', Reached' \in Nat, Wire(net, Reached', Len(stream'))
  PROVE  Wire(Sent({Advertised}), Reached', Len(stream'))
<1>1. Len(stream') \in Nat /\ capacity' - rx_len' \in Int
  BY SMTT(60) DEF Shape, Sizes
<1>2. Advertised = Ack(SeqNo(Len(stream')), capacity' - rx_len')
  BY DEF Advertised, ReceiverTrue
<1>3. Advertised.window = capacity' - rx_len'
  BY <1>2 DEF Ack
<1>4. AckTrue(Advertised, Len(stream'))
  BY <1>1, <1>2, <1>3 DEF AckTrue
<1>5. Wire({Advertised}, Reached', Len(stream'))
  BY <1>4 DEF Wire
<1> QED
  BY <1>1, <1>5, WireSent

LEMMA DeliverStep == ASSUME Sizes, StreamInv, NEW s \in net, Deliver(s) PROVE StreamInv'
<1>1. CASE ReceiveAck(s) /\ net' \in {net, net \ {s}}
  BY <1>1, ReceiveAckStep
<1>2. CASE ReceiveData(s) /\ net' \in {Sent({Advertised}), Sent({Advertised}) \ {s}}
  <2>1. Shape' /\ SenderTrue' /\ ReceiverTrue' /\ Wire(net, Reached', Len(stream')) /\ Len(stream') \in Nat
    BY <1>2, AppendStep
  <2>2. Reached' \in Nat
    <3>1. Reached' = Reached
      BY <1>2 DEF ReceiveData, senderVars, Reached, Forgotten, Base
    <3> QED
      BY <3>1, Bounds DEF StreamInv
  <2>3. Wire(Sent({Advertised}), Reached', Len(stream'))
    BY <2>1, <2>2, AdvertisedTrue
  <2>4. Wire(net', Reached', Len(stream'))
    BY <1>2, <2>3 DEF Wire
  <2> QED
    BY <2>1, <2>4 DEF StreamInv
<1> QED
  BY <1>1, <1>2 DEF Deliver

\* incoming() and serve() change what is advertised, and nothing of the stream.
LEMMA LocalStep == ASSUME Sizes, StreamInv, Incoming \/ Install PROVE StreamInv'
<1>1. Shape /\ SenderTrue /\ ReceiverTrue /\ Wire(net, Reached, Len(stream)) /\ Reached \in Nat
  BY Bounds DEF StreamInv
<1>2. /\ UNCHANGED <<frames, tx_len, tx_pos, flight, flight_seq, seq_num, tx_acked, peer_window, ack_num, stream>>
      /\ net' = Sent({Advertised})
  BY DEF Incoming, Install, senderVars
<1>3. Forgotten' = Forgotten /\ Reached' = Reached
  BY <1>2 DEF Forgotten, Reached, Base
<1>4. SenderTrue' /\ ReceiverTrue'
  BY <1>1, <1>2, <1>3 DEF SenderTrue, ReceiverTrue, StreamIntact
<1>5. Shape'
  <2>1. CASE Install
    <3>1. rx_len' \in 0 .. capacity' /\ capacity' = Buffer /\ UNCHANGED <<rx_len, taken>>
      BY <1>1, <2>1 DEF Install, Shape, Sizes
    <3> QED
      BY <1>1, <1>2, <3>1 DEF Shape
  <2>2. CASE Incoming
    <3> DEFINE take == Min({rx_len, FrameLen - (taken % FrameLen)})
    <3>1. rx_len \in Nat /\ FrameLen \in Nat \ {0} /\ taken \in Nat /\ capacity \in Nat /\ rx_len <= capacity
      BY <1>1 DEF Shape, Sizes
    <3>2. taken % FrameLen \in 0 .. FrameLen - 1
      BY <3>1, Quotient
    <3>3. FrameLen - (taken % FrameLen) \in Nat
      BY <3>1, <3>2
    <3>4. take \in {rx_len, FrameLen - (taken % FrameLen)} /\ take <= rx_len
      BY <3>1, <3>3, MinOfTwo
    <3>5. taken' = taken + take /\ rx_len' = rx_len - take /\ capacity' = capacity
      BY <2>2 DEF Incoming
    <3> HIDE DEF take
    <3>6. take \in Nat
      BY <3>1, <3>3, <3>4
    <3>7. taken' \in Nat /\ rx_len' \in 0 .. capacity' /\ taken' + rx_len' = taken + rx_len
      BY <3>1, <3>4, <3>5, <3>6
    <3> QED
      BY <1>1, <1>2, <3>5, <3>7 DEF Shape
  <2> QED
    BY <2>1, <2>2
<1>6. Wire(net, Reached', Len(stream'))
  BY <1>1, <1>2, <1>3
<1>7. Wire(net', Reached', Len(stream'))
  BY <1>1, <1>2, <1>3, <1>4, <1>5, <1>6, AdvertisedTrue
<1> QED
  BY <1>4, <1>5, <1>7 DEF StreamInv

LEMMA LoseStep == ASSUME StreamInv, NEW s \in net, Lose(s) \/ UNCHANGED vars PROVE StreamInv'
<1>1. net' \subseteq net /\ UNCHANGED <<senderVars, receiverVars>>
  BY DEF Lose, vars
<1> QED
  BY <1>1 DEF StreamInv, Shape, SenderTrue, ReceiverTrue, StreamIntact, Wire, DataTrue, AckTrue, Forgotten, Reached, Base,
     senderVars, receiverVars

LEMMA StreamNext == ASSUME Sizes, StreamInv, [Next]_vars PROVE StreamInv'
<1>1. CASE UNCHANGED vars
  BY <1>1 DEF vars, StreamInv, Shape, SenderTrue, ReceiverTrue, StreamIntact, Wire, DataTrue, AckTrue, Forgotten, Reached,
     Base, senderVars, receiverVars
<1>2. CASE Outgoing
  BY <1>2, OutgoingStep
<1>3. CASE Incoming \/ Install
  BY <1>3, LocalStep
<1>4. ASSUME NEW late \in BOOLEAN, Transmit(late) PROVE StreamInv'
  BY <1>4, TransmitStep
<1>5. ASSUME NEW s \in net, Deliver(s) PROVE StreamInv'
  BY <1>5, DeliverStep
<1>6. ASSUME NEW s \in net, Lose(s) PROVE StreamInv'
  BY <1>6, LoseStep
<1> QED
  BY <1>1, <1>2, <1>3, <1>4, <1>5, <1>6 DEF Next

-----------------------------------------------------------------------------
(* The theorems.                                                            *)

\* What the invariant says of the two ends.
LEMMA Ends == ASSUME Sizes, StreamInv PROVE StreamIntact /\ AckedIsReceived /\ FlightInOrder
<1>1. StreamIntact
  BY DEF StreamInv, ReceiverTrue
<1>2. AckedIsReceived
  <2>1. PICK a \in Forgotten .. Reached : a <= Len(stream)
    BY DEF StreamInv, SenderTrue
  <2>2. Forgotten \in Nat /\ Reached \in Nat /\ Len(stream) \in Nat /\ frames \in Nat
    BY Bounds DEF StreamInv, Shape
  <2>3. frames > 0 => Forgotten = Base
    BY <2>2 DEF Forgotten
  <2> QED
    BY <2>1, <2>2, <2>3 DEF AckedIsReceived
<1>3. ASSUME tx_len > 0 PROVE FlightInOrder
  <2>1. Shape /\ frames # 0 /\ flight \in Nat /\ First \in Int /\ FrameLen \in Nat
    BY <1>3 DEF StreamInv, Shape, Sizes
  <2>2. Forgotten = Base /\ Base \in Int
    BY <2>1, Bounds DEF Forgotten
  <2>3. seq_num = SeqNo(Base + flight) /\ (flight > 0 => flight_seq = SeqNo(Base))
    BY <1>3, <2>2 DEF StreamInv, SenderTrue, Reached
  <2>4. First + (Base + flight) = First + Base + flight
    BY <2>1, <2>2
  <2> QED
    BY <2>3, <2>4 DEF FlightInOrder, SeqNo
<1>4. ASSUME ~(tx_len > 0) PROVE FlightInOrder
  BY <1>4 DEF FlightInOrder
<1> QED
  BY <1>1, <1>2, <1>3, <1>4

LEMMA Inductive == ASSUME Sizes PROVE Spec => []StreamInv
  BY StreamInit, StreamNext, PTL DEF Spec

\* What on_tcp_packet() appends is the stream outgoing() was given: in order, nothing left
\* out and nothing twice, for every loss, repetition, reordering and full buffer.
THEOREM StreamArrives == ASSUME Sizes PROVE Spec => []StreamIntact
  BY Ends, Inductive, PTL

\* transmit() gives up its copy of a byte only when the receiver has it.
THEOREM NothingForgotten == ASSUME Sizes PROVE Spec => []AckedIsReceived
  BY Ends, Inductive, PTL

\* Through acknowledgments of a part, replays and wrap-around, flight_seq and seq_num are
\* the numbers of the first byte in flight and of the next to be sent.
THEOREM FlightIsInOrder == ASSUME Sizes PROVE Spec => []FlightInOrder
  BY Ends, Inductive, PTL
=============================================================================

----------------------------- MODULE Cr2Stream -----------------------------
(***************************************************************************)
(* One direction of an RNTP connection, byte by byte: the sender is        *)
(* outgoing() and transmit() of c/rntp/main.c on top of tcp_write() of      *)
(* c/libcr2/net.c, the receiver on_tcp_packet() and incoming().            *)
(*                                                                         *)
(* The network loses, duplicates and reorders segments.  A byte is its      *)
(* position in the stream of all frames, so that a byte taken twice, left   *)
(* out or misplaced is seen; a sequence number is a position counted from   *)
(* First modulo SeqMod, so that the stream crosses the wrap-around.         *)
(***************************************************************************)
EXTENDS Integers, Sequences, FiniteSets, FiniteSetsExt

CONSTANTS FrameLen,     \* bytes of a frame
          MaxFrames,    \* bound: frames submitted
          Mss,          \* tcp_peer_mss()
          Burst,        \* segments one pass of transmit() may add (8)
          SmallBuffer,  \* RX_BUFFER_SIZE, until the stream installs its own
          Buffer,       \* sizeof(tcp_rx)
          SeqMod,       \* 2^32
          First,        \* sequence number of the first byte
          MaxNet        \* bound: segments the network holds

VARIABLES frames,      \* sender: frames submitted so far
          tx_len, tx_pos, flight, flight_seq,   \* sender: Stream
          seq_num, tx_acked, peer_window,       \* sender: socket
          capacity, ack_num, rx_len,            \* receiver: socket
          stream,      \* receiver: every byte it has ever appended
          taken,       \* receiver: how many of them incoming() has consumed
          net          \* segments under way

senderVars   == <<frames, tx_len, tx_pos, flight, flight_seq, seq_num, tx_acked, peer_window>>
receiverVars == <<capacity, ack_num, rx_len, stream, taken>>
vars == <<senderVars, receiverVars, net>>

Segment(seq, bytes) == [kind |-> "data", seq |-> seq, bytes |-> bytes]
Ack(ack, window)    == [kind |-> "ack", ack |-> ack, window |-> window]

\* Segments under way make room for new ones and are lost.
Crowded(segments) == CHOOSE lost \in SUBSET (net \cup segments) :
    /\ Cardinality(lost) = Max({0, Cardinality(net \cup segments) - MaxNet})
    /\ lost \cap segments = {} \/ net \ segments \subseteq lost
Sent(segments) == (net \cup segments) \ Crowded(segments)

\* Position in the stream of the first byte the frame still holds unacknowledged.
Base == (frames - 1) * FrameLen + tx_pos

-----------------------------------------------------------------------------
(* The sender.                                                              *)

\* outgoing(): the next frame, once the reply to the last one has come, which
\* acknowledges all of it.
Outgoing ==
    /\ frames < MaxFrames
    /\ taken = frames * FrameLen
    /\ tx_acked = seq_num
    /\ frames' = frames + 1
    /\ tx_len' = FrameLen
    /\ tx_pos' = 0
    /\ flight' = 0
    /\ UNCHANGED <<flight_seq, seq_num, tx_acked, peer_window, receiverVars, net>>

\* n bytes from position p on, under sequence number s, in segments of at most Mss.
Chunks(s, p, n) ==
    { Segment((s + k) % SeqMod, [i \in 1 .. Min({Mss, n - k}) |-> p + k + i])
        : k \in {j \in 0 .. n - 1 : j % Mss = 0} }

\* Faulty variant: the flight is not cut short by what is acknowledged.
AckedOfFlightNever == LET acked == (tx_acked - flight_seq) % SeqMod IN IF acked = flight THEN acked ELSE 0

\* The acknowledged part of the flight; a count beyond it is none of ours.
AckedOfFlight ==
    LET acked == (tx_acked - flight_seq) % SeqMod
    IN  IF flight > 0 /\ acked <= flight THEN acked ELSE 0

\* How much a pass may add to a flight of f bytes of which the frame has r left.
MayAdd(f, r) == Max({0, Min({r - f, peer_window - f, Burst * Mss})})

\* Where a replay starts: the oldest byte that is not acknowledged.
ReplayFrom(acked) == Base + acked

\* Sequence number of the oldest byte in flight.
FlightStart(acked, f, fresh) ==
    IF f = 0 /\ fresh > 0 THEN seq_num ELSE (flight_seq + acked) % SeqMod

\* transmit(), in full: take the acknowledgments, replay the outstanding range
\* when it is late, add a burst the window allows, and finish the frame.  A
\* probe of a closed window carries nothing, and on_tcp_packet() does not
\* answer it.
Transmit(late) ==
    /\ tx_len > 0
    /\ LET acked == AckedOfFlight
           f     == flight - acked
           fresh == MayAdd(f, tx_len - tx_pos - acked)
       IN  /\ tx_pos' = tx_pos + acked
           /\ flight' = f + fresh
           /\ flight_seq' = FlightStart(acked, f, fresh)
           /\ seq_num' = (seq_num + fresh) % SeqMod
           /\ tx_len' = IF tx_pos' = tx_len /\ flight' = 0 THEN 0 ELSE tx_len
           /\ net' = Sent(Chunks(seq_num, Base + acked + f, fresh)
                          \cup IF late THEN Chunks(flight_seq + acked, ReplayFrom(acked), f) ELSE {})
    /\ UNCHANGED <<frames, tx_acked, peer_window, receiverVars>>

\* Cumulative, never backwards, never past what was sent.
NewAck(ack) ==
    LET ahead == (ack - tx_acked) % SeqMod
    IN  0 < ahead /\ ahead < SeqMod \div 2 /\ ahead <= (seq_num - tx_acked) % SeqMod

\* on_tcp_packet() at the sender.  The window is that of the segment, old or new.
ReceiveAck(s) ==
    /\ s.kind = "ack"
    /\ peer_window' = s.window
    /\ tx_acked' = IF NewAck(s.ack) THEN s.ack ELSE tx_acked
    /\ UNCHANGED <<frames, tx_len, tx_pos, flight, flight_seq, seq_num, receiverVars>>

-----------------------------------------------------------------------------
(* The receiver.                                                            *)

\* What send_tcp_packet() says of the receiver in every segment.
Advertised == Ack(ack_num', capacity' - rx_len')

\* Faulty variant: any segment is taken for the next one.
TakesAny(s) == Min({Len(s.bytes), capacity - rx_len})

\* The part of a segment that is appended: nothing unless it is the next one,
\* and only what fits.
Takes(s) == IF s.seq = ack_num THEN Min({Len(s.bytes), capacity - rx_len}) ELSE 0

\* How far a segment moves ack_num.
Acked(s) == Takes(s)

\* on_tcp_packet() at the receiver: what is in order and fits is appended, and
\* every segment with data is answered.
ReceiveData(s) ==
    /\ s.kind = "data"
    /\ stream' = stream \o SubSeq(s.bytes, 1, Takes(s))
    /\ rx_len' = rx_len + Takes(s)
    /\ ack_num' = (ack_num + Acked(s)) % SeqMod
    /\ UNCHANGED <<senderVars, capacity, taken>>

\* incoming(): take what the frame still needs, shift the rest, announce the room.
Incoming ==
    /\ rx_len > 0
    /\ LET take == Min({rx_len, FrameLen - (taken % FrameLen)})
       IN  /\ taken' = taken + take
           /\ rx_len' = rx_len - take
    /\ UNCHANGED <<capacity, ack_num, stream>>
    /\ net' = Sent({Advertised})
    /\ UNCHANGED senderVars

\* serve(): the stream's own buffer replaces the small one.
Install ==
    /\ capacity # Buffer
    /\ capacity' = Buffer
    /\ UNCHANGED <<ack_num, rx_len, stream, taken>>
    /\ net' = Sent({Advertised})
    /\ UNCHANGED senderVars

-----------------------------------------------------------------------------
(* The network.                                                             *)

\* A segment arrives; it may arrive again.
Deliver(s) ==
    \/ ReceiveAck(s) /\ net' \in {net, net \ {s}}
    \/ ReceiveData(s) /\ net' \in {Sent({Advertised}), Sent({Advertised}) \ {s}}

Lose(s) == net' = net \ {s} /\ UNCHANGED <<senderVars, receiverVars>>

Init ==
    /\ frames = 0
    /\ tx_len = 0 /\ tx_pos = 0 /\ flight = 0 /\ flight_seq = 0
    /\ seq_num = First
    /\ tx_acked = First
    /\ peer_window = SmallBuffer
    /\ capacity = SmallBuffer
    /\ ack_num = First
    /\ rx_len = 0
    /\ stream = <<>>
    /\ taken = 0
    /\ net = {}

Next ==
    \/ Outgoing \/ Incoming \/ Install
    \/ \E late \in BOOLEAN : Transmit(late)
    \/ \E s \in net : Deliver(s) \/ Lose(s)

Spec == Init /\ [][Next]_vars

Once(s) == net' = Sent({Advertised}) \ {s}

-----------------------------------------------------------------------------
(* Properties.                                                              *)

\* The receiver appends the bytes of the stream in order, each once, whatever the
\* network does to the segments and wherever a segment did not fit.
StreamIntact == \A i \in DOMAIN stream : stream[i] = i

\* The sender forgets a byte (moves tx_pos past it, or reuses the buffer for the
\* next frame) only when the receiver has it.
AckedIsReceived == frames > 0 => Base <= Len(stream)

\* The bookkeeping of transmit(): the flight is the range between the oldest
\* unacknowledged byte and the next sequence number, also while acknowledgments
\* cut it short and across the wrap-around.
FlightInOrder ==
    tx_len > 0 =>
        /\ seq_num = (First + Base + flight) % SeqMod
        /\ flight > 0 => flight_seq = (First + Base) % SeqMod
=============================================================================

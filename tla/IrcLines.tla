------------------------------ MODULE IrcLines ------------------------------
(***************************************************************************)
(* memento-hello/windows/irc_window.cpp: pollNet() cuts what a connection   *)
(* brings into lines, whatever the segments it comes in.                    *)
(***************************************************************************)
EXTENDS Integers, Sequences, SequencesExt

CONSTANTS Letters,      \* what lines are made of
          MaxLine,      \* 512: what linebuf takes
          MaxSegment,   \* 1024: what read() returns at once
          MaxSent       \* bound: bytes of a connection

CR == "CR"
LF == "LF"
Chars == Letters \cup {CR, LF}

VARIABLES partial,    \* ircPartial
          sent,       \* history: bytes of this connection
          lines       \* history: lines processLine() had of it

vars == <<partial, sent, lines>>

Init == partial = <<>> /\ sent = <<>> /\ lines = <<>>

\* One line of rx, or as much of it as there is room for.
RECURSIVE Chunk(_, _)
Chunk(line, rx) ==
    IF rx = <<>> \/ Len(line) >= MaxLine THEN [line |-> line, rest |-> rx, newline |-> FALSE]
    ELSE IF Head(rx) = LF THEN [line |-> line, rest |-> Tail(rx), newline |-> TRUE]
    ELSE Chunk(IF Head(rx) = CR THEN line ELSE Append(line, Head(rx)), Tail(rx))

\* What follows the next newline in rx, if there is one.
RECURSIVE Resync(_)
Resync(rx) == IF rx = <<>> THEN rx ELSE IF Head(rx) = LF THEN Tail(rx) ELSE Resync(Tail(rx))

\* The segment ended mid-line.
Saved(line) == line

\* The loop over rx: the lines it processes and what it keeps.
RECURSIVE Poll(_, _, _)
Poll(line, rx, done) ==
    IF rx = <<>> THEN [partial |-> <<>>, lines |-> done]
    ELSE LET c == Chunk(line, rx)
         IN IF c.newline THEN Poll(<<>>, c.rest, IF c.line = <<>> THEN done ELSE Append(done, c.line))
            ELSE IF c.rest # <<>> THEN Poll(<<>>, Resync(c.rest), done)
            ELSE [partial |-> Saved(c.line), lines |-> done]

Segments == UNION {[1 .. n -> Chars] : n \in 1 .. MaxSegment}

Receive(rx) == /\ Len(sent) + Len(rx) <= MaxSent
               /\ LET p == Poll(partial, rx, lines)
                  IN partial' = p.partial /\ lines' = p.lines
               /\ sent' = sent \o rx

\* Faulty variant: the start of a line outlives its connection.
DisconnectedKeeps == partial' = partial

\* The connection is closed, and another one made.
Disconnected == partial' = <<>>

Disconnect == sent # <<>> /\ Disconnected /\ sent' = <<>> /\ lines' = <<>>

Next == (\E rx \in Segments : Receive(rx)) \/ Disconnect

-----------------------------------------------------------------------------
(* What the lines of a stream are.                                          *)

Ends == {i \in 1 .. Len(sent) : sent[i] = LF}
StartOf(e) == 1 + (IF \E f \in Ends : f < e THEN CHOOSE f \in Ends : f < e /\ \A g \in Ends : g < e => g <= f ELSE 0)
Text(a, b) == SelectSeq(SubSeq(sent, a, b), LAMBDA c : c # CR)
LineAt(e) == Text(StartOf(e), e - 1)
Whole == {e \in Ends : Len(LineAt(e)) \in 1 .. MaxLine - 1}
InOrder == SetToSortSeq(Whole, <)
LinesOf == [i \in 1 .. Len(InOrder) |-> LineAt(InOrder[i])]
Fits == \A a \in 1 .. Len(sent) : \A b \in a .. Len(sent) : (\A i \in a .. b : sent[i] # LF) => Len(Text(a, b)) < MaxLine

\* However the stream was cut into segments, the lines processed are the lines of this
\* connection, in order, as long as none is longer than what is kept.
LinesWhole == Fits => lines = LinesOf
=============================================================================

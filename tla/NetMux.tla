------------------------------- MODULE NetMux -------------------------------
(***************************************************************************)
(* cpp/memento-hello/netmux.cpp: the frames the kernel queues for Memento,  *)
(* shared by the stacks inside it.  Whoever asks sorts what it finds; what  *)
(* is for another is kept in that one's ring while it is listening.         *)
(*                                                                         *)
(* A frame is the number of its arrival and its kind: "arp", for everyone,  *)
(* the client that claimed its port, or "other": ICMP and the rest of IP.   *)
(* Frames owner() cannot read (not IP, fragments, cut short) are left out:  *)
(* they go to the fallback.                                                 *)
(***************************************************************************)
EXTENDS Integers, Sequences

CONSTANTS Stash,       \* frames a ring holds
          Queue,       \* frames the kernel queues
          Burst,       \* frames one pull looks at
          MaxFrames    \* bound on arrivals

Clients == {"WEB", "CR2", "NSK"}
Kinds == Clients \cup {"arp", "other"}
Nothing == [n |-> 0, kind |-> "other"]

VARIABLES kernel,      \* the kernel's queue
          ring,        \* per client: slots, head, count
          listening,   \* per client: it has asked within IDLE_MS
          arrived,     \* frames so far
          asking,      \* the call of netmux_pull() that is looking, and how often it still may
          got          \* per client: the frame it was given last

vars == <<kernel, ring, listening, arrived, asking, got>>

Nobody == [who |-> "none", left |-> 0]

EmptyRing == [slot |-> [i \in 0 .. Stash - 1 |-> Nothing], head |-> 0, count |-> 0]

Init == /\ kernel = <<>> /\ arrived = 0 /\ asking = Nobody
        /\ ring = [c \in Clients |-> EmptyRing]
        /\ listening = [c \in Clients |-> FALSE]
        /\ got = [c \in Clients |-> Nothing]

\* owner(): the claims, and what nobody claims to one stack that is there.
Fallback == IF listening["CR2"] \/ ~listening["WEB"] THEN "CR2" ELSE "WEB"

Owner(f) ==
    CASE f.kind = "other" -> IF listening["WEB"] THEN "WEB" ELSE Fallback
      [] f.kind = "NSK" -> IF listening["NSK"] THEN "NSK" ELSE Fallback
      [] OTHER -> f.kind

SlotOf(r, i) == (r.head + i) % Stash

\* keep(): a full ring drops the frame.
Kept(r, f) ==
    IF r.count = Stash THEN r ELSE [r EXCEPT !.slot[SlotOf(r, r.count)] = f, !.count = @ + 1]

\* give(): a slot that was given away reads Nothing.
Given(r) == [r EXCEPT !.slot[r.head] = Nothing, !.head = SlotOf(r, 1), !.count = @ - 1]

\* The others that get a copy of a frame.
Copies(f, who) == {c \in Clients \ {who} : listening[c] /\ Owner(f) \in {c, "arp"}}

Mine(f, who) == Owner(f) \in {who, "arp"}

Gets(who, f) == got' = [got EXCEPT ![who] = f]

\* Faulty variant: what waits is left for later.
WaitedFirstNot(who) == ring[who].count = Stash

\* "What waited here comes first: it arrived first."
WaitedFirst(who) == ring[who].count > 0

\* netmux_pull(): what waits, or the kernel's queue is looked through.  It reads the
\* clock once, and nobody else is served meanwhile.
Pull(who) ==
    /\ asking = Nobody
    /\ listening' = [listening EXCEPT ![who] = TRUE]
    /\ IF WaitedFirst(who)
       THEN /\ Gets(who, ring[who].slot[ring[who].head])
            /\ ring' = [ring EXCEPT ![who] = Given(@)]
            /\ UNCHANGED asking
       ELSE /\ asking' = [who |-> who, left |-> Burst]
            /\ UNCHANGED <<ring, got>>
    /\ UNCHANGED <<kernel, arrived>>

\* One turn of its loop: the next frame, copied to those it is for, ends the call if it
\* is the caller's.
Sort ==
    LET who == asking.who
        f == Head(kernel)
    IN  /\ asking # Nobody /\ asking.left > 0 /\ kernel # <<>>
        /\ kernel' = Tail(kernel)
        /\ ring' = [c \in Clients |-> IF c \in Copies(f, who) THEN Kept(ring[c], f) ELSE ring[c]]
        /\ IF Mine(f, who) THEN Gets(who, f) /\ asking' = Nobody
           ELSE asking' = [asking EXCEPT !.left = @ - 1] /\ UNCHANGED got
        /\ UNCHANGED <<listening, arrived>>

\* The queue is empty, or the call has looked often enough.
GiveUp ==
    /\ asking # Nobody /\ (asking.left = 0 \/ kernel = <<>>)
    /\ asking' = Nobody
    /\ UNCHANGED <<kernel, ring, listening, arrived, got>>

\* netmux_forget().
Forget(who) ==
    /\ asking = Nobody
    /\ listening' = [listening EXCEPT ![who] = FALSE]
    /\ ring' = [ring EXCEPT ![who] = EmptyRing]
    /\ UNCHANGED <<kernel, arrived, asking, got>>

\* IDLE_MS pass without a question of that client.
Silent(who) ==
    /\ asking = Nobody
    /\ listening' = [listening EXCEPT ![who] = FALSE]
    /\ UNCHANGED <<kernel, ring, arrived, asking, got>>

\* The kernel queues a frame, at any time.
Arrives(kind) ==
    /\ arrived < MaxFrames /\ Len(kernel) < Queue
    /\ arrived' = arrived + 1
    /\ kernel' = Append(kernel, [n |-> arrived + 1, kind |-> kind])
    /\ UNCHANGED <<ring, listening, asking, got>>

Next == \/ \E who \in Clients : Pull(who) \/ Forget(who) \/ Silent(who)
        \/ Sort \/ GiveUp
        \/ \E kind \in Kinds : Arrives(kind)

-----------------------------------------------------------------------------
\* A stack is given frames in the order they came in, and none of them twice,
\* whoever took them from the kernel.
GivenInOrder == \A c \in Clients : got'[c] = got[c] \/ got'[c].n > got[c].n

\* A frame for a claimed port is given to the stack that claimed it and to no other;
\* only the answers to a tool that is not there go to a stack.
For(c) == {c, "arp", "other"} \cup (IF c \in {"CR2", "WEB"} THEN {"NSK"} ELSE {})
RightStack == \A c \in Clients : got[c].kind \in For(c)

\* An ARP frame one stack takes from the kernel waits for every other that listens
\* and whose ring had room.
Waits(r, f) == \E i \in 0 .. r.count - 1 : r.slot[SlotOf(r, i)] = f
ArpReachesAll ==
    \A who, c \in Clients :
        got'[who] # got[who] /\ kernel' # kernel /\ got'[who].kind = "arp"
            /\ c # who /\ listening[c] /\ ring[c].count < Stash
        => Waits(ring'[c], got'[who])
=============================================================================

-------------------------- MODULE TelegramPictures --------------------------
(***************************************************************************)
(* go/telegram/app.go: the ring of messages, the pictures fetched for them  *)
(* and the slots the decoded ones are kept in, and the menu and the reply,   *)
(* which name a message by its number.                                      *)
(*                                                                         *)
(* A picture is the number of the message it was sent with.                 *)
(***************************************************************************)
EXTENDS Integers, Sequences, SequencesExt, FiniteSets

CONSTANTS MaxMsgs, MaxPhotos, MaxWanted, MaxAnimated,   \* maxMsgs, ...
          Total,            \* bound: messages ever added
          StillFails        \* Still(0) may find no memory

None == -1

VARIABLES total,        \* msgTotal
          photo,        \* per row of the ring: its slot, or None
          slots,        \* per slot: [seq, pic, anim]
          wanted,       \* [seq, kind]
          mp4,          \* mp4Seq
          menu, reply   \* menuSeq, replySeq

vars == <<total, photo, slots, wanted, mp4, menu, reply>>

Slots == 1 .. MaxPhotos
Oldest(n) == IF n > MaxMsgs THEN n - MaxMsgs ELSE 0
InRing == Oldest(total) .. total - 1
At(seq) == seq % MaxMsgs
Empty == [seq |-> None, pic |-> None, anim |-> None]
HasPicture(p) == p.pic # None \/ p.anim # None

Init == /\ total = 0 /\ photo = [r \in 0 .. MaxMsgs - 1 |-> None]
        /\ slots = [s \in Slots |-> Empty] /\ wanted = <<>> /\ mp4 = None
        /\ menu = None /\ reply = None

-----------------------------------------------------------------------------
\* wantMedia(): a photo; a GIF file; an MP4, with its still before it if it has one.
Media == {<<>>, <<"still">>, <<"gif">>, <<"mp4">>, <<"still", "mp4">>}

\* want(): a full queue loses its head.
Want(q, w) == Append(IF Len(q) = MaxWanted THEN Tail(q) ELSE q, w)

\* The picture of the message that leaves the ring goes with it.
Leaves(gone) == IF gone >= 0 /\ photo[At(gone)] # None
                THEN [slots EXCEPT ![photo[At(gone)]] = Empty] ELSE slots

\* A message that leaves the ring is not what the menu or the reply is about.
Forget(seq, gone) == IF seq = gone THEN None ELSE seq

\* takeMessage(), addMsg().
TakeMessage ==
    \E media \in Media : LET gone == IF total >= MaxMsgs THEN total - MaxMsgs ELSE -2 IN
    /\ total < Total
    /\ wanted' = FoldLeft(LAMBDA q, k : Want(q, [seq |-> total, kind |-> k]), wanted, media)
    /\ slots' = Leaves(gone)
    /\ photo' = [photo EXCEPT ![At(total)] = None]
    /\ menu' = Forget(menu, gone) /\ reply' = Forget(reply, gone)
    /\ total' = total + 1
    /\ UNCHANGED mp4

-----------------------------------------------------------------------------
(* Slots.                                                                   *)

Owner(s) == slots[s].seq
HasAlready(seq) == photo[At(seq)] # None /\ Owner(photo[At(seq)]) = seq

\* The first free slot, else the one kept longest.
Victim == LET free == {s \in Slots : Owner(s) = None} IN
          IF free # {} THEN CHOOSE s \in free : \A t \in free : s <= t
          ELSE CHOOSE s \in Slots : \A t \in Slots : Owner(s) < Owner(t) \/ (Owner(s) = Owner(t) /\ s <= t)

\* slotFor(): the slot, the rows and the slots after it.
SlotFor(seq) ==
    IF HasAlready(seq) THEN [slot |-> photo[At(seq)], photo |-> photo, slots |-> slots]
    ELSE LET own == Owner(Victim) IN
         [slot |-> Victim,
          photo |-> IF own >= Oldest(total) /\ photo[At(own)] = Victim THEN [photo EXCEPT ![At(own)] = None] ELSE photo,
          slots |-> [slots EXCEPT ![Victim] = Empty]]

\* attach(): a slot with nothing in it stays free.
Attached(st, seq) ==
    IF ~HasPicture(st.slots[st.slot]) THEN [st EXCEPT !.slots[st.slot].seq = None]
    ELSE [st EXCEPT !.slots[st.slot].seq = seq, !.photo[At(seq)] = st.slot]

\* keepAnimations(): the oldest of too many keeps its still, or its first frame.
KeepAnimations(ss, keep, fail) ==
    LET moving == {s \in Slots : ss[s].anim # None}
        others == moving \ {keep}
        old == CHOOSE s \in others : \A t \in others : ss[s].seq < ss[t].seq \/ (ss[s].seq = ss[t].seq /\ s <= t)
        pic == IF ss[old].pic # None THEN ss[old].pic ELSE IF fail THEN None ELSE ss[old].anim
    IN IF Cardinality(moving) <= MaxAnimated \/ others = {} THEN ss
       ELSE [ss EXCEPT ![old] = [seq |-> IF pic = None THEN None ELSE @.seq, pic |-> pic, anim |-> None]]

Became(st) == photo' = st.photo /\ slots' = st.slots

-----------------------------------------------------------------------------
(* Pictures come.                                                           *)

DropWanted == wanted' = Tail(wanted)

\* getFile or the file failed, or the picture cannot be decoded and nothing changes.
NotFetched == wanted # <<>> /\ DropWanted /\ UNCHANGED <<total, photo, slots, mp4, menu, reply>>

\* Faulty variant: a picture is kept for whatever message now has the row.
TooLateNever(seq) == FALSE

TooLate(seq) == seq < Oldest(total)

\* photoArrived(): a still, or every frame of a GIF, or its first.
PhotoArrived(decoded, fail) ==
    /\ wanted # <<>> /\ Head(wanted).kind # "mp4" /\ DropWanted
    /\ decoded = "anim" => Head(wanted).kind = "gif"
    /\ fail => StillFails
    /\ LET seq == Head(wanted).seq
           st == SlotFor(seq)
           put == IF decoded = "none" THEN st.slots
                  ELSE IF decoded = "anim" THEN KeepAnimations([st.slots EXCEPT ![st.slot].anim = seq], st.slot, fail)
                  ELSE [st.slots EXCEPT ![st.slot].pic = IF st.slots[st.slot].anim = None THEN seq ELSE @]
       IN IF TooLate(seq) THEN UNCHANGED <<photo, slots>>
          ELSE Became(Attached([st EXCEPT !.slots = put], seq))
    /\ UNCHANGED <<total, mp4, menu, reply>>

\* mp4Arrived(): decoding starts; startNext() does not ask for one while another decodes.
Mp4Arrived ==
    /\ wanted # <<>> /\ Head(wanted).kind = "mp4" /\ mp4 = None /\ DropWanted
    /\ mp4' = IF TooLate(Head(wanted).seq) THEN None ELSE Head(wanted).seq
    /\ UNCHANGED <<total, photo, slots, menu, reply>>

\* decodeSome(), the last of it.
DecodeEnds(ok, fail) ==
    /\ mp4 # None /\ mp4' = None /\ (fail => StillFails)
    /\ LET st == SlotFor(mp4)
           at == Attached([st EXCEPT !.slots[st.slot].anim = mp4], mp4)
       IN IF ~ok \/ TooLate(mp4) THEN UNCHANGED <<photo, slots>>
          ELSE Became([at EXCEPT !.slots = KeepAnimations(@, st.slot, fail)])
    /\ UNCHANGED <<total, wanted, menu, reply>>

-----------------------------------------------------------------------------
(* The menu and the reply.                                                  *)

\* openMenu(), menuToMessage(): on a message that was painted.
OpenMenu(seq) == seq \in InRing /\ menu' = seq /\ UNCHANGED <<total, photo, slots, wanted, mp4, reply>>

CloseMenu == menu # None /\ menu' = None /\ UNCHANGED <<total, photo, slots, wanted, mp4, reply>>

\* pickMenu(), replyTo().
PickReply == /\ menu # None /\ menu' = None /\ reply' = menu
             /\ UNCHANGED <<total, photo, slots, wanted, mp4>>

\* send(), cancelReply().
CancelReply == reply # None /\ reply' = None /\ UNCHANGED <<total, photo, slots, wanted, mp4, menu>>

Next == \/ TakeMessage \/ NotFetched \/ Mp4Arrived \/ CloseMenu \/ PickReply \/ CancelReply
        \/ \E d \in {"pic", "anim", "none"}, f \in BOOLEAN : PhotoArrived(d, f)
        \/ \E ok, f \in BOOLEAN : DecodeEnds(ok, f)
        \/ \E seq \in InRing : OpenMenu(seq)

-----------------------------------------------------------------------------
\* "The decoded ones, each kept for the message it belongs to": under a message is
\* its own picture, however often slots and rows are used again.
PictureIsOwn == \A seq \in InRing : photo[At(seq)] # None =>
    LET p == slots[photo[At(seq)]] IN {p.pic, p.anim} \subseteq {None, seq}

\* No decoded picture is kept that no message can show: its memory would be lost.
NoneLost == \A s \in Slots : HasPicture(slots[s]) =>
    slots[s].seq \in InRing /\ photo[At(slots[s].seq)] = s

\* Frames are kept of only so many GIFs.
FewAnimated == Cardinality({s \in Slots : slots[s].anim # None}) <= MaxAnimated

\* The menu and the quote above the input are about messages that are still there.
MenuInRing == {menu, reply} \subseteq InRing \cup {None}
=============================================================================

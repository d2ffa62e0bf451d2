---------------------------- MODULE HostedWindow ----------------------------
(* Memento's windows whose contents another process draws:                   *)
(* src/cpp/memento-hello/windows/hosted_window.cpp on the desktop's side,    *)
(* src/cpp/r2web/host.h for the block they share, and the program's side as  *)
(* r2web, jug and the Go package hosted have it.  Every step makes at most   *)
(* one access to a word of the block that the other side may change at the   *)
(* time; pixels are copied in two halves.  A picture is <<program, serial>>. *)
EXTENDS Integers, Sequences, FiniteSets, FiniteSetsExt

CONSTANTS Slots,       \* g_hostedSlots
          Queue,       \* r2web::Queue
          IndexMod,    \* 2^32, which Queue divides
          MaxLaunches, \* bound: how many programs are started
          Bounds       \* bounds of a behaviour: its slots, how many programs are started, how many
                       \* frames each draws, commands it is sent but for its first size, and texts it
                       \* copies, and the sizes of the window

VARIABLES blk,    \* the blocks
          slot,   \* g_hostedSlots: [child, orphan], child 0 where there is no block
          wnd,    \* the window and where its code is
          prog,   \* the programs and where they are
          count   \* how many programs have been started, and the bounds

vars == <<blk, slot, wnd, prog, count>>

Free == [child |-> 0, orphan |-> FALSE]
Launches == 1 .. MaxLaunches
Blank == <<0, 0>>
NoPixels == [left |-> Blank, right |-> Blank]
Frame == [state |-> "ready", serial |-> 0, px |-> NoPixels]

\* What launch() makes of a block, and all that is left of one that was freed; queued is what was put into the ring since.
Cleared == [quit |-> FALSE, exited |-> FALSE, error |-> FALSE, head |-> 0, tail |-> 0,
            cells |-> [i \in 0 .. Queue - 1 |-> <<"none", 0>>], front |-> 2, frame |-> 0,
            frames |-> [i \in 0 .. 1 |-> Frame], copy |-> FALSE, text |-> 0, attention |-> FALSE,
            queued |-> <<>>]

Closed == [pc |-> "closed", slot |-> 0, shown |-> 0, pic |-> NoPixels, want |-> 0,
           sent |-> 0, ended |-> FALSE, dirty |-> FALSE, front |-> 2, next |-> "top",
           cmd |-> <<"none", 0>>, clip |-> <<>>]
Gone == [pc |-> "gone", slot |-> 0, back |-> 0, cmd |-> <<"none", 0>>, taken |-> <<>>, copies |-> 0]

Touches(c) == prog[c].pc \notin {"none", "left", "gone"}

\* hostedAlive(): a task table that cannot be read says yes, and so does a number that
\* another process of the same name has by now.
Alive(c) == {TRUE} \cup {prog[c].pc # "gone"}

B == blk[wnd.slot]
C == slot[wnd.slot].child

-----------------------------------------------------------------------------
(* The life of a window.                                                     *)

\* launch(): what the window forgets of the program before.
Launched(w) == [w EXCEPT !.pc = "top", !.shown = 0, !.sent = 0, !.ended = FALSE, !.dirty = TRUE,
                         !.clip = <<>>]

Launch(s, w) ==
    /\ count.started < count.most.launches
    /\ count' = [count EXCEPT !.started = @ + 1]
    /\ blk' = [blk EXCEPT ![s] = Cleared]
    /\ prog' = [prog EXCEPT ![count.started + 1] = [Gone EXCEPT !.pc = "start", !.slot = s]]
    /\ wnd' = Launched(w)

\* Faulty variant: a block whose window is closed is given to the next.
ReapableAny(s) == slot[s].child # 0 /\ slot[s].orphan

Reapable(s) == slot[s].child # 0 /\ slot[s].orphan /\ (blk[s].exited \/ FALSE \in Alive(slot[s].child))

\* hostedKeepAlive(): blocks of programs that have ended are given back; where the task
\* table cannot be read only those that said so.
Kept(reap) == [s \in Slots |-> IF s \in reap THEN Free ELSE slot[s]]
Said == {s \in Slots : Reapable(s) /\ blk[s].exited}
KeepAlive ==
    /\ wnd.pc \in {"closed", "top"}
    /\ \E reap \in {Said, {s \in Slots : Reapable(s)}} :
         /\ reap # {} /\ slot' = Kept(reap)
         /\ blk' = [s \in Slots |-> IF s \in reap THEN Cleared ELSE blk[s]]
    /\ UNCHANGED <<wnd, prog, count>>

\* The constructor; the window is there when spawn() has started the program.
Open ==
    /\ wnd.pc = "closed"
    /\ \E reap \in {Said, {s \in Slots : Reapable(s)}} :
         LET free == {s \in count.most.slots : Kept(reap)[s].child = 0}
         IN  /\ free # {}
             /\ Launch(Min(free), [Closed EXCEPT !.slot = Min(free)])
             /\ slot' = [Kept(reap) EXCEPT ![Min(free)] = [child |-> count.started + 1, orphan |-> FALSE]]

\* Enter in a window whose program has ended.
Restart ==
    /\ wnd.pc = "top" /\ wnd.ended
    /\ Launch(wnd.slot, wnd)
    /\ slot' = [slot EXCEPT ![wnd.slot] = [child |-> count.started + 1, orphan |-> FALSE]]

\* The same when spawn() fails: the block is empty, the slot as it was.
RestartFails ==
    /\ wnd.pc = "top" /\ wnd.ended /\ blk[wnd.slot] # Cleared
    /\ blk' = [blk EXCEPT ![wnd.slot] = Cleared]
    /\ wnd' = [wnd EXCEPT !.dirty = TRUE, !.clip = <<>>]
    /\ UNCHANGED <<slot, prog, count>>

\* The destructor: it waits a second for the program to end, ...
Close ==
    /\ wnd.pc = "top"
    /\ blk' = [blk EXCEPT ![wnd.slot].quit = TRUE]
    /\ wnd' = [wnd EXCEPT !.pc = "wait"]
    /\ UNCHANGED <<slot, prog, count>>

\* ... kills it then, which may fail, ...
Kill ==
    /\ wnd.pc = "wait"
    /\ wnd' = [wnd EXCEPT !.pc = "reap"]
    /\ IF B.exited \/ prog[C].pc = "gone" THEN UNCHANGED prog
       ELSE prog' \in {prog, [prog EXCEPT ![C] = Gone]}
    /\ UNCHANGED <<blk, slot, count>>

\* ... and frees the block unless the program may still use it.
Reap ==
    /\ wnd.pc = "reap"
    /\ wnd' = Closed
    /\ \E alive \in Alive(C) :
         IF B.exited \/ ~alive
         THEN /\ slot' = [slot EXCEPT ![wnd.slot] = Free]
              /\ blk' = [blk EXCEPT ![wnd.slot] = Cleared]
         ELSE slot' = [slot EXCEPT ![wnd.slot].orphan = TRUE] /\ UNCHANGED blk
    /\ UNCHANGED <<prog, count>>

-----------------------------------------------------------------------------
(* The window: input, idle() and paint().                                    *)

Same == UNCHANGED <<slot, prog, count>>
At(pc) == wnd.pc = pc
Go(pc) == wnd' = [wnd EXCEPT !.pc = pc]

\* send(): no more than Queue commands wait.
Full(b) == (b.head - b.tail) % IndexMod >= Queue

\* A cell is filled, and then the program may see it.
Fill(cmd, next) ==
    /\ blk' = [blk EXCEPT ![wnd.slot].cells[B.head % Queue] = cmd]
    /\ wnd' = [wnd EXCEPT !.pc = "send", !.cmd = cmd, !.next = next]
    /\ Same

SendStep ==
    /\ At("send")
    /\ blk' = [blk EXCEPT ![wnd.slot] = [B EXCEPT !.head = (B.head + 1) % IndexMod, !.queued = Append(B.queued, wnd.cmd)]]
    /\ wnd' = [wnd EXCEPT !.pc = wnd.next, !.sent = IF wnd.cmd[1] = "size" THEN wnd.cmd[2] ELSE @]
    /\ Same

\* event(): a key or the mouse; one that does not fit is dropped.
Key ==
    /\ At("top") /\ ~wnd.ended /\ Len(B.queued) < count.most.commands /\ ~Full(B)
    /\ Fill(<<"key", Len(B.queued)>>, "top")

\* resize(), which idle() and paint() call; one that does not fit is tried again.
Resize(from, next) ==
    /\ At(from)
    /\ IF wnd.want # 0 /\ wnd.want # wnd.sent /\ ~wnd.ended /\ ~Full(B)
       THEN Fill(<<"size", wnd.want>>, next)
       ELSE Go(next) /\ Same /\ UNCHANGED blk

\* idle(): it does nothing once the program has ended.
Idle == At("top") /\ ~wnd.ended /\ Go("resize") /\ Same /\ UNCHANGED blk

\* A program that left without a word closes its window.
IdleExit ==
    /\ At("exit")
    /\ IF B.exited /\ ~B.error
       THEN blk' = [blk EXCEPT ![wnd.slot].quit = TRUE] /\ wnd' = [wnd EXCEPT !.pc = "wait", !.ended = TRUE]
       ELSE Go("copy") /\ UNCHANGED blk
    /\ Same

\* The clipboard; openPending is the same with a URL.
IdleCopy ==
    /\ At("copy")
    /\ wnd' = IF B.copy THEN [wnd EXCEPT !.pc = "copied", !.clip = Append(@, B.text)]
              ELSE [wnd EXCEPT !.pc = "attention"]
    /\ Same /\ UNCHANGED blk
IdleCopied ==
    /\ At("copied") /\ Go("attention")
    /\ blk' = [blk EXCEPT ![wnd.slot].copy = FALSE]
    /\ Same

IdleAttention ==
    /\ At("attention") /\ Go("frame")
    /\ blk' = [blk EXCEPT ![wnd.slot].attention = FALSE]
    /\ Same

IdleFrame ==
    /\ At("frame")
    /\ wnd' = [wnd EXCEPT !.pc = "check", !.dirty = @ \/ B.frame # wnd.shown]
    /\ Same /\ UNCHANGED blk

\* Once a second, and not in the first two.
IdleCheck ==
    /\ At("check")
    /\ \E alive \in Alive(C), due \in BOOLEAN :
         wnd' = IF due /\ (B.exited \/ ~alive) THEN [wnd EXCEPT !.pc = "top", !.ended = TRUE, !.dirty = TRUE]
                ELSE [wnd EXCEPT !.pc = "top"]
    /\ Same /\ UNCHANGED blk

\* paint(), asked for or because the window has another size.
Paint(size) ==
    /\ At("top") /\ (wnd.dirty \/ size # wnd.want)
    /\ size = wnd.want \/ wnd.want = 0 \/ Len(B.queued) < count.most.commands
    /\ wnd' = [wnd EXCEPT !.pc = "paint", !.want = size, !.dirty = FALSE]
    /\ Same /\ UNCHANGED blk

\* The error, or that the program is starting.
Text(w) == [w EXCEPT !.pc = "top", !.pic = NoPixels]

PaintFront ==
    /\ At("front")
    /\ wnd' = IF wnd.ended \/ (B.front = 2 /\ wnd.shown = 0) THEN Text(wnd)
              ELSE [wnd EXCEPT !.pc = IF B.front = 2 THEN "top" ELSE "claim", !.front = B.front]
    /\ Same /\ UNCHANGED blk

\* claim().
Claimed(f) == f.state = "ready"

PaintClaim ==
    /\ At("claim")
    /\ IF Claimed(B.frames[wnd.front])
       THEN Go("left half") /\ blk' = [blk EXCEPT ![wnd.slot].frames[wnd.front].state = "reading"]
       ELSE wnd' = (IF wnd.shown # 0 THEN [wnd EXCEPT !.pc = "top"] ELSE Text(wnd)) /\ UNCHANGED blk
    /\ Same

PaintLeft ==
    /\ At("left half")
    /\ wnd' = [wnd EXCEPT !.pc = "right half", !.pic.left = B.frames[wnd.front].px.left]
    /\ Same /\ UNCHANGED blk
PaintRight ==
    /\ At("right half")
    /\ wnd' = [wnd EXCEPT !.pc = "painted", !.pic.right = B.frames[wnd.front].px.right,
                          !.shown = B.frames[wnd.front].serial]
    /\ Same /\ UNCHANGED blk
Painted ==
    /\ At("painted") /\ Go("top")
    /\ blk' = [blk EXCEPT ![wnd.slot].frames[wnd.front].state = "ready"]
    /\ Same

Window ==
    \/ SendStep \/ Resize("resize", "exit") \/ Resize("paint", "front")
    \/ IdleExit \/ IdleCopy \/ IdleCopied \/ IdleAttention \/ IdleFrame \/ IdleCheck
    \/ PaintFront \/ PaintClaim \/ PaintLeft \/ PaintRight \/ Painted
    \/ Kill \/ Reap

-----------------------------------------------------------------------------
(* The program c.                                                            *)

P(c) == blk[prog[c].slot]
Is(c, pc) == prog[c].pc = pc
Step(c, pc) == prog' = [prog EXCEPT ![c].pc = pc]
Others == UNCHANGED <<slot, wnd, count>>

\* Attach() and the start of the loop.
Attach(c) == Is(c, "start") /\ Step(c, "poll") /\ Others /\ UNCHANGED blk

\* Poll(): on, or out when the window is closed.
Poll(c) ==
    /\ Is(c, "poll")
    /\ Step(c, IF P(c).quit THEN "leave" ELSE "input")
    /\ Others /\ UNCHANGED blk

\* The host has not beaten for ten seconds, or the program gives up: its words, then out.
TimeOut(c) ==
    /\ Is(c, "poll") /\ Step(c, "leave")
    /\ blk' = [blk EXCEPT ![prog[c].slot].error = TRUE]
    /\ Others

\* The user closes the program from inside.
Done(c) == Is(c, "poll") /\ Step(c, "leave") /\ Others /\ UNCHANGED blk

\* Next(): the command is copied, ...
Took(c) ==
    /\ Is(c, "input") /\ P(c).head # P(c).tail
    /\ IF (P(c).head - P(c).tail) % IndexMod > Queue
       THEN Step(c, "leave") /\ blk' = [blk EXCEPT ![prog[c].slot].error = TRUE]
       ELSE /\ prog' = [prog EXCEPT ![c].pc = "took", ![c].cmd = P(c).cells[P(c).tail % Queue]]
            /\ UNCHANGED blk
    /\ Others

\* ... and then its cell is given back.
Took2(c) ==
    /\ Is(c, "took")
    /\ blk' = [blk EXCEPT ![prog[c].slot].tail = (@ + 1) % IndexMod]
    /\ prog' = [prog EXCEPT ![c].pc = "input", ![c].taken = Append(@, prog[c].cmd)]
    /\ Others

\* A turn of the loop takes so many commands and goes on to draw or not.
TurnEnds(c) == Is(c, "input") /\ \E pc \in {"draw", "copy", "poll"} : Step(c, pc) /\ Others /\ UNCHANGED blk

\* beginFrame(): the frame that is not in front, if it can be had.
Begin(c) ==
    LET back == IF P(c).front = 0 THEN 1 ELSE 0
    IN  /\ Is(c, "draw") /\ P(c).frame < count.most.frames
        /\ IF Claimed(P(c).frames[back])
           THEN /\ prog' = [prog EXCEPT ![c].pc = "left half", ![c].back = back]
                /\ blk' = [blk EXCEPT ![prog[c].slot].frames[back].state = "writing"]
           ELSE Step(c, "poll") /\ UNCHANGED blk
        /\ Others

Picture(c) == <<c, P(c).frame + 1>>
DrawLeft(c) ==
    /\ Is(c, "left half") /\ Step(c, "right half")
    /\ blk' = [blk EXCEPT ![prog[c].slot].frames[prog[c].back].px.left = Picture(c)]
    /\ Others
DrawRight(c) ==
    /\ Is(c, "right half") /\ Step(c, "ready")
    /\ blk' = [blk EXCEPT ![prog[c].slot].frames[prog[c].back] = [@ EXCEPT !.px.right = Picture(c), !.serial = P(c).frame + 1]]
    /\ Others

\* commitFrame(): the frame is released, then in front, then counted.
CommitReady(c) ==
    /\ Is(c, "ready") /\ Step(c, "front")
    /\ blk' = [blk EXCEPT ![prog[c].slot].frames[prog[c].back].state = "ready"]
    /\ Others
CommitFront(c) ==
    /\ Is(c, "front") /\ Step(c, "serial")
    /\ blk' = [blk EXCEPT ![prog[c].slot].front = prog[c].back]
    /\ Others
CommitSerial(c) ==
    /\ Is(c, "serial") /\ Step(c, "poll")
    /\ blk' = [blk EXCEPT ![prog[c].slot].frame = P(c).frames[prog[c].back].serial]
    /\ Others

\* Copy(): refused while the last text waits.
MayCopy(b) == ~b.copy
CopyText(c) ==
    /\ Is(c, "copy") /\ prog[c].copies < count.most.copies /\ MayCopy(P(c))
    /\ prog' = [prog EXCEPT ![c].pc = "copied", ![c].copies = @ + 1]
    /\ blk' = [blk EXCEPT ![prog[c].slot].text = prog[c].copies + 1]
    /\ Others
CopyPending(c) ==
    /\ Is(c, "copied") /\ Step(c, "poll")
    /\ blk' = [blk EXCEPT ![prog[c].slot].copy = TRUE]
    /\ Others

\* Attention(), or nothing.
NoCopy(c) ==
    /\ Is(c, "copy") /\ Step(c, "poll")
    /\ \E on \in {TRUE, P(c).attention} : blk' = [blk EXCEPT ![prog[c].slot].attention = on]
    /\ Others
NoDraw(c) == Is(c, "draw") /\ Step(c, "poll") /\ Others /\ UNCHANGED blk

\* Close(): the last access to the block.
Leave(c) ==
    /\ Is(c, "leave") /\ Step(c, "left")
    /\ blk' = [blk EXCEPT ![prog[c].slot].exited = TRUE]
    /\ Others

\* The process ends, or dies at any point, with or without the words of its runtime.
Exit(c) == Is(c, "left") /\ prog' = [prog EXCEPT ![c] = Gone] /\ Others /\ UNCHANGED blk
Crash(c) ==
    /\ Touches(c)
    /\ prog' = [prog EXCEPT ![c] = Gone]
    /\ \E words \in {TRUE, P(c).error} : blk' = [blk EXCEPT ![prog[c].slot].error = words]
    /\ Others

Program(c) ==
    \/ Attach(c) \/ Poll(c) \/ Took(c) \/ Took2(c) \/ TurnEnds(c) \/ Begin(c) \/ DrawLeft(c)
    \/ DrawRight(c) \/ CommitReady(c) \/ CommitFront(c) \/ CommitSerial(c) \/ CopyText(c)
    \/ CopyPending(c) \/ NoCopy(c) \/ NoDraw(c) \/ Leave(c) \/ Exit(c)

-----------------------------------------------------------------------------
Init ==
    /\ blk = [s \in Slots |-> Cleared]
    /\ slot = [s \in Slots |-> Free]
    /\ wnd = Closed
    /\ prog = [c \in Launches |-> [Gone EXCEPT !.pc = "none"]]
    /\ count \in [started : {0}, most : Bounds]

User == Open \/ Close \/ Key \/ Restart \/ RestartFails \/ \E size \in count.most.sizes : Paint(size)

Next ==
    \/ User \/ Idle \/ KeepAlive \/ Window
    \/ \E c \in Launches : Program(c) \/ TimeOut(c) \/ Done(c) \/ Crash(c)

Spec == Init /\ [][Next]_vars

-----------------------------------------------------------------------------
(* Properties.                                                               *)

\* A program that may still touch a block has it to itself: its window, its destructor and a
\* restart neither free the block nor give it to another program.
BlockOwned == \A c \in Launches : Touches(c) => slot[prog[c].slot].child = c

\* The window never keeps half a frame, or one of the program before.
PictureWhole ==
    At("top") => /\ wnd.pic.left = wnd.pic.right
                 /\ wnd.pic # NoPixels /\ ~wnd.ended /\ wnd.shown # 0 => wnd.pic.left = <<C, wnd.shown>>

\* What a program has taken is what the window queued for it, in that order, and the last
\* size among them is the one the window takes for told.
InputInOrder ==
    \A c \in Launches : Touches(c) =>
      LET q == P(c).queued
      IN  /\ prog[c].taken = SubSeq(q, 1, Len(prog[c].taken))
          /\ At("top") /\ wnd.slot = prog[c].slot /\ ~wnd.ended /\ wnd.sent # 0 =>
               \E i \in DOMAIN q : /\ q[i] = <<"size", wnd.sent>>
                                  /\ \A k \in i + 1 .. Len(q) : q[k][1] # "size"

\* The clipboard gets every text a program copies, once and in order.
CopiesTaken ==
    At("top") /\ ~wnd.ended => \A i \in DOMAIN wnd.clip : wnd.clip[i] = i

\* Under fairness: a frame that was published is shown, and the window's size reaches the
\* program's queue, unless the program ends or the window is closed.
Stands == wnd.pc \notin {"closed", "wait", "reap"} /\ ~wnd.ended
Unshown(n) == Stands /\ B.frame = n /\ wnd.shown < n
Untold(size) == Stands /\ wnd.want = size /\ wnd.sent # size
=============================================================================

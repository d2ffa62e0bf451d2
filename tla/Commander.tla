----------------------------- MODULE Commander -----------------------------
(***************************************************************************)
(* cpp/memento-hello/windows/mount_window.cpp: a two-pane file manager.     *)
(* A pane keeps the listing it read last; an operation remembers names, is  *)
(* confirmed later, and copies a chunk per turn of the idle loop.           *)
(*                                                                         *)
(* A path is the sequence of its names.  "f" is a floppy, "c" a CD.  A      *)
(* file is the sequence of its chunks, each named by the file it began in.  *)
(***************************************************************************)
EXTENDS Integers, Sequences, SequencesExt, FiniteSets, Functions, TLC

CONSTANTS Names,        \* names that can be typed
          MaxDepth,     \* bound on directories below the root
          MaxOps,       \* bound on operations begun
          RemoveFails   \* the disk may refuse to remove a file

Dir == <<0>>       \* a directory; no chunk is named 0
Mounts == <<<<>>, <<"c">>, <<"f">>>>
Panes == {1, 2}
Other(i) == 3 - i

VARIABLES fs,       \* path -> Dir or the chunks of a file
          pane,     \* per pane: atMounts, path, root, list, sel, stale
          active, mode, action,
          op,       \* srcDir, name, dstDir, size, done, move
          ops       \* operations begun

vars == <<fs, pane, active, mode, action, op, ops>>

NoOp == [srcDir |-> <<>>, name |-> "", dstDir |-> <<>>, size |-> 0, done |-> 0, move |-> FALSE]

Init ==
    /\ fs = (<<>> :> Dir @@ <<"f">> :> Dir @@ <<"c">> :> Dir @@ <<"f", "A">> :> Dir
             @@ <<"f", "x">> :> <<1, 1>> @@ <<"f", "A", "x">> :> <<2>> @@ <<"c", "x">> :> <<3>>)
    /\ pane = [i \in Panes |-> [atMounts |-> TRUE, path |-> <<>>, root |-> <<>>,
                                list |-> <<>>, sel |-> 0, stale |-> TRUE]]
    /\ active = 1 /\ mode = "normal" /\ action = "none" /\ op = NoOp /\ ops = 0

IsDir(p) == p \in DOMAIN fs /\ fs[p] = Dir
In(d, p) == p # <<>> /\ Front(p) = d
Below(d, p) == IsPrefix(d, p)

\* Only the floppy can be written; mountOf() finds the longest mount that fits.
Writable(p) == ~p.atMounts /\ p.path # <<>> /\ p.path[1] = "f"

-----------------------------------------------------------------------------
(* Panes.                                                                   *)

\* list_dir_path(): directories first, then files.
Listing(d, files) ==
    LET here == {p \in DOMAIN files : In(d, p)}
        name(p) == p[Len(p)]
        entry(p) == [name |-> name(p), dir |-> files[p] = Dir,
                     size |-> IF files[p] = Dir THEN 0 ELSE Len(files[p])]
        part(b) == SetToSeq({entry(p) : p \in {q \in here : (files[q] = Dir) = b}})
    IN  part(TRUE) \o part(FALSE)

Rows(p) == IF p.atMounts THEN Len(Mounts) ELSE 1 + Len(p.list)
Clamped(n, rows) == IF n < 0 THEN 0 ELSE IF n >= rows THEN rows - 1 ELSE n
Clamp(p) == [p EXCEPT !.sel = Clamped(@, Rows(p))]

\* refreshPane().
Fresh(p) ==
    IF ~p.stale THEN p
    ELSE Clamp([p EXCEPT !.stale = FALSE, !.list = IF p.atMounts THEN <<>> ELSE Listing(p.path, fs)])

\* A listing is not read again once it is stale.
Stale(p) == [p EXCEPT !.stale = TRUE, !.list = <<>>]
At(p, path) == [Stale(p) EXCEPT !.path = path, !.sel = 0]

EnterMount(p) == [At(p, Mounts[p.sel + 1]) EXCEPT !.root = Mounts[p.sel + 1], !.atMounts = FALSE]
GoUp(p) == IF p.atMounts THEN p
           ELSE IF p.path = p.root THEN [At(p, p.path) EXCEPT !.atMounts = TRUE]
           ELSE At(p, Front(p.path))
GoInto(p, e) == IF e.dir /\ Len(p.path) < MaxDepth THEN At(p, Append(p.path, e.name)) ELSE p

\* The entry under the bar, or none.
HasEntry(p) == ~p.atMounts /\ p.sel > 0
Entry(p) == p.list[p.sel]

\* openSelection().
Opened(p) == IF p.atMounts THEN EnterMount(p)
             ELSE IF p.sel = 0 THEN GoUp(p) ELSE GoInto(p, Entry(p))

\* rescan().
Rescan(ps) == [i \in Panes |-> Stale(ps[i])]

-----------------------------------------------------------------------------
(* Keys and clicks while nothing is asked.                                  *)

Browse(ps) == /\ mode = "normal" /\ pane' = ps
              /\ UNCHANGED <<fs, active, mode, action, op, ops>>

OpenSelection == Browse([pane EXCEPT ![active] = Opened(Fresh(@))])
Back == Browse([pane EXCEPT ![active] = GoUp(@)])
MoveSel(d) == Browse([pane EXCEPT ![active] = Clamp([Fresh(@) EXCEPT !.sel = @ + d])])
KeyRescan == Browse(Rescan(pane))
SetActive == /\ mode = "normal" /\ active' = Other(active)
             /\ UNCHANGED <<fs, pane, mode, action, op, ops>>
\* OnPaint() reads both panes.
Paint == /\ pane' = [i \in Panes |-> Fresh(pane[i])]
         /\ UNCHANGED <<fs, active, mode, action, op, ops>>

Ask(m, a, o, ps) == /\ mode' = m /\ action' = a /\ op' = o /\ pane' = ps
                    /\ UNCHANGED <<fs, active>>

Begins == mode = "normal" /\ ops < MaxOps /\ ops' = ops + 1

StartDelete ==
    /\ Begins
    /\ LET p == Fresh(pane[active]) IN
       /\ HasEntry(p) /\ Writable(p)
       /\ Ask("confirm", IF Entry(p).dir THEN "deleteDir" ELSE "delete",
              [NoOp EXCEPT !.srcDir = p.path, !.name = Entry(p).name], [pane EXCEPT ![active] = p])

StartMkdir ==
    /\ Begins /\ Writable(pane[active]) /\ Len(pane[active].path) < MaxDepth
    /\ Ask("prompt", "mkdir", [NoOp EXCEPT !.dstDir = pane[active].path], pane)

-----------------------------------------------------------------------------
(* Copying and moving.                                                      *)

Target(o) == Append(o.dstDir, o.name)
Source(o) == Append(o.srcDir, o.name)
Without(f, p) == Restrict(f, DOMAIN f \ {p})

\* What is replaced goes first; that it could not be removed is not looked at.
Cleared(p) == {Without(fs, p)} \cup (IF RemoveFails THEN {fs} ELSE {})

\* beginCopy(): an empty file is not copied, and none while there is no memory for it.
BeginCopy(o, ps) ==
    /\ fs' \in Cleared(Target(o))
    /\ action' = "none"
    /\ IF o.size = 0 THEN mode' = "normal" /\ pane' = Rescan(ps) /\ op' = NoOp
       ELSE /\ pane' = ps
            /\ \/ mode' = "busy" /\ op' = o
               \/ mode' = "normal" /\ op' = NoOp

\* Faulty variant: nobody asks before a file is replaced.
TakenByNone(list, name) == {}

\* findIn(): the entries of that name.
TakenBy(list, name) == {e \in Range(list) : e.name = name}

StartTransfer(move) ==
    /\ Begins
    /\ LET src == Fresh(pane[active])
           dst == pane[Other(active)]
           to  == Fresh(dst)
           ps  == [pane EXCEPT ![active] = src, ![Other(active)] = to]
           o   == [srcDir |-> src.path, name |-> Entry(src).name, dstDir |-> dst.path,
                   size |-> Entry(src).size, done |-> 0, move |-> move]
       IN  /\ HasEntry(src)
           /\ \/ /\ move /\ ~dst.atMounts /\ src.path = dst.path /\ Writable(src)
                 /\ Ask("prompt", "rename", [NoOp EXCEPT !.srcDir = src.path, !.name = o.name],
                        [pane EXCEPT ![active] = src])
              \/ /\ ~Entry(src).dir /\ Writable(dst) /\ (move => Writable(src))
                 /\ src.path # dst.path
                 /\ LET there == TakenBy(to.list, o.name) IN
                    \/ /\ \E e \in there : ~e.dir
                       /\ Ask("confirm", "copy", o, ps)
                    \/ /\ there = {} /\ BeginCopy(o, ps) /\ UNCHANGED <<active>>

\* A chunk of the target: write_at() leaves what lies past it.
Written(p, k, chunk) ==
    LET old == IF p \in DOMAIN fs /\ fs[p] # Dir THEN fs[p] ELSE <<>>
    IN  [i \in 1 .. (IF Len(old) < k THEN k ELSE Len(old)) |-> IF i = k THEN chunk ELSE old[i]]

\* copyStep(): ok, the chunk was read and written; gone, the original was removed.
CopyStep(ok, gone) ==
    /\ mode = "busy"
    /\ ok => Source(op) \in DOMAIN fs        \* a listing may be older than a copy that had no memory
    /\ LET k == op.done + 1
           put == IF ok THEN (Target(op) :> Written(Target(op), k, fs[Source(op)][k])) @@ fs ELSE fs
       IN  IF ok /\ k < op.size
           THEN fs' = put /\ op' = [op EXCEPT !.done = k] /\ UNCHANGED <<mode, pane>>
           ELSE /\ fs' = IF ok /\ op.move /\ gone THEN Without(put, Source(op)) ELSE put
                /\ op' = NoOp /\ mode' = "normal" /\ pane' = Rescan(pane)
    /\ UNCHANGED <<active, action, ops>>

-----------------------------------------------------------------------------
(* Y at a question, Enter at a prompt.                                      *)

\* A pane that was showing a folder that is gone shows where it was.
MovedOut(p, gone) == IF ~p.atMounts /\ Below(gone, p.path) THEN [p EXCEPT !.path = Front(gone), !.sel = 0] ELSE p

\* What an operation remembered is not read again.
Calm == mode' = "normal" /\ action' = "none" /\ op' = NoOp

CarryDelete(ok) ==
    /\ mode = "confirm" /\ action \in {"delete", "deleteDir"} /\ Calm
    /\ LET goes == ok /\ ~\E q \in DOMAIN fs : In(Source(op), q) IN
       /\ fs' = IF goes THEN Without(fs, Source(op)) ELSE fs
       /\ pane' = Rescan([i \in Panes |->
                    IF goes /\ action = "deleteDir" THEN MovedOut(pane[i], Source(op)) ELSE pane[i]])
    /\ UNCHANGED <<active, ops>>

CarryCopy == /\ mode = "confirm" /\ action = "copy"
             /\ BeginCopy(op, pane) /\ UNCHANGED <<active, ops>>

\* mkdir and rename: nothing of that name may be in the pane's listing.
CarryName(input, ok) ==
    /\ mode = "prompt" /\ Calm
    /\ LET p == Fresh(pane[active])
           refused == (action = "rename" /\ input = op.name) \/ TakenBy(p.list, input) # {}
           from == Source(op)
           to == Append(IF action = "mkdir" THEN op.dstDir ELSE op.srcDir, input)
           renamed(q) == IF Below(from, q) THEN to \o SubSeq(q, Len(from) + 1, Len(q)) ELSE q
           goes == ok /\ to \notin DOMAIN fs
       IN  /\ pane' = IF refused THEN [pane EXCEPT ![active] = p] ELSE Rescan([pane EXCEPT ![active] = p])
           /\ fs' = IF refused \/ ~goes THEN fs
                    ELSE IF action = "mkdir" THEN (to :> Dir) @@ fs
                    ELSE [q \in {renamed(r) : r \in DOMAIN fs} |->
                            fs[CHOOSE r \in DOMAIN fs : renamed(r) = q]]
    /\ UNCHANGED <<active, ops>>

Cancel == /\ mode \in {"confirm", "prompt"} /\ Calm
          /\ UNCHANGED <<fs, pane, active, ops>>

Next == \/ OpenSelection \/ Back \/ KeyRescan \/ SetActive \/ Paint \/ Cancel
        \/ \E d \in {-1, 1} : MoveSel(d)
        \/ StartDelete \/ StartMkdir \/ CarryCopy \/ \E ok, gone \in BOOLEAN : CopyStep(ok, gone)
        \/ \E move \in BOOLEAN : StartTransfer(move)
        \/ \E ok \in BOOLEAN : CarryDelete(ok) \/ \E n \in Names : CarryName(n, ok)

Spec == Init /\ [][Next]_vars

-----------------------------------------------------------------------------
\* What a pane shows, once it has read, is what is in its directory.
ListingTrue == \A i \in Panes : LET p == pane[i] IN
    ~p.stale /\ ~p.atMounts => p.list = Listing(p.path, fs) \/ mode = "busy"

\* A pane shows a directory that is there, on the mount it was opened from, whatever
\* the other pane deletes or renames.
PaneSomewhere == \A i \in Panes : pane[i].atMounts \/ (IsDir(pane[i].path) /\ Below(pane[i].root, pane[i].path))

\* A file disappears or shrinks only when a question about that very file is answered,
\* when it is renamed, or when a move has made a whole copy of it.
NothingLost ==
    \A p \in DOMAIN fs : fs[p] # Dir /\ (p \notin DOMAIN fs' \/ Len(fs'[p]) < Len(fs[p])) =>
        \/ mode = "confirm" /\ p = IF action = "copy" THEN Target(op) ELSE Source(op)
        \/ action = "rename" /\ \E q \in DOMAIN fs' \ DOMAIN fs : fs'[q] = fs[p]
        \/ mode = "busy" /\ p = Source(op) /\ Target(op) \in DOMAIN fs' /\ fs'[Target(op)] = fs[p]

\* A copy that finishes is the file that was copied: write_at() leaves what lies past
\* what it writes, so a file being replaced goes first.
CopyExact ==
    mode = "busy" /\ Target(op) \in DOMAIN fs' /\ Len(fs'[Target(op)]) >= op.size /\ mode' = "normal"
       => fs'[Target(op)] = fs[Source(op)]
=============================================================================

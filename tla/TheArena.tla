------------------------------ MODULE TheArena ------------------------------
(* theM, src/c/them/int21.c: the memory DOS hands out and the programs that  *)
(* live in it.  A paragraph is the unit of everything here; the segments of  *)
(* the code (1000h, 2000h, 8000h, 9000h, A000h) are constants.               *)
EXTENDS Integers, Sequences, FiniteSets, FiniteSetsExt

CONSTANTS Start,       \* where the first program is loaded
          End,         \* DOS_MEMORY_END
          Blocks,      \* DOS_BLOCKS
          Nesting,     \* DOS_NESTING
          ChildMin, ChildMax,  \* where a child may be loaded
          ExeFloor, ExeCeil,   \* what an .EXE gets ends between these
          ComSize,     \* what a .COM gets
          EnvSize,     \* what an environment takes
          Exes,        \* the .EXE files: [image, min]
          Sizes        \* what a program asks for

VARIABLES blocks,      \* the table: [seg, size, owner], owner 0 for a free one
          next,        \* mem->next_free_seg
          procs,       \* the PSPs of the programs, the running one last
          refused      \* what a program that just asked for memory in vain was told, or -1

vars == <<blocks, next, procs, refused>>

Slots == 1 .. Blocks
Free == [seg |-> 0, size |-> 0, owner |-> 0]
Live(b) == {i \in Slots : b[i].owner # 0}
Psp == procs[Len(procs)]

-----------------------------------------------------------------------------
(* The table.                                                                *)

\* block_find(), block_add(): the first that fits.
BlockFind(b, seg) == {i \in Live(b) : b[i].seg = seg /\ \A j \in Live(b) : b[j].seg = seg => i <= j}
BlockAdd(b, seg, size, owner) ==
    LET free == Slots \ Live(b)
    IN  IF free = {} THEN b ELSE [b EXCEPT ![Min(free)] = [seg |-> seg, size |-> size, owner |-> owner]]

\* block_cursor().
BlockCursor(b) == Max({Start} \cup {b[i].seg + b[i].size : i \in Live(b)})

\* Faulty variant: a block above the base does not end the hole.
BlockRoomToEnd(b, base, ignore) ==
    IF \E i \in Live(b) \ ignore : base >= b[i].seg /\ base < b[i].seg + b[i].size THEN 0 ELSE End - base

\* block_room(): the hole at base.
BlockRoom(b, base, ignore) ==
    LET others == Live(b) \ ignore
        above == {b[i].seg : i \in {j \in others : b[j].seg >= base}}
    IN  IF \E i \in others : base >= b[i].seg /\ base < b[i].seg + b[i].size THEN 0
        ELSE Min(above \cup {End}) - base

-----------------------------------------------------------------------------
(* AH=48h, 49h and 4Ah.                                                      *)

Done == refused' = -1
Running == procs # <<>>

\* The candidates are the start of the arena and what follows a block; the lowest that is
\* large enough is taken.
AllocMemory(want) ==
    /\ Running
    /\ LET bases == {Start} \cup {blocks[i].seg + blocks[i].size : i \in Live(blocks)}
           room(s) == BlockRoom(blocks, s, {})
           largest == Max({room(s) : s \in bases})
           fit == {s \in bases : room(s) >= want /\ room(s) > 0}
       IN  IF fit = {} \/ Live(blocks) = Slots
           THEN refused' = largest /\ UNCHANGED <<blocks, next>>
           ELSE /\ blocks' = BlockAdd(blocks, Min(fit), IF want = 0 THEN 1 ELSE want, Psp)
                /\ next' = BlockCursor(blocks')
                /\ Done
    /\ UNCHANGED procs

ReleaseMemory(seg) ==
    /\ Running
    /\ IF BlockFind(blocks, seg) = {}
       THEN Done /\ UNCHANGED <<blocks, next>>
       ELSE /\ \E i \in BlockFind(blocks, seg) : blocks' = [blocks EXCEPT ![i] = Free]
            /\ next' = BlockCursor(blocks')
            /\ Done
    /\ UNCHANGED procs

ResizeMemory(seg, size) ==
    /\ Running
    /\ LET found == BlockFind(blocks, seg)
           room == BlockRoom(blocks, seg, found)
       IN  IF found = {} \/ size > room
           THEN Done /\ UNCHANGED <<blocks, next>>
           ELSE /\ \E i \in found : blocks' = [blocks EXCEPT ![i].size = size]
                /\ next' = BlockCursor(blocks')
                /\ Done
    /\ UNCHANGED procs

-----------------------------------------------------------------------------
(* Loading, EXEC and the end of a program.                                   *)

Com == [image |-> ComSize, min |-> 0, exe |-> FALSE]
Bad == [image |-> 0, min |-> 0, exe |-> FALSE]
Files == {Com, Bad} \cup {[image |-> x.image, min |-> x.min, exe |-> TRUE] : x \in Exes}

\* load_exe(): the image must fit below A000h; what the program gets ends at 9000h.
LoadExe(psp, f) ==
    LET top == psp + f.image + f.min
    IN  IF f.image > End - psp THEN 0 ELSE Min({Max({top, ExeFloor}), ExeCeil})

\* load_com(): a whole segment.
LoadCom(psp, f) == psp + ComSize

\* dos_load_program(): where the program's block ends, or 0 when it cannot be read.
LoadProgram(psp, f) == IF f = Bad THEN 0 ELSE IF f.exe THEN LoadExe(psp, f) ELSE LoadCom(psp, f)

\* dos_init() and the first program.
Init ==
    \E f \in Files :
        /\ LoadProgram(Start, f) # 0
        /\ blocks = BlockAdd([i \in Slots |-> Free], Start, LoadProgram(Start, f) - Start, Start)
        /\ next = LoadProgram(Start, f)
        /\ procs = <<Start>>
        /\ refused = -1

\* dos_exec(): the environment, then the child, above everything.  next_free_seg has moved
\* even if the table then has no room for the child.
DosExec(f) ==
    /\ Running
    /\ LET child == next + EnvSize
           end == LoadProgram(child, f)
           refuse == Len(procs) > Nesting \/ child \notin ChildMin .. ChildMax \/ end = 0
       IN  IF refuse \/ Live(blocks) = Slots
           THEN /\ Done
                /\ next' = IF refuse THEN next ELSE end
                /\ UNCHANGED <<blocks, procs>>
           ELSE /\ blocks' = BlockAdd(BlockAdd(blocks, child, end - child, child), next, EnvSize, child)
                /\ next' = end
                /\ procs' = Append(procs, child)
                /\ Done

\* Faulty variant: only the block of the program itself is given back.
OwnedPspOnly(b, psp) == {i \in Live(b) : b[i].seg = psp}

\* What dos_terminate() takes back.
Owned(b, psp) == {i \in Live(b) : b[i].owner = psp}

\* dos_terminate(): the parent goes on; the end of the first program is the machine's.
DosTerminate ==
    /\ Running
    /\ IF Len(procs) > 1
       THEN /\ blocks' = [i \in Slots |-> IF i \in Owned(blocks, Psp) THEN Free ELSE blocks[i]]
            /\ next' = BlockCursor(blocks')
            /\ procs' = SubSeq(procs, 1, Len(procs) - 1)
            /\ Done
       ELSE /\ procs' = <<>>
            /\ Done
            /\ UNCHANGED <<blocks, next>>

\* Nothing keeps a program from naming somebody else's block.
Named == {blocks[i].seg : i \in Live(blocks)} \cup {0}

Next ==
    \/ \E n \in Sizes : AllocMemory(n)
    \/ \E seg \in Named : ReleaseMemory(seg)
    \/ \E seg \in Named, n \in Sizes : ResizeMemory(seg, n)
    \/ \E f \in Files : DosExec(f)
    \/ DosTerminate

-----------------------------------------------------------------------------
Covers(b, i) == b[i].seg .. b[i].seg + b[i].size - 1
Taken == UNION {Covers(blocks, i) : i \in Live(blocks)}

\* No paragraph belongs to two blocks, none lies outside the arena, whoever owns one is
\* running or waits for a child, and a program that is loaded next lands on nobody.
BlocksApart ==
    /\ \A i, j \in Live(blocks) : i # j => Covers(blocks, i) \cap Covers(blocks, j) = {}
    /\ Taken \subseteq Start .. End - 1
    /\ Running => \A i \in Live(blocks) : \E k \in DOMAIN procs : blocks[i].owner = procs[k]
    /\ \A s \in Taken : s < next

\* The runs of paragraphs nobody has.
Holes == {r \in {a .. b : a, b \in Start .. End - 1} : r # {} /\ r \cap Taken = {}}

\* A program that is refused memory is told the largest hole there is.  A block that was
\* shrunk to nothing hides the hole behind it: block_room() takes its segment for the end
\* of the hole that begins there.
RefusalHonest ==
    refused >= 0 /\ (\A i \in Live(blocks) : blocks[i].size > 0) =>
        refused = Max({Cardinality(r) : r \in Holes} \cup {0})
=============================================================================

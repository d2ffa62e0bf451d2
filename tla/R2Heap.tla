------------------------------- MODULE R2Heap -------------------------------
(* libc++r2, src/cpp/libc++r2/src/heap.cpp: a first-fit free list with       *)
(* boundary tags.  Addresses and sizes are bytes; Unit is what ALIGNMENT,    *)
(* HEADER_SIZE, MIN_PAYLOAD and two pointers have in common (16), and sizes  *)
(* are taken modulo SizeMod as a size_t is modulo 2^64.  The links of the    *)
(* free list, which lie in the payload of free blocks, are a sequence.       *)
EXTENDS Integers, Sequences, FiniteSets, FiniteSetsExt, SequencesExt

CONSTANTS Unit,       \* 16
          SizeMod,    \* 2^64
          First,      \* the arena of __r2_heap_config: [base, size]
          KernelEnd,  \* where the kernel's user heap ends
          KernelRoom, \* what it has left
          GrowBytes,  \* R2_HEAP_GROW_BYTES
          MaxRegions, \* MAX_REGIONS
          Sizes,      \* what the program asks for
          Aligns,     \* the alignments of its over-aligned types
          MaxHeld     \* bound: how many allocations it keeps

VARIABLES hdr,      \* the word pairs of the arena, read as headers: [size, free, prev]
          list,     \* g_free_list and what follows it
          regions,  \* g_regions
          used,     \* used_bytes
          live,     \* live_allocations
          room,     \* what is left of the kernel's user heap
          held      \* what the program holds: pointer |-> [size, align]

heap == [hdr |-> hdr, list |-> list, regions |-> regions, used |-> used, live |-> live,
         room |-> room]
vars == <<hdr, list, regions, used, live, room, held>>

\* What lies inside a payload, stale headers and the program's data, is one such value.
Junk == [size |-> 0, free |-> TRUE, prev |-> 0]

-----------------------------------------------------------------------------
(* Blocks.                                                                   *)

RoundUp(n) == ((n + Unit - 1) % SizeMod) - (((n + Unit - 1) % SizeMod) % Unit)
NextBlock(h, b) == b + Unit + h.hdr[b].size
BlockOf(p) == p - Unit

FreeListInsert(h, b) == [h EXCEPT !.list = <<b>> \o @]
FreeListRemove(h, b) == [h EXCEPT !.list = Remove(@, b)]

\* b gets a size, and the block after it learns of it.
Sized(h, b, size) ==
    LET g == [h EXCEPT !.hdr[b].size = size]
    IN  [g EXCEPT !.hdr[NextBlock(g, b)].prev = size]

\* b takes in the block behind it.
Joined(h, b) ==
    LET after == NextBlock(h, b)
    IN  [Sized(h, b, h.hdr[b].size + Unit + h.hdr[after].size) EXCEPT !.hdr[after] = Junk]

CoalesceForward(h, b) ==
    LET after == NextBlock(h, b)
    IN  IF h.hdr[after].free THEN Joined(FreeListRemove(h, after), b) ELSE h

\* split_block(): b keeps wanted bytes if the leftover can be a block of its own.
SplitBlock(h, b, wanted) ==
    LET leftover == h.hdr[b].size - wanted - Unit
        rest == b + Unit + wanted
        g == [h EXCEPT !.hdr[b].size = wanted,
                       !.hdr[rest] = [size |-> leftover, free |-> TRUE, prev |-> wanted]]
    IN  IF h.hdr[b].size < wanted + 2 * Unit THEN h
        ELSE CoalesceForward(FreeListInsert(Sized(g, rest, leftover), rest), rest)

-----------------------------------------------------------------------------
(* Regions.                                                                  *)

\* add_region(): one free block and a sentinel, which is never free.
AddRegion(h, r) ==
    LET base == RoundUp(r.base)
        given == r.size - (base - r.base)
        size == given - (given % Unit)
        usable == size - 2 * Unit
    IN  IF Len(h.regions) = MaxRegions \/ given < 0 \/ size < 3 * Unit THEN h
        ELSE FreeListInsert([h EXCEPT
               !.regions = Append(@, [base |-> base, size |-> size]),
               !.hdr[base] = [size |-> usable, free |-> TRUE, prev |-> 0],
               !.hdr[base + Unit + usable] = [size |-> 0, free |-> FALSE, prev |-> usable]], base)

\* __r2_heap_more: more than is needed when the kernel has it.
HeapMore(h, need) ==
    LET want == IF need > GrowBytes THEN need ELSE GrowBytes
        give == IF want <= h.room THEN want ELSE need
    IN  IF give > h.room THEN h
        ELSE AddRegion([h EXCEPT !.room = @ - give], [base |-> KernelEnd - h.room, size |-> give])

\* Faulty variant: the headers and the alignment of the new region are forgotten.
GrowExact(h, wanted) == HeapMore(h, wanted)

Grow(h, wanted) ==
    LET need == (wanted + 3 * Unit) % SizeMod
    IN  IF need < wanted THEN h ELSE HeapMore(h, need)

\* first_fit(): 0 is nullptr.
FirstFit(h, wanted) ==
    LET fits == {i \in DOMAIN h.list : h.hdr[h.list[i]].size >= wanted}
    IN  IF fits = {} THEN 0 ELSE h.list[Min(fits)]

-----------------------------------------------------------------------------
(* allocate(), deallocate(), reallocate(): the heap and the pointer.         *)

Wanted(size) == Max({RoundUp(IF size = 0 THEN 1 ELSE size), Unit})

Handed(h, b, wanted) ==
    LET g == SplitBlock(FreeListRemove(h, b), b, wanted)
    IN  [g EXCEPT !.hdr[b].free = FALSE, !.used = @ + g.hdr[b].size, !.live = @ + 1]

Allocate(h, size) ==
    LET wanted == Wanted(size)
        g == IF FirstFit(h, wanted) = 0 THEN Grow(h, wanted) ELSE h
        b == FirstFit(g, wanted)
    IN  IF wanted < size THEN [heap |-> h, ptr |-> 0]
        ELSE IF b = 0 THEN [heap |-> g, ptr |-> 0]
        ELSE [heap |-> Handed(g, b, wanted), ptr |-> b + Unit]

\* Over-aligned: the slack holds the pointer allocate() gave, just before the address.
AllocateAligned(h, size, align) ==
    LET total == (size + align + Unit) % SizeMod
        got == Allocate(h, total)
        start == got.ptr + Unit + align - 1
    IN  IF total < size THEN [heap |-> h, ptr |-> 0, raw |-> 0]
        ELSE [heap |-> got.heap, raw |-> got.ptr,
              ptr |-> IF got.ptr = 0 THEN 0 ELSE start - (start % align)]

\* Faulty variant: the block after a merge backwards keeps its tag.
MergeBackwardUntagged(h, b) ==
    LET before == b - Unit - h.hdr[b].prev
    IN  IF h.hdr[b].prev # 0 /\ h.hdr[before].free
        THEN [h EXCEPT !.hdr[before].size = @ + Unit + h.hdr[b].size]
        ELSE FreeListInsert(h, b)

\* The block before takes b in and stays on the list, or b goes on it.
MergeBackward(h, b) ==
    LET before == b - Unit - h.hdr[b].prev
    IN  IF h.hdr[b].prev # 0 /\ h.hdr[before].free
        THEN Joined(h, before)
        ELSE FreeListInsert(h, b)

Deallocate(h, p) ==
    LET b == BlockOf(p)
        g == [h EXCEPT !.hdr[b].free = TRUE, !.used = @ - h.hdr[b].size, !.live = @ - 1]
    IN  IF h.hdr[b].free THEN h ELSE MergeBackward(CoalesceForward(g, b), b)

\* In place when the block or the free one behind it has the room, elsewhere otherwise.
Reallocate(h, p, size) ==
    LET b == BlockOf(p)
        have == h.hdr[b].size
        wanted == Wanted(size)
        after == NextBlock(h, b)
        merged == Joined(FreeListRemove(h, after), b)
        from == IF wanted <= have THEN h ELSE merged
        there == SplitBlock(from, b, wanted)
        fresh == Allocate(h, size)
    IN  IF wanted <= have \/ (h.hdr[after].free /\ have + Unit + h.hdr[after].size >= wanted)
        THEN [heap |-> [there EXCEPT !.used = @ + there.hdr[b].size - have], ptr |-> p]
        ELSE IF fresh.ptr = 0 THEN fresh
        ELSE [heap |-> Deallocate(fresh.heap, p), ptr |-> fresh.ptr]

-----------------------------------------------------------------------------
(* The program.                                                              *)

Becomes(h) ==
    /\ hdr' = h.hdr /\ list' = h.list /\ regions' = h.regions
    /\ used' = h.used /\ live' = h.live /\ room' = h.room

Holds(p, a) == held' = [q \in DOMAIN held \cup {p} |-> IF q = p THEN a ELSE held[q]]
Plain == {p \in DOMAIN held : held[p].align = 0}

\* malloc() and new.
Take(size) ==
    LET got == Allocate(heap, size)
    IN  /\ Cardinality(DOMAIN held) < MaxHeld
        /\ Becomes(got.heap)
        /\ IF got.ptr = 0 THEN UNCHANGED held
           ELSE Holds(got.ptr, [size |-> size, align |-> 0, raw |-> got.ptr])

\* new of an over-aligned type.
TakeAligned(size, align) ==
    LET got == AllocateAligned(heap, size, align)
    IN  /\ Cardinality(DOMAIN held) < MaxHeld
        /\ Becomes(got.heap)
        /\ IF got.ptr = 0 THEN UNCHANGED held
           ELSE Holds(got.ptr, [size |-> size, align |-> align, raw |-> got.raw])

\* free() and delete; the pointer of an over-aligned object is looked up before it.
Give(p) ==
    /\ Becomes(Deallocate(heap, held[p].raw))
    /\ held' = [q \in DOMAIN held \ {p} |-> held[q]]

\* realloc(); size 0 frees, and a refusal leaves the block as it is.
Change(p, size) ==
    LET got == Reallocate(heap, p, size)
    IN  IF size = 0 THEN Give(p)
        ELSE /\ Becomes(got.heap)
             /\ held' = IF got.ptr = 0 THEN held
                        ELSE [q \in (DOMAIN held \ {p}) \cup {got.ptr} |->
                                IF q = got.ptr THEN [size |-> size, align |-> 0, raw |-> q] ELSE held[q]]

Addresses == {a \in 0 .. KernelEnd : a % Unit = 0}
Empty == [hdr |-> [a \in Addresses |-> Junk], list |-> <<>>, regions |-> <<>>, used |-> 0,
          live |-> 0, room |-> KernelRoom]

\* init(): the arena of the program, if it has one of use.
Init ==
    LET h == IF First.size >= 3 * Unit THEN AddRegion(Empty, First) ELSE Empty
    IN  /\ hdr = h.hdr /\ list = h.list /\ regions = h.regions
        /\ used = h.used /\ live = h.live /\ room = h.room
        /\ held = <<>>

\* A size that wraps is asked of allocate() only: see Reallocate.
Next ==
    \/ \E size \in Sizes : Take(size)
    \/ \E size \in Sizes, align \in Aligns : TakeAligned(size, align)
    \/ \E p \in DOMAIN held : Give(p)
    \/ \E p \in Plain, size \in {s \in Sizes : s + Unit <= SizeMod} : Change(p, size)

Spec == Init /\ [][Next]_vars

-----------------------------------------------------------------------------
(* Properties.                                                               *)

\* The blocks behind a, up to the sentinel, as validate() walks them.
ChainFrom(a) ==
    LET walk[b \in Addresses] ==
            IF hdr[b].size = 0 \/ NextBlock(heap, b) \notin Addresses THEN {b}
            ELSE {b} \cup walk[NextBlock(heap, b)]
    IN  walk[a]
Chain(r) == ChainFrom(regions[r].base)
AllBlocks == UNION {Chain(r) : r \in DOMAIN regions}
Real == {b \in AllBlocks : hdr[b].size # 0}

\* heap.cpp's validate() answers Ok: every region is a chain of blocks whose tags agree, from
\* its base to a sentinel in its last bytes.
TagsAgree ==
    \A r \in DOMAIN regions :
      LET blocks == Chain(r)
          last == regions[r].base + regions[r].size - Unit
      IN  /\ hdr[regions[r].base].prev = 0
          /\ {b \in blocks : hdr[b].size = 0} = {last} /\ ~hdr[last].free
          /\ \A b \in blocks \ {last} : hdr[NextBlock(heap, b)].prev = hdr[b].size

\* The free list is the free blocks, each of them once, and no two of them are
\* neighbours: what is given back can be handed out again as one block.
FreeIsWhole ==
    /\ IsInjective(list) /\ ToSet(list) = {b \in AllBlocks : hdr[b].free}
    /\ \A b \in Real : ~(hdr[b].free /\ hdr[NextBlock(heap, b)].free)

\* Every block in use is one allocation the program holds, which lies inside it, aligned as
\* asked: nothing is handed out twice, moved by a neighbour's realloc, or leaked.
HeldApart ==
    /\ {BlockOf(held[p].raw) : p \in DOMAIN held} = {b \in Real : ~hdr[b].free}
    /\ \A p, q \in DOMAIN held : held[p].raw = held[q].raw => p = q
    /\ \A p \in DOMAIN held :
         /\ p >= held[p].raw /\ p + held[p].size <= NextBlock(heap, BlockOf(held[p].raw))
         /\ held[p].align # 0 => p % held[p].align = 0 /\ p >= held[p].raw + Unit

\* stats() tells what is in use.
StatsTrue ==
    /\ used = FoldSet(LAMBDA b, n : n + hdr[b].size, 0, {b \in Real : ~hdr[b].free})
    /\ live = Cardinality(DOMAIN held)

\* A region that was asked of the kernel serves the allocation it was asked for.
GrowthServes == regions' # regions => held' # held

HeapSound == TagsAgree /\ FreeIsWhole /\ HeldApart /\ StatsTrue
=============================================================================

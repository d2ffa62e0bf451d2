----------------------------- MODULE FatDriver ------------------------------
(* The FAT12/16 driver of the Linux rntp mount, src/c/rntp/linux/fat.c, and  *)
(* the FUSE callbacks of main.c around it.  A callback runs in a transaction *)
(* of client.c: one that fails is aborted and leaves the volume as it was,   *)
(* so an operation is one step here (RntpMount has the transactions).  A     *)
(* cluster is a sector; its bytes, and the entries of a directory, are few.  *)
EXTENDS Integers, Sequences, FiniteSets, SequencesExt

CONSTANTS Clusters,      \* how many there are, from cluster 2 on
          Bits,          \* the widths of a FAT entry: 12, 16
          FatSector,     \* bytes of a sector of the FAT, 512
          RootEntries,
          PerSector,     \* entries in a directory's sector, 16
          Bytes,         \* of a cluster
          Names, Depth,  \* what is named, and how deep directories nest: a bound
          MaxLen         \* the longest file: a bound

VARIABLES vol,           \* the volume
          tree           \* what the user made: by path, files and directories

vars == <<vol, tree>>

Cs == 2 .. Clusters + 1
Paths == UNION {[1 .. n -> Names] : n \in 1 .. Depth}
EOC == 65535

Entry(k, name, first, len, ro) == [k |-> k, name |-> name, first |-> first, len |-> len, ro |-> ro]
EndMark == Entry("end", "", 0, 0, FALSE)  \* the first byte is 0
Erased == Entry("erased", "", 0, 0, FALSE)  \* the first byte is E5h
Label == Entry("label", "", 0, 0, FALSE)
First(set) == CHOOSE n \in set : \A i \in set : n <= i
Fixed(x) == x.k \in {"file", "dir"}       \* neither the end, nor erased, nor a label

-----------------------------------------------------------------------------
(* The allocation table, in the bytes of its copies.                         *)

Valid(c) == c \in Cs
Word(v, at) == v.fat[1][at] + 256 * v.fat[1][at + 1]
Place(v, c) == IF v.bits = 12 THEN c + c \div 2 ELSE 2 * c

\* fat_get(): two entries of twelve bits share a byte, and one may lie in two sectors.
FatGet(v, c) ==
    LET w == Word(v, Place(v, c))
        x == IF v.bits = 16 THEN w ELSE IF c % 2 = 1 THEN w \div 16 ELSE w % 4096
    IN  IF x >= (IF v.bits = 12 THEN 4088 ELSE 65528) THEN EOC ELSE x

\* Faulty variant: the half of an entry that lies in the next sector is not written.
TouchedFirst(at) == {at \div FatSector}

\* The sectors fat_set() writes to every copy.
Touched(at) == {at \div FatSector, (at + 1) \div FatSector}

\* fat_set(): the sectors of the first copy, changed, go to every copy.
FatSet(v, c, x) ==
    LET at == Place(v, c)
        old == Word(v, at)
        new == IF v.bits = 16 THEN x
               ELSE IF c % 2 = 1 THEN (old % 16) + 16 * (x % 4096) ELSE 4096 * (old \div 4096) + (x % 4096)
        changed == [v.fat[1] EXCEPT ![at] = new % 256, ![at + 1] = new \div 256]
    IN  [v EXCEPT !.fat = [i \in DOMAIN @ |->
            [b \in DOMAIN @[i] |-> IF b \div FatSector \in Touched(at) THEN changed[b] ELSE @[i][b]]]]

ZeroBytes == [b \in 1 .. Bytes |-> 0]
Ended == [j \in 1 .. PerSector |-> EndMark]

\* Faulty variant: a cluster is handed out with what was in it.
TakenAsIs(v, c) == FatSet(v, c, EOC)

\* A cluster that allocate() hands out is the end of a chain and zero.
Taken(v, c) == [FatSet(v, c, EOC) EXCEPT !.bytes[c] = ZeroBytes, !.ents[c] = Ended]

Ok(v, x) == [err |-> "ok", v |-> v, x |-> x]
Err(e) == [err |-> e]

\* The macro TRY().
Try(r, Then(_)) == IF r.err # "ok" THEN r ELSE Then(r)

\* allocate(): the first that is free, from the hint on and around.
Allocate(v, hint) ==
    LET from == IF Valid(hint) THEN hint ELSE 2
        nth(i) == 2 + ((from - 2 + i) % Clusters)
        take(free) == IF free = {} THEN Err("ENOSPC")
                      ELSE LET c == nth(First(free)) IN Ok(Taken(v, c), c)
    IN  take({i \in 0 .. Clusters - 1 : FatGet(v, nth(i)) = 0})

\* The clusters of a chain, and whether it ends as one.
Longer(v, w, n) == IF Len(w) = n /\ Valid(FatGet(v, w[n])) THEN Append(w, FatGet(v, w[n])) ELSE w
Chain(v, c) ==
    LET walk[n \in 0 .. Clusters] ==
            IF n = 0 THEN IF Valid(c) THEN <<c>> ELSE <<>> ELSE Longer(v, walk[n - 1], n)
    IN  walk[Clusters - 1]
Whole(v, chain) == chain # <<>> /\ FatGet(v, chain[Len(chain)]) = EOC

\* free_chain().
FreeAll(v, chain) ==
    IF ~Whole(v, chain) THEN Err("EIO") ELSE Ok(FoldLeft(LAMBDA w, d : FatSet(w, d, 0), v, chain), 0)
FreeChain(v, c) == IF c = 0 THEN Ok(v, 0) ELSE FreeAll(v, Chain(v, c))

-----------------------------------------------------------------------------
(* Directories.  A place is a cluster, or 0 for the root, and an index.      *)

At(v, p) == IF p[1] = 0 THEN v.root[p[2]] ELSE v.ents[p[1]][p[2]]
Save(v, p, x) == IF p[1] = 0 THEN [v EXCEPT !.root[p[2]] = x] ELSE [v EXCEPT !.ents[p[1]][p[2]] = x]

\* directory_sector(): the places of a directory in order, and what is in them.
ChainPlaces(chain) ==
    [n \in 1 .. Len(chain) * PerSector |->
        <<chain[((n - 1) \div PerSector) + 1], ((n - 1) % PerSector) + 1>>]
Places(v, dir) ==
    IF dir = 0 THEN [j \in 1 .. RootEntries |-> <<0, j>>] ELSE ChainPlaces(Chain(v, dir))
Items(v, dir) ==
    LET held(places) == [n \in DOMAIN places |-> [p |-> places[n], e |-> At(v, places[n])]]
    IN  held(Places(v, dir))

\* The items that a search looks at: it stops at the end of the directory, and fails if
\* that did not come in as many sectors as the volume has.
Read(items) == {n \in DOMAIN items : \A i \in 1 .. n : items[i].e.k # "end"}
Endless(dir, items) == dir # 0 /\ Read(items) = 1 .. Clusters * PerSector

\* find().
FindIn(items, dir, name) ==
    LET hits == {n \in Read(items) : Fixed(items[n].e) /\ items[n].e.name = name}
    IN  IF hits # {} THEN [err |-> "ok", p |-> items[First(hits)].p, e |-> items[First(hits)].e]
        ELSE Err(IF Endless(dir, items) THEN "EIO" ELSE "ENOENT")
Find(v, dir, name) == FindIn(Items(v, dir), dir, name)

\* lookup(): a name at a time; what is not the last must be a directory.
Root == [err |-> "ok", p |-> <<0, 0>>, e |-> Entry("dir", "", 0, 0, FALSE)]
Enter(v, r, name) ==
    Try(r, LAMBDA d : IF d.e.k # "dir" THEN Err("ENOTDIR") ELSE Find(v, d.e.first, name))
Lookup(v, path) ==
    LET at[n \in 0 .. Len(path)] == IF n = 0 THEN Root ELSE Enter(v, at[n - 1], path[n])
    IN  at[Len(path)]

\* parent().
Parent(v, path) ==
    Try(Lookup(v, Front(path)), LAMBDA up : IF up.e.k # "dir" THEN Err("ENOTDIR") ELSE up)

\* empty_slot(): a place that is free; a directory that has none grows, the root does not.
SlotIn(v, dir, items) ==
    LET free == {n \in DOMAIN items : items[n].e.k \in {"end", "erased"}}
        last == Last(items).p[1]
    IN  IF free # {} THEN Ok(v, items[First(free)].p)
        ELSE IF dir = 0 THEN Err("ENOSPC")
        ELSE Try(Allocate(v, last + 1), LAMBDA more : Ok(FatSet(more.v, last, more.x), <<more.x, 1>>))
EmptySlot(v, dir) == SlotIn(v, dir, Items(v, dir))

\* is_empty().
EmptyIn(dir, items) ==
    IF \E n \in Read(items) : Fixed(items[n].e) /\ items[n].e.name \notin {".", ".."}
    THEN Err("ENOTEMPTY")
    ELSE IF Endless(dir, items) THEN Err("EIO") ELSE [err |-> "ok"]
IsEmpty(v, dir) == EmptyIn(dir, Items(v, dir))

-----------------------------------------------------------------------------
(* The operations.                                                           *)

\* Conditions that an operation returns an error for.
Unless(bad, e) == IF bad THEN Err(e) ELSE [err |-> "ok"]

\* fat_create().
FatCreate(v, path, directory) ==
    LET name == Last(path)
        none(f) == IF f.err = "ENOENT" THEN [err |-> "ok"] ELSE IF f.err = "ok" THEN Err("EEXIST") ELSE f
        dots(c, dir) == [Ended EXCEPT ![1] = Entry("dir", ".", c, 0, FALSE),
                                      ![2] = Entry("dir", "..", dir, 0, FALSE)]
    IN  Try(Parent(v, path), LAMBDA up :
        Try(none(Find(v, up.e.first, name)), LAMBDA absent :
        Try(EmptySlot(v, up.e.first), LAMBDA slot :
            IF ~directory THEN Ok(Save(slot.v, slot.x, Entry("file", name, 0, 0, FALSE)), 0)
            ELSE Try(Allocate(slot.v, 2), LAMBDA sub :
                 Ok(Save([sub.v EXCEPT !.ents[sub.x] = dots(sub.x, up.e.first)], slot.x,
                         Entry("dir", name, sub.x, 0, FALSE)), 0)))))

\* fat_remove().
FatRemove(v, path, directory) ==
    Try(Lookup(v, path), LAMBDA f :
    Try(Unless(directory # (f.e.k = "dir"), IF directory THEN "ENOTDIR" ELSE "EISDIR"), LAMBDA same :
    Try(Unless(f.e.ro, "EACCES"), LAMBDA may :
    Try(IF directory THEN IsEmpty(v, f.e.first) ELSE [err |-> "ok"], LAMBDA empty :
    Try(FreeChain(v, f.e.first), LAMBDA freed : Ok(Save(freed.v, f.p, Erased), 0))))))

\* file_entry().
FileEntry(v, path, write) ==
    Try(Lookup(v, path), LAMBDA f :
        IF f.e.k = "dir" THEN Err("EISDIR") ELSE IF write /\ f.e.ro THEN Err("EACCES") ELSE f)

\* chain_at() with grow and the loop of write_range(): at least n clusters, each new one
\* looked for behind the last.
OneMore(g) ==
    LET k == Len(g.x)
    IN  Try(Allocate(g.v, IF k = 0 THEN 2 ELSE g.x[k] + 1), LAMBDA a :
            Ok(IF k = 0 THEN a.v ELSE FatSet(a.v, g.x[k], a.x), Append(g.x, a.x)))
Grown(v, first, n) ==
    LET from(had) ==
            LET grow[k \in 0 .. n] ==
                    IF k <= Len(had) THEN Ok(v, SubSeq(had, 1, k)) ELSE Try(grow[k - 1], OneMore)
            IN  grow[n]
    IN  IF n > Clusters THEN Err("ENOSPC") ELSE from(Chain(v, first))

Needed(len) == (len + Bytes - 1) \div Bytes

\* write_range(): byte i of the file becomes what(i), for those of the range.
WriteRange(v, e, from, to, what(_)) ==
    LET pos(chain, c, b) == ((CHOOSE k \in DOMAIN chain : chain[k] = c) - 1) * Bytes + b
        byte(chain, c, b, old) ==
            IF pos(chain, c, b) \in from + 1 .. to THEN what(pos(chain, c, b)) ELSE old
    IN  IF to <= from THEN Ok(v, e)
        ELSE Try(Grown(v, e.first, Needed(to)), LAMBDA g :
             Ok([g.v EXCEPT !.bytes = [c \in Cs |->
                     IF c \notin Range(g.x) THEN @[c]
                     ELSE [b \in 1 .. Bytes |-> byte(g.x, c, b, @[c][b])]]],
                [e EXCEPT !.first = g.x[1]]))

\* Faulty variant: what lies between the end of the file and the write is left as it is.
GapAsIs(v, e, offset) == WriteRange(v, e, offset, offset, LAMBDA i : 0)

\* fat_write(): what lies between the end of the file and the write becomes zero.
Gap(v, e, offset) == WriteRange(v, e, e.len, offset, LAMBDA i : 0)

FatWrite(v, path, offset, n, value) ==
    LET longer(len) == IF offset + n > len THEN offset + n ELSE len
    IN  Try(FileEntry(v, path, TRUE), LAMBDA f :
        Try(Gap(v, f.e, offset), LAMBDA gap :
        Try(WriteRange(gap.v, gap.x, offset, offset + n, LAMBDA i : value), LAMBDA w :
            Ok(Save(w.v, f.p, [w.x EXCEPT !.len = longer(@)]), 0))))

\* fat_truncate(): longer with zeros, or to the end of the cluster that is the last.
Cut(v, e, size) ==
    LET after(c) == FreeChain(FatSet(v, c, EOC), IF FatGet(v, c) = EOC THEN 0 ELSE FatGet(v, c))
    IN  IF size > e.len THEN WriteRange(v, e, e.len, size, LAMBDA i : 0)
        ELSE IF size = e.len THEN Ok(v, e)
        ELSE IF size = 0 THEN Try(FreeChain(v, e.first), LAMBDA all : Ok(all.v, [e EXCEPT !.first = 0]))
        ELSE Try(after(Chain(v, e.first)[Needed(size)]), LAMBDA rest : Ok(rest.v, e))
FatTruncate(v, path, size) ==
    Try(FileEntry(v, path, TRUE), LAMBDA f :
    Try(Cut(v, f.e, size), LAMBDA w : Ok(Save(w.v, f.p, [w.x EXCEPT !.len = size]), 0)))

\* The directories above one, by their "..".
Above(v, dir) ==
    LET up[n \in 0 .. Clusters] ==
            IF n = 0 THEN {dir} ELSE {Find(v, d, "..").e.first : d \in up[n - 1] \ {0}}
    IN  UNION {up[n] : n \in 0 .. Clusters}

\* fat_rename(): a directory must not be moved under itself.
IntoItself(v, e, dir) == e.k = "dir" /\ e.first \in Above(v, dir)

\* Faulty variant: the moved directory still names its old parent.
RehomedNot(v, e, dir) == v

\* A moved directory's "..".
Rehomed(v, e, dir) == IF e.k = "dir" THEN [v EXCEPT !.ents[e.first][2].first = dir] ELSE v

\* What is at the new name: the entry itself, another that is replaced, or nothing.
Replaced(v, src, dir, dst, noreplace) ==
    IF dst.err = "ENOENT" THEN EmptySlot(v, dir)
    ELSE Try(dst, LAMBDA d :
         Try(Unless(noreplace, "EEXIST"), LAMBDA may :
         Try(Unless(src.k # d.e.k, IF src.k = "dir" THEN "ENOTDIR" ELSE "EISDIR"), LAMBDA same :
         Try(Unless(d.e.ro, "EACCES"), LAMBDA old :
         Try(IF d.e.k = "dir" THEN IsEmpty(v, d.e.first) ELSE [err |-> "ok"], LAMBDA empty :
         Try(FreeChain(v, d.e.first), LAMBDA freed : Ok(freed.v, d.p)))))))
RenameIn(v, src, dir, dst, name, noreplace) ==
    IF dst.err = "ok" /\ dst.p = src.p THEN Ok(v, 0)
    ELSE Try(Replaced(v, src.e, dir, dst, noreplace), LAMBDA slot :
         Ok(Save(Rehomed(Save(slot.v, slot.x, [src.e EXCEPT !.name = name]), src.e, dir),
                 src.p, Erased), 0))
FatRename(v, from, to, noreplace) ==
    Try(Lookup(v, from), LAMBDA src :
    Try(Unless(src.e.ro, "EACCES"), LAMBDA may :
    Try(Parent(v, to), LAMBDA up :
    Try(Unless(IntoItself(v, src.e, up.e.first), "EINVAL"), LAMBDA apart :
        RenameIn(v, src, up.e.first, Find(v, up.e.first, Last(to)), Last(to), noreplace)))))

\* fat_read().
ByteAt(v, chain, i) == v.bytes[chain[((i - 1) \div Bytes) + 1]][((i - 1) % Bytes) + 1]
ReadRange(v, chain, offset, end) ==
    IF end > offset /\ Len(chain) < Needed(end) THEN Err("EIO")
    ELSE [err |-> "ok",
          data |-> [i \in 1 .. (IF end > offset THEN end - offset ELSE 0) |-> ByteAt(v, chain, offset + i)]]
FatRead(v, path, offset, n) ==
    Try(FileEntry(v, path, FALSE), LAMBDA f :
        ReadRange(v, Chain(v, f.e.first), offset, IF offset + n < f.e.len THEN offset + n ELSE f.e.len))

\* fat_readdir().
FatReaddir(v, path) ==
    LET names(items) == {items[n].e.name : n \in {i \in Read(items) : Fixed(items[i].e)}} \ {".", ".."}
    IN  Try(Lookup(v, path), LAMBDA f :
            IF f.e.k # "dir" THEN Err("ENOTDIR") ELSE [err |-> "ok", names |-> names(Items(v, f.e.first))])

-----------------------------------------------------------------------------
(* The user's calls.                                                         *)

Under(p, q) == Len(q) >= Len(p) /\ SubSeq(q, 1, Len(p)) = p
File(data, ro) == [k |-> "file", data |-> data, ro |-> ro]
Dir == [k |-> "dir", data |-> <<>>, ro |-> FALSE]

\* Volumes: empty, with a label, or with a file that is read-only.
NewRoots == {[j \in 1 .. RootEntries |-> IF j = 1 THEN x ELSE EndMark] :
                x \in {EndMark, Label} \cup {Entry("file", n, 0, 0, TRUE) : n \in {CHOOSE m \in Names : TRUE}}}
Init ==
    \E bits \in Bits, root \in NewRoots :
        /\ vol = [bits |-> bits, root |-> root,
                  fat |-> [i \in 1 .. 2 |-> [b \in 0 .. 2 * Clusters + 3 |-> 0]],
                  ents |-> [c \in Cs |-> Ended], bytes |-> [c \in Cs |-> ZeroBytes]]
        /\ tree = IF root[1].k = "file" THEN [p \in {<<root[1].name>>} |-> File(<<>>, TRUE)]
                  ELSE [p \in {} |-> Dir]

\* A callback that fails is aborted.
Call(r, after) ==
    /\ vol' = IF r.err = "ok" THEN r.v ELSE vol
    /\ tree' = IF r.err = "ok" THEN after ELSE tree

With(p, node) == [q \in DOMAIN tree \cup {p} |-> IF q = p THEN node ELSE tree[q]]
Resized(old, n) == [i \in 1 .. n |-> IF i <= Len(old) THEN old[i] ELSE 0]

Create(p, directory) ==
    Call(FatCreate(vol, p, directory), With(p, IF directory THEN Dir ELSE File(<<>>, FALSE)))
Unlink(p, directory) == Call(FatRemove(vol, p, directory), [q \in DOMAIN tree \ {p} |-> tree[q]])
Write(p, offset, n, value) ==
    LET had == Len(tree[p].data)
        old == Resized(tree[p].data, IF offset + n > had THEN offset + n ELSE had)
    IN  Call(FatWrite(vol, p, offset, n, value),
             With(p, File([i \in DOMAIN old |-> IF i \in offset + 1 .. offset + n THEN value ELSE old[i]], FALSE)))
Truncate(p, size) == Call(FatTruncate(vol, p, size), With(p, File(Resized(tree[p].data, size), FALSE)))

\* What a rename makes of the tree.
Moved(from, to) ==
    LET stay == {q \in DOMAIN tree : ~Under(from, q) /\ q # to}
        new(q) == to \o SubSeq(q, Len(from) + 1, Len(q))
        go == {q \in DOMAIN tree : Under(from, q)}
    IN  [q \in stay \cup {new(x) : x \in go} |->
            IF q \in stay THEN tree[q] ELSE tree[CHOOSE x \in go : new(x) = q]]
Rename(from, to, noreplace) ==
    /\ \A q \in DOMAIN tree : Under(from, q) => Len(q) - Len(from) + Len(to) <= Depth
    /\ Call(FatRename(vol, from, to, noreplace), IF from = to THEN tree ELSE Moved(from, to))

\* A call for a path that is not there fails (CallsHonest has those) and changes nothing.
Next ==
    \/ \E p \in Paths, directory \in BOOLEAN : Create(p, directory)
    \/ \E p \in DOMAIN tree, directory \in BOOLEAN : Unlink(p, directory)
    \/ \E p \in DOMAIN tree, offset \in 0 .. MaxLen - 1, n \in {1, MaxLen - 1} :
          offset + n <= MaxLen /\ Write(p, offset, n, 1)
    \/ \E p \in DOMAIN tree, size \in 0 .. MaxLen : Truncate(p, size)
    \/ \E from \in DOMAIN tree, to \in Paths, noreplace \in BOOLEAN : Rename(from, to, noreplace)

Spec == Init /\ [][Next]_vars

-----------------------------------------------------------------------------
Data(v, e, chain) == [i \in 1 .. e.len |-> ByteAt(v, chain, i)]
Node(v, e) == IF e.k = "dir" THEN Dir ELSE File(Data(v, e, Chain(v, e.first)), e.ro)
Seen(v) == [p \in {q \in Paths : Lookup(v, q).err = "ok"} |-> Node(v, Lookup(v, p).e)]
Children(dir) == {p \in DOMAIN tree : Len(p) = Len(dir) + 1 /\ Under(dir, p)}
Dirs == {<<>>} \cup {p \in DOMAIN tree : tree[p].k = "dir"}
ChainOf(p) == Chain(vol, Lookup(vol, p).e.first)

\* The volume is what the user made of it: every path, every byte, and no entry besides.
TreeKept ==
    /\ Seen(vol) = tree
    /\ \A d \in Dirs :
          LET live(items) == {n \in DOMAIN items : Fixed(items[n].e) /\ items[n].e.name \in Names}
          IN  /\ Cardinality(live(Items(vol, Lookup(vol, d).e.first))) = Cardinality(Children(d))
              /\ FatReaddir(vol, d).names = {p[Len(p)] : p \in Children(d)}

\* Every cluster in use belongs to one chain of one file or directory, a chain is as long
\* as its file needs, ".." leads to the parent, and the copies of the table agree.
ChainsApart ==
    /\ vol.fat[1] = vol.fat[2]
    /\ \A p, q \in DOMAIN tree : p # q => Range(ChainOf(p)) \cap Range(ChainOf(q)) = {}
    /\ {c \in Cs : FatGet(vol, c) # 0} = UNION {Range(ChainOf(p)) : p \in DOMAIN tree}
    /\ \A p \in DOMAIN tree :
          /\ ChainOf(p) # <<>> => Whole(vol, ChainOf(p))
          /\ tree[p].k = "file" => Len(ChainOf(p)) = Needed(Len(tree[p].data))
          /\ tree[p].k = "dir" => Find(vol, Lookup(vol, p).e.first, "..").e.first
                                     = Lookup(vol, Front(p)).e.first

\* No call finds the volume damaged, and one says that there is no space only when there
\* is none for what it asks.
FreeClusters == Cardinality({c \in Cs : FatGet(vol, c) = 0})
SlotsFull(d) ==
    \A p \in Range(Places(vol, d)) : At(vol, p).k \notin {"end", "erased"}
NoRoom(dir, directory) ==
    \/ dir = 0 /\ SlotsFull(0)
    \/ FreeClusters < (IF directory THEN 1 ELSE 0) + (IF SlotsFull(dir) THEN 1 ELSE 0)
CallsHonest ==
    \A p \in Paths :
        /\ \A directory \in BOOLEAN :
              LET e == FatCreate(vol, p, directory).err
                  up == Parent(vol, p)
              IN  /\ (e = "ok") => p \notin DOMAIN tree
                  /\ e = "EEXIST" => p \in DOMAIN tree
                  /\ e = "ENOSPC" => NoRoom(up.e.first, directory)
                  /\ e # "EIO"
        /\ \A size \in 0 .. MaxLen : p \in DOMAIN tree /\ tree[p].k = "file" /\ ~tree[p].ro =>
              LET e == FatTruncate(vol, p, size).err
              IN  /\ e \in {"ok", "ENOSPC"}
                  /\ (e = "ok") = (Needed(size) <= Len(ChainOf(p)) + FreeClusters)
        /\ \A offset \in 0 .. MaxLen - 1 : p \in DOMAIN tree /\ tree[p].k = "file" =>
              LET d == tree[p].data
                  end == IF offset + 2 < Len(d) THEN offset + 2 ELSE Len(d)
              IN  FatRead(vol, p, offset, 2).data = SubSeq(d, offset + 1, end)
        /\ \A to \in Paths, noreplace \in BOOLEAN : FatRename(vol, p, to, noreplace).err # "EIO"
=============================================================================

------------------------------ MODULE TheFiles ------------------------------
(* theM, src/c/them/int21.c: the handles of the guest's programs, the open   *)
(* files they share across EXEC, and what reaches the disk of them.  Names   *)
(* are the kernel's (guest_string() has made them absolute); a file is a     *)
(* sequence of bytes.                                                        *)
EXTENDS Integers, Sequences, FiniteSets

CONSTANTS Names,
          Handles,     \* the handles of a program that are no devices, in order: 5 to 19
          Objects,     \* the files that can be open, in order: as many
          Nil,
          Cap,         \* DOS_FILE_CAP
          Block,       \* what write_file() writes, 512
          Nesting,     \* DOS_NESTING
          MaxPos       \* how far a program seeks: a bound

VARIABLES disk,        \* by name, the bytes or Nil
          files,       \* handles[] of the code
          table,       \* file_handles[]
          parents,     \* what EXEC put aside, with the names of the files
          on           \* the machine runs

vars == <<disk, files, table, parents, on>>

Junk == 9              \* what malloc() finds in memory
Closed == [refs |-> 0, name |-> Nil, data |-> Nil, size |-> 0, pos |-> 0,
           modified |-> FALSE, buffered |-> FALSE, want |-> Nil]

\* dos_init().
Init ==
    /\ disk = [n \in Names |-> <<1>>]
    /\ files = [o \in Objects |-> Closed]
    /\ table = [h \in Handles |-> Nil]
    /\ parents = <<>>
    /\ on = TRUE

-----------------------------------------------------------------------------
(* The disk.                                                                 *)

\* dos_file_size(): what is not there is empty.
FileSize(name) == IF disk[name] = Nil THEN 0 ELSE Len(disk[name])

\* staging_read() and dos_read_file(): a file of zeros is taken for a transfer that failed.
ReadFile(name, data) ==
    LET whole == disk[name] # Nil /\ \E i \in DOMAIN disk[name] : disk[name][i] # 0
    IN  IF ~whole THEN data
        ELSE [i \in 1 .. Cap |-> IF i \in DOMAIN disk[name] THEN disk[name][i] ELSE data[i]]

\* handle_flush(): one block, padded with zeros.
Saved(f) == [i \in 1 .. Block |-> IF i <= f.size THEN f.data[i] ELSE 0]
Flush(d, f) == IF f.modified /\ f.data # Nil THEN [d EXCEPT ![f.name] = Saved(f)] ELSE d

\* handle_close(): the file is let go with its last reference.
Dropped(f) ==
    LET g == [f EXCEPT !.modified = @ /\ f.data = Nil, !.refs = @ - 1]
    IN  IF g.refs > 0 THEN g ELSE Closed

-----------------------------------------------------------------------------
(* The services.                                                             *)

\* handle_alloc() and file_alloc(): the first that is free.
FreeHandles == {h \in Handles : table[h] = Nil /\ \A g \in Handles : table[g] = Nil => h <= g}
FreeObjects == {o \in Objects : files[o].refs = 0 /\ \A p \in Objects : files[p].refs = 0 => o <= p}

\* 3Ch and 5Bh: the file is made on the disk at once, and stays there when there is no
\* memory for its buffer.
Create(name) ==
    /\ on
    /\ \E h \in FreeHandles, o \in FreeObjects :
          \/ UNCHANGED <<files, table>>
          \/ /\ files' = [files EXCEPT ![o] = [refs |-> 1, name |-> name, data |-> [i \in 1 .. Cap |-> Junk],
                                               size |-> 0, pos |-> 0, modified |-> TRUE, buffered |-> TRUE,
                                               want |-> <<>>]]
             /\ table' = [table EXCEPT ![h] = o]
    /\ disk' = [disk EXCEPT ![name] = [i \in 1 .. Block |-> 0]]
    /\ UNCHANGED <<parents, on>>

\* 3Dh: nothing is read yet.
Open(name) ==
    /\ on /\ FileSize(name) > 0
    /\ \E h \in FreeHandles, o \in FreeObjects :
          /\ files' = [files EXCEPT ![o] = [Closed EXCEPT !.refs = 1, !.name = name, !.size = FileSize(name),
                                                          !.want = disk[name]]]
          /\ table' = [table EXCEPT ![h] = o]
    /\ UNCHANGED <<disk, parents, on>>

\* 3Eh.
Close(h) ==
    /\ on /\ table[h] # Nil
    /\ disk' = Flush(disk, files[table[h]])
    /\ files' = [files EXCEPT ![table[h]] = Dropped(@)]
    /\ table' = [table EXCEPT ![h] = Nil]
    /\ UNCHANGED <<parents, on>>

\* 3Fh: from the buffer, or from the disk as far as it goes now.
Read(h, n) ==
    /\ on /\ table[h] # Nil
    /\ LET f == files[table[h]]
           end == IF f.buffered \/ f.size <= FileSize(f.name) THEN f.size ELSE FileSize(f.name)
           got == IF f.pos >= end THEN 0 ELSE IF n > end - f.pos THEN end - f.pos ELSE n
       IN  files' = [files EXCEPT ![table[h]].pos = @ + got]
    /\ UNCHANGED <<disk, table, parents, on>>

\* 40h: the file is taken in hand the first time.
Write(h, n) ==
    /\ on /\ table[h] # Nil
    /\ LET f == files[table[h]]
           fresh == IF f.data = Nil THEN [i \in 1 .. Cap |-> Junk] ELSE f.data
           data == IF f.buffered THEN f.data ELSE ReadFile(f.name, fresh)
           done == IF f.pos >= Cap THEN 0 ELSE IF n > Cap - f.pos THEN Cap - f.pos ELSE n
           here(i) == i > f.pos /\ i <= f.pos + done
           size == IF done > 0 /\ f.pos + done > f.size THEN f.pos + done ELSE f.size
       IN  files' = [files EXCEPT ![table[h]] =
               IF ~f.buffered /\ f.size > Cap THEN [f EXCEPT !.data = fresh]
               ELSE [f EXCEPT !.data = [i \in 1 .. Cap |-> IF here(i) THEN 1 ELSE data[i]],
                              !.buffered = TRUE, !.modified = TRUE, !.size = size, !.pos = @ + done,
                              !.want = [i \in 1 .. size |-> IF here(i) THEN 1
                                                            ELSE IF i \in DOMAIN @ THEN @[i] ELSE Junk]]]
    /\ UNCHANGED <<disk, table, parents, on>>

\* 42h.
Seek(h, pos) ==
    /\ on /\ table[h] # Nil
    /\ files' = [files EXCEPT ![table[h]].pos = pos]
    /\ UNCHANGED <<disk, table, parents, on>>

\* 41h.
Delete(name) ==
    /\ on /\ disk[name] # Nil
    /\ disk' = [disk EXCEPT ![name] = Nil]
    /\ UNCHANGED <<files, table, parents, on>>

-----------------------------------------------------------------------------
(* EXEC and the end.                                                         *)

\* Faulty variant: the child has the parent's handles and no references of its own.
InheritedFree(f, t) == f

\* The references a child acquires.
Inherited(f, t) == [o \in Objects |-> [f[o] EXCEPT !.refs = @ + Cardinality({h \in Handles : t[h] = o})]]

\* The end of dos_exec(); a child that cannot be loaded changes nothing.
Exec ==
    /\ on /\ Len(parents) < Nesting
    /\ parents' = Append(parents, [files |-> table,
                                   names |-> [h \in Handles |-> IF table[h] = Nil THEN Nil ELSE files[table[h]].name]])
    /\ files' = Inherited(files, table)
    /\ UNCHANGED <<disk, table, on>>

\* What closing every handle in turn does to a file, and what saving the files in an order
\* does to the disk: two of them may have one name.
CloseAll(f, t) ==
    [o \in Objects |->
        LET n == Cardinality({h \in Handles : t[h] = o})
        IN  IF n = 0 THEN f[o] ELSE Dropped([f[o] EXCEPT !.refs = @ - n + 1])]
FlushAll(d, f, order) ==
    LET after[k \in 0 .. Len(order)] ==
            IF k = 0 THEN d ELSE IF order[k] = Nil THEN after[k - 1] ELSE Flush(after[k - 1], f[order[k]])
    IN  after[Len(order)]

\* dos_terminate() of a child, and dos_shutdown() after the first program's.
Terminate ==
    /\ on /\ parents # <<>>
    /\ disk' = FlushAll(disk, files, [h \in 1 .. Cardinality(Handles) |-> table[h]])
    /\ files' = CloseAll(files, table)
    /\ table' = parents[Len(parents)].files
    /\ parents' = SubSeq(parents, 1, Len(parents) - 1)
    /\ UNCHANGED on

Shutdown ==
    /\ on
    /\ disk' = FlushAll(disk, files, [o \in 1 .. Cardinality(Objects) |-> o])
    /\ files' = [o \in Objects |-> Closed]
    /\ table' = [h \in Handles |-> Nil]
    /\ parents' = <<>>
    /\ on' = FALSE

Next ==
    \/ \E name \in Names : Create(name) \/ Open(name) \/ Delete(name)
    \/ \E h \in Handles : Close(h)
    \/ \E h \in Handles, n \in 1 .. 2 : Read(h, n) \/ Write(h, n)
    \/ \E h \in Handles, pos \in 0 .. MaxPos : Seek(h, pos)
    \/ Exec \/ Terminate \/ Shutdown

Spec == Init /\ [][Next]_vars

-----------------------------------------------------------------------------
References(o) ==
    Cardinality({h \in Handles : table[h] = o})
    + Cardinality({kh \in (DOMAIN parents) \X Handles : parents[kh[1]].files[kh[2]] = o})

\* A file is open for as long as some program, running or waiting for a child, has a handle
\* of it; a parent finds behind each of its handles the file it had there, whatever its
\* children closed, opened and wrote; and no buffer stays behind when a file is let go.
HandlesStand ==
    /\ \A o \in Objects : files[o].refs = References(o) /\ (files[o].refs = 0 => files[o].data = Nil)
    /\ \A k \in DOMAIN parents : \A h \in Handles :
          parents[k].files[h] # Nil => files[parents[k].files[h]].name = parents[k].names[h]

\* A file that is let go leaves on the disk what was written to it, and what was there
\* before where nothing was written.
WritesKept ==
    [][\A o \in Objects :
          LET f == files[o]
          IN  f.modified /\ files'[o].refs = 0
                  => \A i \in DOMAIN f.want : f.want[i] # Junk => i \in DOMAIN (disk'[f.name]) /\ disk'[f.name][i] = f.want[i]]_vars
=============================================================================

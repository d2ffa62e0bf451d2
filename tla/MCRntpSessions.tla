--------------------------- MODULE MCRntpSessions ---------------------------
(* A server with two or three slots and a three-sector export: the boot     *)
(* sector, one FAT sector and one data sector.                              *)
EXTENDS RntpSessions, TLC

MCFat == (1 :> {1})

Frame(op, gen) == [op |-> op, framed |-> TRUE, fits |-> TRUE, gen |-> gen, lba |-> 0,
                   count |-> 0, data |-> 0, writes |-> <<>>]

\* One well-formed frame of each operation that has no argument.
Plain == {Frame(op, 0) : op \in HelloOps}
         \cup {Frame(op, Generation) : op \in ControlOps \cup LockOps}

\* Reads and writes on both sides of every bound the code checks.
Reads ==  {[Frame("READ", Generation) EXCEPT !.lba = s] : s \in {0, Sectors}}
          \cup {[Frame("READ_BATCH", Generation) EXCEPT !.lba = 1, !.count = n] :
                   n \in {0, Sectors - 1, Sectors}}

Writes == {[Frame("WRITE", Generation) EXCEPT !.lba = s, !.data = d] :
               s \in 0 .. Sectors, d \in Data}

Batches ==
    {[Frame("WRITE_BATCH", Generation) EXCEPT !.writes = w] :
        w \in { <<>>,
                <<[lba |-> 1, data |-> 0], [lba |-> 2, data |-> 1]>>,
                <<[lba |-> 1, data |-> 0], [lba |-> 1, data |-> 1]>>,
                <<[lba |-> 2, data |-> 0], [lba |-> 0, data |-> 0]>>,
                <<[lba |-> 1, data |-> 1], [lba |-> Sectors, data |-> 1]>> }}

\* Frames that are wrong in one way.
Wrong == { [Frame("HELLO_SHARED", 0) EXCEPT !.framed = FALSE],
           [Frame("HELLO_SHARED", 0) EXCEPT !.gen = Generation],
           [Frame("STAT", Generation) EXCEPT !.lba = 1],
           [Frame("LOCK", Generation) EXCEPT !.fits = FALSE],
           [Frame("WRITE", Generation) EXCEPT !.lba = 1, !.fits = FALSE],
           Frame("LOCK", Generation + 1),
           Frame("UNKNOWN", Generation) }

MCRequests == Plain \cup Reads \cup Writes \cup Batches \cup Wrong

Symmetry == Permutations(Peers)
=============================================================================

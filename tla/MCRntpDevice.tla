---------------------------- MODULE MCRntpDevice ----------------------------
(* One R2 client and one other machine at an export of a boot sector, a FAT *)
(* sector and two data sectors.  The initial contents are fixed.            *)
EXTENDS RntpDevice, TLC

MCFat == (1 :> {1})

MCInit ==
    /\ Init
    /\ image = [s \in LBA |-> IF s = 0 THEN 1 ELSE FreeEntry]
    /\ undo = [s \in LBA |-> FreeEntry]

MCSpec == MCInit /\ [][Next]_vars
MCFairSpec == MCSpec /\ Fairness

Symmetry == Permutations(Peers)
=============================================================================

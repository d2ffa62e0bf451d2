---------------------------- MODULE MCRntpMount -----------------------------
(* Machines sharing an export of a boot sector and one or two others.       *)
(* The initial contents and the contents of the fresh undo buffer are fixed:*)
(* the mounts only copy and compare sectors, and MCRntpSessions starts from *)
(* all of them.                                                             *)
EXTENDS RntpMount, TLC

MCFat == (1 :> {1})

MCInit ==
    /\ Init
    /\ image = [s \in LBA |-> IF s = 0 THEN 1 ELSE FreeEntry]
    /\ undo = [s \in LBA |-> FreeEntry]

MCSpec == MCInit /\ [][Next]_vars
MCFairSpec == MCSpec /\ Fairness

Symmetry == Permutations(Peers) \cup Permutations(Clients)
=============================================================================

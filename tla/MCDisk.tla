------------------------------- MODULE MCDisk -------------------------------
(***************************************************************************)
(* A drive of five sectors of two bytes whose last sector is beyond what a *)
(* byte offset reaches, a bounce buffer of two sectors, two tables.        *)
(***************************************************************************)
EXTENDS Disk, TLC
CONSTANTS p1, p2, v1, v2
E0 == [start |-> 0, count |-> 0]
E1 == [start |-> 1, count |-> 2]
E2 == [start |-> 3, count |-> 1]
E3 == [start |-> 4, count |-> 1]
MCTables == {<<E1, E2>>, <<E0, E2, E3>>}
MCOffsets == {0, 1, 2, 4}
MCSizes == {1, 2, 4, 6}
MCVals == {v1, v2}
MCProcs == {p1, p2}
MCSymmetry == Permutations(MCProcs) \cup Permutations(MCVals)
=============================================================================

----------------------------- MODULE MCRowLocks -----------------------------
(* Values for the constants of RowLocks.                                   *)
EXTENDS RowLocks, TLC

CONSTANTS i1, i2, n1, t1, t2, t3, t4

(* Two investigations of one incident.                                     *)
OneIncident == [i \in {i1, i2} |-> n1]

Interchangeable == Permutations({i1, i2}) \cup Permutations({t1, t2, t3, t4})
=============================================================================

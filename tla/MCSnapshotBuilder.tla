--------------------------- MODULE MCSnapshotBuilder --------------------------
(* SnapshotBuilder for TLC: threads of the gateway are interchangeable.      *)
EXTENDS SnapshotBuilder, TLC

CallerSymmetry == Permutations(Callers)
===============================================================================

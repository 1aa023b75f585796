---------------------------- MODULE MCSliceCatalog ----------------------------
(* SliceCatalog for TLC: two slices of one UE, and the phases the scenario   *)
(* declares for them.                                                        *)
EXTENDS SliceCatalog, TLC

CONSTANTS embb, urllc, upf_embb, upf_urllc, ue1

SharedUeSessions == {[ue |-> ue1, slice |-> embb, upf |-> upf_embb],
                     [ue |-> ue1, slice |-> urllc, upf |-> upf_urllc]}

AllRunning == [s \in Slices |-> "running"]
EmbbOnly == [s \in Slices |-> IF s = embb THEN "running" ELSE "deleted"]

RequestSymmetry == Permutations(Requests)
===============================================================================

------------------------------ MODULE SliceState ------------------------------
(***************************************************************************)
(* The catalog kept in slice-state.json and in every line of                *)
(* slice-state.jsonl, and the catalogs SliceStore makes (                   *)
(* state/slice_store.py).                                                   *)
(*                                                                         *)
(* Abstracted away: observed_at, the S-NSSAI and the capacity of a slice.   *)
(* Its UPFs and UEs do not change and are constants of SliceCatalog.        *)
(***************************************************************************)
EXTENDS Naturals

CONSTANTS Slices, InitialPhase

SlicePhase == {"running", "stopped", "deleted"}

ASSUME InitialPhases == InitialPhase \in [Slices -> SlicePhase]

CatalogRecord ==
  [sequence : Nat, slices : [Slices -> [phase : SlicePhase, sequence : Nat]]]

initialCatalog ==
  [sequence |-> 0,
   slices |-> [s \in Slices |-> [phase |-> InitialPhase[s], sequence |-> 0]]]

Phase(c, s) == c.slices[s].phase

allowed == [running |-> {"stopped"}, stopped |-> {"running", "deleted"},
            deleted |-> {"stopped"}]

CanMove(c, s, phase) == phase \in allowed[Phase(c, s)]

moved(c, s, phase) ==
  [sequence |-> c.sequence + 1,
   slices |-> [c.slices EXCEPT
     ![s] = [phase |-> phase, sequence |-> c.slices[s].sequence + 1]]]
===============================================================================

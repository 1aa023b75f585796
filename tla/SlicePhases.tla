------------------------------ MODULE SlicePhases -----------------------------
(***************************************************************************)
(* What the slice catalog promises: one slice at a time moves along an edge *)
(* of the life cycle, the sequence numbers of the slice and of the catalog  *)
(* go up by one, and no other slice changes.                                *)
(***************************************************************************)
EXTENDS SliceState

VARIABLE catalog

Init == catalog = initialCatalog

Move(s, phase) == CanMove(catalog, s, phase) /\ catalog' = moved(catalog, s, phase)

Next == \E s \in Slices, phase \in SlicePhase : Move(s, phase)

Spec == Init /\ [][Next]_catalog
===============================================================================

---------------------------- MODULE MCPolicyActions ---------------------------
(* PolicyActions for TLC: the edge and the cloud flow of one UE, as in       *)
(* scenario s2, and a UE with one flow.                                      *)
EXTENDS PolicyActions, TLC

CONSTANTS edge, cloud, other, ue1, ue2

TwoFlowsOfOneUe == edge :> ue1 @@ cloud :> ue1
ThreeFlows == edge :> ue1 @@ cloud :> ue1 @@ other :> ue2

(* One policy keeps the 5QI the sessions start with, one changes it.         *)
TwoPolicies == {[five_qi |-> 9, mbr |-> 20], [five_qi |-> 7, mbr |-> 10]}

RequestSymmetry == Permutations(Requests)
===============================================================================

---------------------------- MODULE MCRunLifecycle ----------------------------
(* RunLifecycle for TLC: the operators are interchangeable, and bring-ups    *)
(* that overlap are followed to the stage MaxStage.                         *)
EXTENDS RunLifecycle, TLC

CONSTANT MaxStage

OperatorSymmetry == Permutations(Operators)

BringUpBound == \A p \in Procs : cmd[p].stage <= MaxStage
===============================================================================

------------------------------ MODULE PolicyState -----------------------------
(***************************************************************************)
(* Flows, their UEs and the policies of flows                               *)
(* (gateway/policy_translator.py).                                          *)
(*                                                                         *)
(* Of a policy the 5QI is kept, which snapshots show, and one bandwidth     *)
(* stands for the four.  The filter, the precedence and the charging data   *)
(* are fixed by the flow.                                                   *)
(***************************************************************************)
EXTENDS Naturals

CONSTANTS
  Flows, UEs,
  ueOf,       \* the UE of a flow
  Policies,   \* what actions ask for: records [five_qi, mbr]
  DefaultQI   \* the 5QI of a session without a rule

ASSUME FlowsExist == Flows # {}
ASSUME FlowsHaveUEs == ueOf \in [Flows -> UEs]
ASSUME PoliciesAreRecords == Policies \subseteq [five_qi : Nat \ {0}, mbr : Nat]
ASSUME DefaultIsA5QI == DefaultQI \in Nat \ {0}

(* A flow without a rule of its own.                                        *)
Declared == [five_qi |-> DefaultQI, mbr |-> 0]

Rule == Policies \union {Declared}
Rules == [Flows -> Rule]

(* Contents of flow-allocations.json that are no allocations: an empty file, *)
(* and the texts of two writers.                                            *)
Lost == [f \in Flows |-> [five_qi |-> 0, mbr |-> 0]]
Garbled == [f \in Flows |-> [five_qi |-> 0, mbr |-> 1]]
Unreadable == {Lost, Garbled}
===============================================================================

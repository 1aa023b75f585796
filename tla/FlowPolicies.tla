----------------------------- MODULE FlowPolicies -----------------------------
(***************************************************************************)
(* What policy actions promise: every flow has a rule and an allocation of  *)
(* its own.  An action puts its rule into force and then allocates what is  *)
(* in force; it touches no other flow.  Provisioning gives the flows of     *)
(* some UEs back the rules the scenario declares.  A crash may lose the     *)
(* allocations of all flows, and then none is made again.                   *)
(***************************************************************************)
EXTENDS PolicyState

VARIABLES rules, allocations, crashes

Init == /\ rules = [f \in Flows |-> Declared]
        /\ allocations = [f \in Flows |-> Declared]
        /\ crashes = 0

Put(f, x) == rules' = [rules EXCEPT ![f] = x] /\ UNCHANGED <<allocations, crashes>>

Allocate(f) ==
  /\ allocations # Lost
  /\ allocations' = [allocations EXCEPT ![f] = rules[f]]
  /\ UNCHANGED <<rules, crashes>>

Provision(us) ==
  /\ rules' = [f \in Flows |-> IF ueOf[f] \in us THEN Declared ELSE rules[f]]
  /\ UNCHANGED <<allocations, crashes>>

Crash ==
  /\ crashes' = crashes + 1
  /\ allocations' \in {allocations, Lost}
  /\ UNCHANGED rules

Next ==
  \/ \E f \in Flows, x \in Policies : Put(f, x)
  \/ \E f \in Flows : Allocate(f)
  \/ \E us \in SUBSET UEs : Provision(us)
  \/ Crash

Spec == Init /\ [][Next]_<<rules, allocations, crashes>>
===============================================================================

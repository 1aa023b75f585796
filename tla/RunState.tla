------------------------------- MODULE RunState -------------------------------
(***************************************************************************)
(* The record kept in current-state.json and in every line of state.jsonl  *)
(* (state/models.py), and the record each method of RunStore makes from     *)
(* the one it has read (state/run_store.py).  A method that raises instead  *)
(* of writing is one whose condition is false of the record it read.        *)
(*                                                                         *)
(* Abstracted away: the run id (one run is modelled), observed_at, the      *)
(* evidence and the text of the error.                                      *)
(***************************************************************************)
EXTENDS Naturals, Sequences

PHASE_ORDER ==
  << "CREATED", "CORE_READY", "PFCP_READY", "GNB_READY", "UE_REGISTERED",
     "PDU_READY", "TRAFFIC_READY", "TELEMETRY_READY", "RUNNING" >>

OrderedPhases ==
  {"CREATED", "CORE_READY", "PFCP_READY", "GNB_READY", "UE_REGISTERED",
   "PDU_READY", "TRAFFIC_READY", "TELEMETRY_READY", "RUNNING"}

RunPhase == OrderedPhases \union {"FAILED", "STOPPED"}

NoPhase == "none"

RunRecord == [phase : RunPhase, sequence : Nat, reset_generation : Nat,
              failed_phase : RunPhase \union {NoPhase}]

(* What a reader of current-state.json may find besides a record: no file,  *)
(* or a file open(..., "w") has truncated and nothing has filled yet.       *)
Missing == [phase |-> "no file", sequence |-> 0, reset_generation |-> 0,
            failed_phase |-> NoPhase]
Torn    == [phase |-> "empty file", sequence |-> 0, reset_generation |-> 0,
            failed_phase |-> NoPhase]

Readable(r) == r.phase \in RunPhase

-----------------------------------------------------------------------------

created == [phase |-> "CREATED", sequence |-> 0, reset_generation |-> 0,
            failed_phase |-> NoPhase]

Successor(r, p) == [phase |-> p, sequence |-> r.sequence + 1,
                    reset_generation |-> r.reset_generation,
                    failed_phase |-> NoPhase]

CanAdvance(r, p) ==
  \E i \in 1 .. 8 : PHASE_ORDER[i] = r.phase /\ PHASE_ORDER[i + 1] = p

advance(r, p) == Successor(r, p)
fail(r, p)    == [Successor(r, "FAILED") EXCEPT !.failed_phase = p]
(* Mutant: stop leaves the generation at its default.                       *)
stopForgets(r) == [Successor(r, "STOPPED") EXCEPT !.reset_generation = 0]

stop(r)       == Successor(r, "STOPPED")
CanRecover(r) == r.phase \in {"RUNNING", "FAILED"}
recover(r)    == Successor(r, "RUNNING")
reset(r)      == [Successor(r, "CREATED") EXCEPT !.reset_generation = @ + 1]

(* The transitions RunStore allows from a recorded state to a new one.      *)
Derives(a, b) ==
  \/ CanAdvance(a, b.phase) /\ b = advance(a, b.phase)
  \/ b.failed_phase \in RunPhase /\ b = fail(a, b.failed_phase)
  \/ b = stop(a)
  \/ CanRecover(a) /\ b = recover(a)
  \/ b = reset(a)
===============================================================================

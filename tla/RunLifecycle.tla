----------------------------- MODULE RunLifecycle -----------------------------
(***************************************************************************)
(* The life of one run: render, start, resume, stop and reset, as processes *)
(* that share the run directory and the Compose project and take no lock.   *)
(* A process is a `testbed` command (cli.py) or one of the two workers the  *)
(* action gateway starts (gateway/api.py, gateway/control_worker.py); both  *)
(* run Launcher (orchestration/launcher.py) over RunStore                   *)
(* (state/run_store.py).                                                    *)
(*                                                                         *)
(* A step is what no other process can come in the middle of: one read of   *)
(* current-state.json, one append to state.jsonl, one truncation, one       *)
(* write, one docker call together with the wait for its evidence.          *)
(* Containers are kept by group, the services one compose_up names with the *)
(* UPFs apart; of the slices there is only whether all of them are RUNNING, *)
(* which decides what reconcile_initial takes down (SliceCatalog has them   *)
(* one by one).                                                             *)
(***************************************************************************)
EXTENDS RunState

CONSTANTS
  Operators,      \* processes that run `testbed` commands
  ResetWorker,    \* the container testbed-reset-<run-id>
  StopWorker,     \* the container testbed-stop-<run-id>
  Overlapping,    \* may commands overlap, each other and slice actions?
  MaxInvocations, \* bound: commands begun in a behaviour
  MaxFaults       \* bound: kills, host restarts and failures of `docker compose
                  \* logs` in a behaviour

Workers == {ResetWorker, StopWorker}
Procs == Operators \union Workers

ASSUME WorkersAreNotOperators ==
  ResetWorker # StopWorker /\ Operators \intersect Workers = {}
ASSUME SwitchesAreBoolean == Overlapping \in BOOLEAN
ASSUME BoundsAreNatural == MaxInvocations \in Nat /\ MaxFaults \in Nat

VARIABLES
  layout,      \* the run directory: none, being rendered, rendered
  slices,      \* slice-state.json: not there, every slice RUNNING, or some not
  current,     \* current-state.json
  history,     \* state.jsonl
  up,          \* the groups whose containers all run
  cmd,         \* what each process is doing
  invocations, faults

files == <<layout, slices, current, history>>
counters == <<invocations, faults>>
vars == <<files, up, cmd, counters>>

-----------------------------------------------------------------------------
(***************************************************************************)
(* The steps of Launcher._bring_up, in order.  For each: the groups its     *)
(* compose_up leaves running (the services it names and, by depends_on of   *)
(* the templates, those they need: a gNB, a UE and a sidecar need the SMF,  *)
(* which needs every UPF), the values expected_phase takes during it, and   *)
(* the phase on_ready is then given.  The evidence a step waits for says    *)
(* little of what runs now (most of it is read from logs, which outlive     *)
(* their container), so a step may succeed whatever else runs.              *)
(***************************************************************************)
Groups == {"core", "upfs", "gnbs", "applications", "ues", "sidecars", "telemetry"}

Plan ==
  << [brings |-> {"core", "upfs"}, blame |-> {"CORE_READY"},
      ready |-> "CORE_READY"],                               \* core_services
     [brings |-> {}, blame |-> {"PFCP_READY"}, ready |-> "PFCP_READY"],
     [brings |-> {}, blame |-> {"PFCP_READY"}, ready |-> NoPhase],  \* subscribers
     [brings |-> {"gnbs", "upfs"}, blame |-> {"GNB_READY"},
      ready |-> "GNB_READY"],
     [brings |-> {"applications"}, blame |-> {"GNB_READY"}, ready |-> NoPhase],
     [brings |-> {"gnbs", "ues", "upfs"}, blame |-> {"UE_REGISTERED", "PDU_READY"},
      ready |-> "UE_REGISTERED"],                            \* every UE in turn
     [brings |-> {}, blame |-> {}, ready |-> "PDU_READY"],   \* on_ready alone
     [brings |-> {"gnbs", "ues", "sidecars", "upfs"}, blame |-> {"TRAFFIC_READY"},
      ready |-> "TRAFFIC_READY"],                            \* pings
     [brings |-> {}, blame |-> {"TRAFFIC_READY"},
      ready |-> NoPhase],                                    \* reconcile_initial
     [brings |-> {"telemetry"}, blame |-> {"TELEMETRY_READY"},
      ready |-> "TELEMETRY_READY"] >>

Stages == 1 .. 10
UeStage == 6
ReconcileStage == 9

(* reconcile_initial stops the UPFs of every slice that slice-state.json    *)
(* does not have RUNNING, and removes those of the deleted ones.            *)
Halts(n) ==
  IF n = ReconcileStage /\ slices = "inactive" THEN {"upfs"} ELSE {}

(* What may run where step n is left before its end.                        *)
CutShort(n) ==
  {(up \union started) \ halted :
     started \in SUBSET Plan[n].brings, halted \in SUBSET Halts(n)}

BringUpOps == {"start", "reset"}      \* these record each phase as it is reached
Ops == BringUpOps \union {"render", "resume", "stop"}
NoOp == "none"

Steps == {"idle", "mkdir", "artifacts", "slices", "check", "work", "collect",
          "logs", "teardown", "read", "append", "truncate", "overwrite"}

(* A process: its next step, its command, the step of _bring_up it is at (0 *)
(* before the first), the phase of the LaunchPhaseError it is handling or   *)
(* has ended with, and the record it is writing.                            *)
Process == [at : Steps, op : Ops \union {NoOp}, stage : 0 .. 11,
            failure : RunPhase \union {NoPhase},
            rec : RunRecord \union {Missing}]

Idle == [at |-> "idle", op |-> NoOp, stage |-> 0, failure |-> NoPhase,
         rec |-> Missing]

Init ==
  /\ layout = "absent" /\ slices = "none"
  /\ current = Missing /\ history = << >>
  /\ up = {}
  /\ cmd = [p \in Procs |-> Idle]
  /\ invocations = 0 /\ faults = 0

(* One of the bounded faults: a kill, a restart, or logs that cannot be     *)
(* read.                                                                    *)
Fault == faults < MaxFaults /\ faults' = faults + 1

Goto(p, s) == cmd' = [cmd EXCEPT ![p].at = s]
(* Mutant: one stage too many.                                              *)
GotoStagePastTheLast(p, n) ==
  cmd' = [cmd EXCEPT ![p].stage = n, ![p].at = "work"]

GotoStage(p, n) ==
  cmd' = [cmd EXCEPT ![p].stage = n, ![p].at = IF n = 11 THEN "read" ELSE "work"]
Exit(p) == cmd' = [cmd EXCEPT ![p] = [Idle EXCEPT !.failure = cmd[p].failure]]

-----------------------------------------------------------------------------
(***************************************************************************)
(* Commands.  Apart from render and start, which may create the run         *)
(* directory, a command on a directory that does not exist ends at once.    *)
(***************************************************************************)
FirstStep(o) ==
  CASE o = "render" -> "mkdir"
    [] o = "start"  -> IF layout = "absent" THEN "mkdir" ELSE "check"
    [] o = "resume" -> "check"
    [] o = "stop"   -> "logs"
    [] o = "reset"  -> "teardown"

Begin(p, o) ==
  /\ cmd[p].at = "idle"
  /\ Overlapping \/ \A q \in Procs : cmd[q].at = "idle"
  /\ layout # "absent" \/ o \in {"render", "start"}
  /\ invocations < MaxInvocations
  /\ invocations' = invocations + 1
  /\ cmd' = [cmd EXCEPT ![p] = [Idle EXCEPT !.at = FirstStep(o), !.op = o]]
  /\ UNCHANGED <<files, up, faults>>

Command(p) == p \in Operators /\ \E o \in Ops : Begin(p, o)

(* POST /v1/runs/{run_id}/reset and .../stop: `docker run --name` refuses a *)
(* worker while one of the same name lives.                                 *)
Dispatch(p) ==
  /\ "telemetry" \in up
  /\ \/ p = ResetWorker /\ Begin(p, "reset")
     \/ p = StopWorker /\ Begin(p, "stop")

-----------------------------------------------------------------------------
(* render_run: the directory, the artifacts, RunStore.initialize, then      *)
(* SliceStore.initialize.                                                   *)

Mkdir(p) ==
  /\ cmd[p].at = "mkdir"
  /\ IF layout = "absent"
     THEN layout' = "partial" /\ Goto(p, "artifacts")
     ELSE Exit(p) /\ UNCHANGED layout                    \* exist_ok=False
  /\ UNCHANGED <<slices, current, history, up, counters>>

(* Mutant: the state is initialised before the artifacts are there.         *)
RenderArtifactsLast(p) ==
  /\ cmd[p].at = "artifacts"
  /\ cmd' = [cmd EXCEPT ![p].at = "append", ![p].rec = created]
  /\ UNCHANGED <<files, up, counters>>

RenderArtifacts(p) ==
  /\ cmd[p].at = "artifacts"
  /\ layout' = "rendered"
  /\ IF current = Missing
     THEN cmd' = [cmd EXCEPT ![p].at = "append", ![p].rec = created]
     ELSE Exit(p)
  /\ UNCHANGED <<slices, current, history, up, counters>>

InitializeSlices(p) ==
  /\ cmd[p].at = "slices"
  /\ slices' \in {"running", "inactive"}
  /\ IF cmd[p].op = "start" THEN Goto(p, "check") ELSE Exit(p)
  /\ UNCHANGED <<layout, current, history, up, counters>>

-----------------------------------------------------------------------------
(* Launcher.start and Launcher.resume look at the phase before they begin.  *)

(* Mutant: a stopped run may be started.                                    *)
MayBringUpStopped(o) ==
  IF o = "resume" THEN CanRecover(current)
                  ELSE current.phase \in {"CREATED", "STOPPED"}

MayBringUp(o) ==
  IF o = "resume" THEN CanRecover(current) ELSE current.phase = "CREATED"

(* Mutant: resume goes to the last stage, the others being recorded.        *)
CheckPhaseSkipsStages(p) ==
  /\ cmd[p].at = "check"
  /\ IF MayBringUp(cmd[p].op)
     THEN GotoStage(p, IF cmd[p].op = "resume" THEN 10 ELSE 1)
     ELSE Exit(p)
  /\ UNCHANGED <<files, up, counters>>

CheckPhase(p) ==
  /\ cmd[p].at = "check"
  /\ IF MayBringUp(cmd[p].op) THEN GotoStage(p, 1) ELSE Exit(p)
  /\ UNCHANGED <<files, up, counters>>

(* start hands each phase to RunStore.advance; resume only keeps evidence.  *)
StageSucceeds(p) ==
  LET step == Plan[cmd[p].stage] IN
  /\ cmd[p].at = "work"
  /\ cmd[p].stage = ReconcileStage => slices # "none"
  /\ up' = (up \union step.brings) \ Halts(cmd[p].stage)
  /\ IF cmd[p].op \in BringUpOps /\ step.ready # NoPhase
     THEN Goto(p, "read")
     ELSE GotoStage(p, cmd[p].stage + 1)
  /\ UNCHANGED <<files, counters>>

(* Mutant: reconcile_initial is called outside the try.                     *)
StageFailsUncaught(p) ==
  LET step == Plan[cmd[p].stage] IN
  /\ cmd[p].at = "work"
  /\ \E b \in step.blame :
       cmd' = [cmd EXCEPT ![p] = IF @.stage = ReconcileStage
                                 THEN [Idle EXCEPT !.failure = b]
                                 ELSE [@ EXCEPT !.failure = b, !.at = "collect"]]
  /\ up' \in CutShort(cmd[p].stage)
  /\ UNCHANGED <<files, counters>>

StageFails(p) ==
  LET step == Plan[cmd[p].stage] IN
  /\ cmd[p].at = "work"
  /\ \E b \in step.blame :
       cmd' = [cmd EXCEPT ![p].failure = b, ![p].at = "collect"]
  /\ up' \in CutShort(cmd[p].stage)
  /\ UNCHANGED <<files, counters>>

(* _record_failure collects the logs first; if that raises, RunStore.fail   *)
(* is not called and the command ends with the exception.                   *)
CollectLogs(p) ==
  /\ cmd[p].at = "collect"
  /\ \/ Goto(p, "read") /\ UNCHANGED faults
     \/ Fault /\ Exit(p)
  /\ UNCHANGED <<files, up, invocations>>

-----------------------------------------------------------------------------
(* Launcher.stop: logs, compose stop, record.  Launcher.reset: compose down *)
(* --volumes, record, start.  A compose call that fails may have taken down *)
(* some of the containers.                                                  *)

StopLogs(p) ==
  /\ cmd[p].at = "logs"
  /\ \/ Goto(p, "teardown") /\ UNCHANGED faults
     \/ Fault /\ Exit(p)
  /\ UNCHANGED <<files, up, invocations>>

Teardown(p) ==
  /\ cmd[p].at = "teardown"
  /\ \/ up' = {} /\ Goto(p, "read")
     \/ up' \in SUBSET up /\ Exit(p)
  /\ UNCHANGED <<files, counters>>

-----------------------------------------------------------------------------
(* RunStore: read the current record, make the next one, write it.          *)

(* Mutant: advance does not look at the phase it advances from.             *)
ProposedUnordered(c, r) ==
  LET target == IF c.stage \in Stages THEN Plan[c.stage].ready ELSE "RUNNING" IN
  IF ~Readable(r) THEN {}
  ELSE IF c.failure # NoPhase THEN {fail(r, c.failure)}
  ELSE IF c.op = "stop" THEN {stop(r)}
  ELSE IF c.op = "reset" /\ c.stage = 0 THEN {reset(r)}
  ELSE IF c.op = "resume" THEN IF CanRecover(r) THEN {recover(r)} ELSE {}
  ELSE {advance(r, target)}

(* Mutant: reset writes the record initialize writes.                       *)
ProposedAnew(c, r) ==
  IF Readable(r) /\ c.op = "reset" /\ c.stage = 0 /\ c.failure = NoPhase
  THEN {created}
  ELSE ProposedUnordered(c, r)

(* The record the pending RunStore call makes of r; none if it raises.      *)
Proposed(c, r) ==
  LET target == IF c.stage \in Stages THEN Plan[c.stage].ready ELSE "RUNNING" IN
  IF ~Readable(r) THEN {}
  ELSE IF c.failure # NoPhase THEN {fail(r, c.failure)}
  ELSE IF c.op = "stop" THEN {stop(r)}
  ELSE IF c.op = "reset" /\ c.stage = 0 THEN {reset(r)}
  ELSE IF c.op = "resume" THEN IF CanRecover(r) THEN {recover(r)} ELSE {}
  ELSE IF CanAdvance(r, target) THEN {advance(r, target)} ELSE {}

ReadCurrent(p) ==
  /\ cmd[p].at = "read"
  /\ \E r \in Proposed(cmd[p], current) :
       cmd' = [cmd EXCEPT ![p].rec = r, ![p].at = "append"]
  /\ UNCHANGED <<files, up, counters>>

(* An advance that raises inside _bring_up is a failed stage; any other     *)
(* call that raises ends the command.                                       *)
LastExpected(n) == IF n = UeStage THEN "PDU_READY" ELSE Plan[n].ready

ReadCurrentRaises(p) ==
  /\ cmd[p].at = "read"
  /\ Proposed(cmd[p], current) = {}
  /\ IF cmd[p].stage \in Stages /\ cmd[p].failure = NoPhase
     THEN cmd' = [cmd EXCEPT ![p].failure = LastExpected(cmd[p].stage),
                             ![p].at = "collect"]
     ELSE Exit(p)
  /\ UNCHANGED <<files, up, counters>>

(* Mutant: failures are not logged.                                         *)
AppendHistoryOfProgress(p) ==
  /\ cmd[p].at = "append"
  /\ history' = IF cmd[p].rec.phase = "FAILED" THEN history
                                              ELSE Append(history, cmd[p].rec)
  /\ Goto(p, "truncate")
  /\ UNCHANGED <<layout, slices, current, up, counters>>

AppendHistory(p) ==
  /\ cmd[p].at = "append"
  /\ history' = Append(history, cmd[p].rec)
  /\ Goto(p, "truncate")
  /\ UNCHANGED <<layout, slices, current, up, counters>>

TruncateCurrent(p) ==
  /\ cmd[p].at = "truncate"
  /\ current' = Torn
  /\ Goto(p, "overwrite")
  /\ UNCHANGED <<layout, slices, history, up, counters>>

(* A text written over another, which came after the truncation, may be the *)
(* shorter of the two and keep the end of the other.  The command goes on   *)
(* from the call that has returned.                                         *)
OverwriteCurrent(p) ==
  /\ cmd[p].at = "overwrite"
  /\ current' \in {cmd[p].rec, IF Readable(current) THEN Torn ELSE cmd[p].rec}
  /\ \/ /\ cmd[p].failure # NoPhase \/ cmd[p].op = "stop" \/ cmd[p].stage = 11
        /\ Exit(p)
     \/ /\ cmd[p].failure = NoPhase /\ cmd[p].op # "stop" /\ cmd[p].stage = 0
        /\ Goto(p, IF cmd[p].op = "reset" THEN "check" ELSE "slices")
     \/ /\ cmd[p].failure = NoPhase /\ cmd[p].stage \in Stages
        /\ GotoStage(p, cmd[p].stage + 1)
  /\ UNCHANGED <<layout, slices, history, up, counters>>

-----------------------------------------------------------------------------
(* A process is killed; the host restarts, which kills every process and    *)
(* stops every container (no service has a restart policy).  A kill in the  *)
(* middle of docker calls leaves what they have done so far.                *)

Kill(p) ==
  /\ cmd[p].at # "idle"
  /\ Fault
  /\ cmd' = [cmd EXCEPT ![p] = Idle]
  /\ up' \in CASE cmd[p].at = "work" -> CutShort(cmd[p].stage)
               [] cmd[p].at = "teardown" -> SUBSET up
               [] OTHER -> {up}
  /\ UNCHANGED <<files, invocations>>

HostRestart ==
  /\ Fault
  /\ up' = {}
  /\ cmd' = [p \in Procs |-> Idle]
  /\ UNCHANGED <<files, invocations>>

(* What a slice action of the gateway (SliceCatalog has its steps) leaves:  *)
(* UPFs that all run or not, and slice-state.json rewritten.  That a        *)
(* container it restarts may not come back is left out.                     *)
SliceAction ==
  /\ "telemetry" \in up /\ slices # "none"
  /\ Overlapping \/ \A p \in Procs : cmd[p].at = "idle"
  /\ slices' \in {"running", "inactive"}
  /\ up' \in {up \ {"upfs"}, up \union {"upfs"}}
  /\ UNCHANGED <<layout, current, history, cmd, counters>>

(* What a process does unless it is killed.                                 *)
Continue(p) ==
  \/ Mkdir(p) \/ RenderArtifacts(p) \/ InitializeSlices(p)
  \/ CheckPhase(p) \/ StageSucceeds(p) \/ StageFails(p) \/ CollectLogs(p)
  \/ StopLogs(p) \/ Teardown(p)
  \/ ReadCurrent(p) \/ ReadCurrentRaises(p)
  \/ AppendHistory(p) \/ TruncateCurrent(p) \/ OverwriteCurrent(p)

Next ==
  \/ \E p \in Procs : Command(p) \/ Dispatch(p) \/ Continue(p) \/ Kill(p)
  \/ HostRestart \/ SliceAction

Spec == Init /\ [][Next]_vars

(* A process that is not killed goes on: every docker call has a timeout    *)
(* (adapters/docker_adapter.py) and every wait a deadline (readiness.py).   *)
FairSpec == Spec /\ \A p \in Procs : WF_vars(Continue(p))

-----------------------------------------------------------------------------
(***************************************************************************)
(* Properties.                                                             *)
(***************************************************************************)
Logged == {history[i] : i \in DOMAIN history}

Writing(p) == cmd[p].at \in {"append", "truncate", "overwrite"}

(* Every variable holds a value of its kind; a process that is bringing the *)
(* run up is at one of the stages and a process that writes has a record.   *)
TypeOK ==
  /\ layout \in {"absent", "partial", "rendered"}
  /\ slices \in {"none", "running", "inactive"}
  /\ current \in RunRecord \union {Missing, Torn}
  /\ history \in Seq(RunRecord)
  /\ up \in SUBSET Groups
  /\ cmd \in [Procs -> Process]
  /\ invocations \in Nat /\ faults \in Nat
  /\ \A p \in Procs :
       /\ cmd[p].at = "work" => cmd[p].stage \in Stages
       /\ Writing(p) => cmd[p].rec \in RunRecord

(* Whatever the commands that run at once and the processes killed on the   *)
(* way, the state a reader sees in current-state.json is always in the      *)
(* history too: _write appends before it overwrites.                        *)
CurrentIsLogged == Readable(current) => current \in Logged

(* No line of state.jsonl appears from nothing: each comes by a transition  *)
(* RunStore allows from an earlier line, so a phase is only ever recorded   *)
(* over a record of the phase before it in the same generation, also when   *)
(* commands overwrite each other's state and when they are killed.          *)
HistoryIsDerived ==
  \A i \in DOMAIN history :
    \/ history[i] = created
    \/ \E j \in 1 .. i - 1 : Derives(history[j], history[i])

(* A run is not brought up before it is rendered: start finds a phase only  *)
(* once render_run has written every artifact the launcher reads.           *)
BroughtUpOnlyWhenRendered ==
  \A p \in Procs : cmd[p].at \in {"work", "collect"} => layout = "rendered"

(* RUNNING is written, by start and by resume, only while the containers of *)
(* every group run, those reconcile_initial has taken down apart: the UPFs, *)
(* where slice-state.json has a slice that is not RUNNING, and only there.  *)
(* Which UPF is then in which state is SliceCatalog's                       *)
(* ReconcileRestoresSlices.                                                 *)
RunningIsRecordedOnlyWhenUp ==
  \A p \in Procs : Writing(p) /\ cmd[p].rec.phase = "RUNNING" =>
    up = Groups \ (IF slices = "inactive" THEN {"upfs"} ELSE {})

(* While the recorded phase is STOPPED no group is running: stop records    *)
(* after compose stop, and reset brings up after it has recorded CREATED.   *)
StoppedMeansDown == current.phase = "STOPPED" => up = {}

(* A command that ends with a stage's exception has left the FAILED record  *)
(* that names the stage's phase (README: any stage that fails makes the run *)
(* FAILED).                                                                 *)
FailedStageIsRecorded ==
  \A p \in Procs : cmd[p].at = "idle" /\ cmd[p].failure # NoPhase =>
    \E r \in Logged : r.phase = "FAILED" /\ r.failed_phase = cmd[p].failure

(* So it is as long as the logs can be read and no process is killed.       *)
FailureIsRecordedIfLogsAre == faults = 0 => FailedStageIsRecorded

(* state.jsonl is the complete history of transitions: where nothing is     *)
(* killed, each line is the transition from the line before it.             *)
HistoryIsAChain == faults = 0 =>
  \A i \in DOMAIN history :
    IF i = 1 THEN history[i] = created ELSE Derives(history[i - 1], history[i])

(* Between commands the current state has the highest generation ever       *)
(* recorded: where nothing is killed, a reset that has returned is not      *)
(* undone.                                                                  *)
ResetIsNotUndone ==
  faults = 0 /\ (\A p \in Procs : cmd[p].at = "idle") /\ Readable(current) =>
    \A r \in Logged : r.reset_generation <= current.reset_generation

(* What a reader may rely on: the record in current-state.json, and while   *)
(* that file is empty the record about to be written to it.                 *)
Visible ==
  IF current = Torn THEN history[Len(history)] ELSE current

Promise == INSTANCE RunPhases WITH run <- Visible

(* Commands that do not overlap, however often they are killed, implement   *)
(* the abstract run state.                                                  *)
ImplementsRunPhases == Promise!Spec

(* Without faults a run never stays half started: from every phase of a     *)
(* bring-up it comes to RUNNING, FAILED or STOPPED, or back to CREATED.     *)
BringUpSettles == [](faults = 0) =>
  ((current.phase \in OrderedPhases \ {"CREATED", "RUNNING"})
     ~> (current.phase \in {"CREATED", "RUNNING", "FAILED", "STOPPED"}))
===============================================================================

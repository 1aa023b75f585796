--------------------------- MODULE RunSerial_proofs ---------------------------
(***************************************************************************)
(* Theorems about RunLifecycle when commands do not overlap: what the       *)
(* recorded phase says of the containers, and that the record is the        *)
(* abstract one of RunPhases.  For any bounds; processes may be killed and  *)
(* hosts restarted at any step.                                             *)
(***************************************************************************)
EXTENDS RunLifecycle_proofs

-----------------------------------------------------------------------------
(* The invariant.  At most one process works.                               *)
Alone == \A p, q \in Procs : cmd[p].at # "idle" /\ cmd[q].at # "idle" => p = q

WriteSteps == {"append", "truncate", "overwrite"}
Preparing == {"mkdir", "artifacts", "slices", "check", "logs", "teardown"}

(* How far a process can be with its command, whatever the others do.       *)
Course(c) ==
  /\ c.at \in Preparing => c.stage = 0 /\ c.failure = NoPhase
  /\ c.at \in {"mkdir", "artifacts", "slices"} => c.op # "stop"
  /\ c.at = "check" => c.op \in BringUpOps \union {"resume"}
  /\ c.at = "logs" => c.op = "stop"
  /\ c.at = "teardown" => c.op \in {"stop", "reset"}
  /\ c.at \in {"work", "collect"} => c.stage \in Stages
  /\ c.at = "work" => c.failure = NoPhase
  /\ c.at = "collect" => c.failure # NoPhase
  /\ c.stage # 0 => c.op \in BringUpOps \union {"resume"}
  /\ c.op = "stop" => c.failure = NoPhase
  /\ c.at \in WriteSteps \union {"read"} /\ c.failure # NoPhase => c.stage \in Stages
  /\ c.at = "read" /\ c.failure = NoPhase =>
       \/ c.stage \in Stages /\ Plan[c.stage].ready # NoPhase /\ c.op \in BringUpOps
       \/ c.stage = 11
       \/ c.stage = 0 /\ c.op \in {"stop", "reset"}
  /\ c.at \in WriteSteps =>
       /\ c.failure # NoPhase =>
            c.rec.phase = "FAILED" /\ c.rec.failed_phase = c.failure
       /\ c.rec.phase = "RUNNING" => c.stage = 11 /\ c.failure = NoPhase
       /\ c.rec.phase = "STOPPED" => c.op = "stop"

(* What a process at work has made of the containers and the files; of the  *)
(* stages of a bring-up, what each brought up still runs, the UPFs until    *)
(* reconcile_initial has found a slice that is not RUNNING.                 *)
Fresh(r) == \/ current = Missing /\ r = created
            \/ Readable(current) /\ Derives(current, r)

Last == history[Len(history)]

Passed(c, k) == k < c.stage \/ (k = c.stage /\ c.at # "work")

UpfsRun(c) ==
  Passed(c, 1) =>
    ("upfs" \in up <=> ~(Passed(c, ReconcileStage) /\ slices = "inactive"))

BuiltUp(c) ==
  c.failure = NoPhase =>
    /\ \A k \in Stages : Passed(c, k) => Plan[k].brings \ {"upfs"} \subseteq up
    /\ UpfsRun(c)

Standing(c) ==
  /\ BuiltUp(c)
  /\ c.stage # 0 => history # <<>> /\ current.phase # "STOPPED"
  /\ c.op = "stop" /\ c.at \in WriteSteps \union {"read"} => up = {}
  /\ c.at \in {"append", "truncate"} => Fresh(c.rec)
  /\ c.at \in {"truncate", "overwrite"} => history # <<>> /\ Last = c.rec
  /\ c.at = "overwrite" => current = Torn

(* What the files are where nothing was ever killed.                        *)
CurrentIsLast ==
  (\A p \in Procs : cmd[p].at \notin {"truncate", "overwrite"}) =>
    current = IF history = <<>> THEN Missing ELSE Last

Chain ==
  \A i \in DOMAIN history :
    IF i = 1 THEN history[i] = created ELSE Derives(history[i - 1], history[i])

LastIsNewest ==
  \A i \in DOMAIN history : history[i].reset_generation <= Last.reset_generation

Unharmed == CurrentIsLast /\ Chain /\ LastIsNewest /\ FailedStageIsRecorded

SerialInv ==
  /\ TypeOK /\ Alone
  /\ \A p \in Procs : Course(cmd[p])
  /\ \A p \in Procs : cmd[p].at # "idle" => Standing(cmd[p])
  /\ StoppedMeansDown
  /\ faults = 0 => Unharmed

-----------------------------------------------------------------------------
(* A process keeps to the course of its command.                            *)

(* The phases of the plan.                                                  *)
LEMMA PlanPhases ==
  ASSUME NEW n \in Stages
  PROVE  /\ Plan[n].ready \notin {"RUNNING", "STOPPED", "FAILED"}
         /\ Plan[n].ready # NoPhase => LastExpected(n) # NoPhase
         /\ NoPhase \notin Plan[n].blame
  BY DEF Stages, Plan, LastExpected, NoPhase, UeStage

LEMMA ProposedKeepsCourse ==
  ASSUME NEW c \in Process, Course(c), c.at = "read", NEW r, NEW x \in Proposed(c, r)
  PROVE  /\ c.failure # NoPhase => x.phase = "FAILED" /\ x.failed_phase = c.failure
                                     /\ c.stage \in Stages
         /\ x.phase = "RUNNING" => c.stage = 11 /\ c.failure = NoPhase
         /\ x.phase = "STOPPED" => c.op = "stop"
  <1>1. /\ stop(r).phase = "STOPPED" /\ reset(r).phase = "CREATED"
        /\ recover(r).phase = "RUNNING"
        /\ \A p : /\ advance(r, p).phase = p
                  /\ fail(r, p).phase = "FAILED" /\ fail(r, p).failed_phase = p
    BY DEF stop, reset, recover, advance, fail, Successor
  <1> DEFINE target == IF c.stage \in Stages THEN Plan[c.stage].ready ELSE "RUNNING"
  <1>2. \/ c.failure # NoPhase /\ x = fail(r, c.failure)
        \/ c.failure = NoPhase /\ c.op = "stop" /\ x = stop(r)
        \/ c.failure = NoPhase /\ c.op # "stop" /\ c.op = "reset" /\ c.stage = 0 /\ x = reset(r)
        \/ c.failure = NoPhase /\ c.op = "resume" /\ x = recover(r)
        \/ /\ c.failure = NoPhase /\ c.op \notin {"stop", "resume"}
           /\ ~(c.op = "reset" /\ c.stage = 0) /\ x = advance(r, target)
    BY DEF Proposed
  <1>3. c.stage \notin {0, 11} => target \notin {"RUNNING", "STOPPED", "FAILED"}
    BY PlanPhases DEF Process, Stages
  <1>4. c.stage \in {0, 11} => target = "RUNNING"
    BY DEF Stages
  <1> HIDE DEF target
  <1>5. c.failure = NoPhase /\ c.op = "resume" => c.stage = 11
    BY DEF Course, BringUpOps
  <1>6. c.failure = NoPhase /\ c.stage = 0 => c.op \in {"stop", "reset"}
    BY DEF Course, Stages
  <1>7. c.failure # NoPhase => c.stage \in Stages
    BY DEF Course
  <1> QED
    BY <1>1, <1>2, <1>3, <1>4, <1>5, <1>6, <1>7
(* The action p takes keeps p to its course.                                *)
LEMMA ContinueKeepsCourse ==
  ASSUME TypeOK, NEW p \in Procs, Course(cmd[p]), Continue(p)
  PROVE  Course(cmd'[p])
  <1> DEFINE c == cmd[p]
  <1> DEFINE d == cmd'[p]
  <1>0. c \in Process
    BY DEF TypeOK
  <1>1. ASSUME Exit(p) PROVE Course(d)
    BY <1>1, ExitFields DEF Course, Preparing, WriteSteps, NoOp
  <1>2. CASE Mkdir(p)
    <2>1. CASE Goto(p, "artifacts")
      <3>1. /\ d.at = "artifacts" /\ d.op = c.op /\ d.stage = c.stage
            /\ d.failure = c.failure
        BY <2>1, GotoFields
      <3> QED
        BY <1>2, <3>1 DEF Mkdir, Course, Preparing, WriteSteps
    <2> QED
      BY <1>1, <1>2, <2>1 DEF Mkdir
  <1>3. CASE RenderArtifacts(p)
    <2>1. CASE cmd' = [cmd EXCEPT ![p].at = "append", ![p].rec = created]
      <3>1. /\ d.at = "append" /\ d.rec = created
            /\ d.op = c.op /\ d.stage = c.stage /\ d.failure = c.failure
        BY <2>1, WritesFields
      <3>2. created.phase = "CREATED"
        BY DEF created
      <3> QED
        BY <1>3, <3>1, <3>2 DEF RenderArtifacts, Course, Preparing, WriteSteps
    <2> QED
      BY <1>1, <1>3, <2>1 DEF RenderArtifacts
  <1>4. CASE InitializeSlices(p)
    <2>1. CASE c.op = "start" /\ Goto(p, "check")
      <3>1. /\ d.at = "check" /\ d.op = c.op /\ d.stage = c.stage
            /\ d.failure = c.failure
        BY <2>1, GotoFields
      <3> QED
        BY <1>4, <2>1, <3>1
           DEF InitializeSlices, Course, Preparing, WriteSteps, BringUpOps
    <2> QED
      BY <1>1, <1>4, <2>1 DEF InitializeSlices
  <1>5. CASE CheckPhase(p)
    <2>1. CASE GotoStage(p, 1)
      <3>1. /\ d.at = "work" /\ d.op = c.op /\ d.stage = 1 /\ d.failure = c.failure
        BY <2>1, GotoStageFields
      <3> QED
        BY <1>5, <3>1 DEF CheckPhase, Course, Preparing, WriteSteps, Stages, BringUpOps
    <2> QED
      BY <1>1, <1>5, <2>1 DEF CheckPhase
  <1>6. ASSUME c.stage \in Stages, c.failure = NoPhase, GotoStage(p, c.stage + 1),
               c.op \in BringUpOps \union {"resume"}
        PROVE  Course(d)
    <2>1. /\ d.at = (IF c.stage + 1 = 11 THEN "read" ELSE "work")
          /\ d.op = c.op /\ d.stage = c.stage + 1 /\ d.failure = NoPhase
      BY <1>6, GotoStageFields
    <2>2. d.stage # 11 => d.stage \in Stages
      BY <1>6, <2>1 DEF Stages
    <2>3. (d.at = "work" /\ d.stage # 11) \/ (d.at = "read" /\ d.stage = 11)
      BY <2>1
    <2>4. d.op # "stop"
      BY <1>6, <2>1 DEF BringUpOps
    <2> QED
      BY <1>6, <2>1, <2>2, <2>3, <2>4 DEF Course, Preparing, WriteSteps
  <1>7. CASE StageSucceeds(p)
    <2>1. /\ c.stage \in Stages /\ c.failure = NoPhase
          /\ c.op \in BringUpOps \union {"resume"}
      BY <1>7 DEF StageSucceeds, Course, Stages
    <2>2. CASE c.op \in BringUpOps /\ Plan[c.stage].ready # NoPhase /\ Goto(p, "read")
      <3>1. /\ d.at = "read" /\ d.op = c.op /\ d.stage = c.stage
            /\ d.failure = c.failure
        BY <2>2, GotoFields
      <3> QED
        BY <2>1, <2>2, <3>1 DEF Course, Preparing, WriteSteps, BringUpOps
    <2> QED
      BY <1>6, <1>7, <2>1, <2>2 DEF StageSucceeds
  <1>8. ASSUME NEW b, b # NoPhase, c.stage \in Stages, c.op # "stop",
               c.op \in BringUpOps \union {"resume"},
               cmd' = [cmd EXCEPT ![p].failure = b, ![p].at = "collect"]
        PROVE  Course(d)
    <2>1. /\ d.at = "collect" /\ d.failure = b /\ d.op = c.op /\ d.stage = c.stage
      BY <1>8, FailsFields
    <2> QED
      BY <1>8, <2>1 DEF Course, Preparing, WriteSteps
  <1>9. CASE StageFails(p)
    <2>1. PICK b \in Plan[c.stage].blame :
            cmd' = [cmd EXCEPT ![p].failure = b, ![p].at = "collect"]
      BY <1>9 DEF StageFails
    <2>2. c.stage \in Stages /\ c.op \in BringUpOps \union {"resume"}
      BY <1>9 DEF StageFails, Course, Stages
    <2>3. b # NoPhase /\ c.op # "stop"
      BY <2>1, <2>2, PlanPhases DEF BringUpOps
    <2> QED
      BY <1>8, <2>1, <2>2, <2>3
  <1>10. CASE CollectLogs(p)
    <2>1. CASE Goto(p, "read")
      <3>1. /\ d.at = "read" /\ d.op = c.op /\ d.stage = c.stage
            /\ d.failure = c.failure
        BY <2>1, GotoFields
      <3> QED
        BY <1>10, <3>1 DEF CollectLogs, Course, Preparing, WriteSteps
    <2> QED
      BY <1>1, <1>10, <2>1 DEF CollectLogs
  <1>11. CASE StopLogs(p)
    <2>1. CASE Goto(p, "teardown")
      <3>1. /\ d.at = "teardown" /\ d.op = c.op /\ d.stage = c.stage
            /\ d.failure = c.failure
        BY <2>1, GotoFields
      <3> QED
        BY <1>11, <3>1 DEF StopLogs, Course, Preparing, WriteSteps
    <2> QED
      BY <1>1, <1>11, <2>1 DEF StopLogs
  <1>12. CASE Teardown(p)
    <2>1. CASE Goto(p, "read")
      <3>1. /\ d.at = "read" /\ d.op = c.op /\ d.stage = c.stage
            /\ d.failure = c.failure
        BY <2>1, GotoFields
      <3> QED
        BY <1>12, <3>1 DEF Teardown, Course, Preparing, WriteSteps
    <2> QED
      BY <1>1, <1>12, <2>1 DEF Teardown
  <1>13. CASE ReadCurrent(p)
    <2>1. PICK r \in Proposed(c, current) :
            cmd' = [cmd EXCEPT ![p].rec = r, ![p].at = "append"]
      BY <1>13 DEF ReadCurrent
    <2>2. /\ d.at = "append" /\ d.rec = r /\ d.op = c.op /\ d.stage = c.stage
          /\ d.failure = c.failure
      BY <2>1, WritesFields
    <2>3. c.at = "read"
      BY <1>13 DEF ReadCurrent
    <2>4. /\ c.failure # NoPhase => r.phase = "FAILED" /\ r.failed_phase = c.failure
                                       /\ c.stage \in Stages
          /\ r.phase = "RUNNING" => c.stage = 11 /\ c.failure = NoPhase
          /\ r.phase = "STOPPED" => c.op = "stop"
      BY <1>0, <2>1, <2>3, ProposedKeepsCourse
    <2> QED
      BY <2>2, <2>3, <2>4 DEF Course, Preparing, WriteSteps
  <1>14. CASE ReadCurrentRaises(p)
    <2>1. CASE c.stage \in Stages /\ c.failure = NoPhase
      <3>1. cmd' = [cmd EXCEPT ![p].failure = LastExpected(c.stage), ![p].at = "collect"]
        BY <1>14, <2>1 DEF ReadCurrentRaises
      <3>2. Plan[c.stage].ready # NoPhase /\ c.op \in BringUpOps
        BY <1>14, <2>1 DEF ReadCurrentRaises, Course, Stages
      <3>3. LastExpected(c.stage) # NoPhase /\ c.op # "stop"
        BY <2>1, <3>2, PlanPhases DEF BringUpOps
      <3> QED
        BY <1>8, <2>1, <3>1, <3>2, <3>3
    <2> QED
      BY <1>1, <1>14, <2>1 DEF ReadCurrentRaises
  <1>15. ASSUME NEW s \in WriteSteps, Goto(p, s), c.at \in WriteSteps
         PROVE  Course(d)
    <2>1. /\ d.at = s /\ d.op = c.op /\ d.stage = c.stage
          /\ d.failure = c.failure /\ d.rec = c.rec
      BY <1>15, GotoFields
    <2> QED
      BY <1>15, <2>1 DEF Course, Preparing, WriteSteps
  <1>16. CASE AppendHistory(p) \/ TruncateCurrent(p)
    BY <1>15, <1>16 DEF AppendHistory, TruncateCurrent, WriteSteps
  <1>17. CASE OverwriteCurrent(p)
    <2>1. CASE c.failure = NoPhase /\ c.op # "stop" /\ c.stage = 0
               /\ Goto(p, IF c.op = "reset" THEN "check" ELSE "slices")
      <3>1. /\ d.at = (IF c.op = "reset" THEN "check" ELSE "slices")
            /\ d.op = c.op /\ d.stage = c.stage /\ d.failure = c.failure
        BY <2>1, GotoFields
      <3> QED
        BY <2>1, <3>1 DEF Course, Preparing, WriteSteps, BringUpOps
    <2>2. CASE c.failure = NoPhase /\ c.stage \in Stages /\ GotoStage(p, c.stage + 1)
      <3>1. c.op \in BringUpOps \union {"resume"}
        BY <2>2 DEF Course, Stages
      <3> QED
        BY <1>6, <2>2, <3>1
    <2> QED
      BY <1>1, <1>17, <2>1, <2>2 DEF OverwriteCurrent
  <1> HIDE DEF c, d
  <1> QED
    BY <1>2, <1>3, <1>4, <1>5, <1>7, <1>9, <1>10, <1>11, <1>12, <1>13, <1>14,
       <1>16, <1>17 DEF Continue

-----------------------------------------------------------------------------
(* What the process at work has made stands, whatever it does next.         *)

LEMMA UnreadableStates ==
  ~Readable(Missing) /\ ~Readable(Torn) /\ Torn.phase # "STOPPED" /\ Missing # Torn
  <1>1. ~Readable(Missing) /\ ~Readable(Torn) /\ Torn.phase # "STOPPED"
    BY DEF Readable, Missing, Torn, RunPhase, OrderedPhases
  <1>2. Missing.phase = "no file" /\ Torn.phase = "empty file"
    BY DEF Missing, Torn
  <1> QED
    BY <1>1, <1>2

(* The process that acts is the only one that works.                        *)
LEMMA OneActs ==
  ASSUME TypeOK, Alone, ~Overlapping, NEW p \in Procs,
         Command(p) \/ Dispatch(p) \/ Continue(p) \/ Kill(p)
  PROVE  Others(p) /\ \A q \in Procs : q # p => cmd[q].at = "idle"
  <1>1. ASSUME NEW o \in Ops, Begin(p, o)
        PROVE  Others(p) /\ \A q \in Procs : q # p => cmd[q].at = "idle"
    BY <1>1, BeginFields DEF Begin
  <1>2. CASE Continue(p)
    BY <1>2, ContinueLeavesOthers DEF Alone
  <1>3. CASE Kill(p)
    BY <1>3 DEF Kill, Alone, Others, TypeOK
  <1>4. {"reset", "stop"} \subseteq Ops
    BY DEF Ops, BringUpOps
  <1> QED
    BY <1>1, <1>2, <1>3, <1>4 DEF Command, Dispatch

LEMMA ReadStands ==
  ASSUME TypeOK, NEW p \in Procs, Course(cmd[p]), Standing(cmd[p]), ReadCurrent(p)
  PROVE  Standing(cmd[p])'
  <1> DEFINE c == cmd[p]
  <1> DEFINE d == cmd'[p]
  <1>1. PICK r \in Proposed(c, current) :
          cmd' = [cmd EXCEPT ![p].rec = r, ![p].at = "append"]
    BY DEF ReadCurrent
  <1>2. /\ d.at = "append" /\ d.rec = r /\ d.op = c.op /\ d.stage = c.stage
        /\ d.failure = c.failure
    BY <1>1, WritesFields
  <1>3. c.at = "read" /\ UNCHANGED <<current, history, up, slices>>
    BY DEF ReadCurrent, files
  <1>4. c \in Process /\ current \in RunRecord \union {Missing, Torn}
    BY DEF TypeOK
  <1>5. Readable(current) /\ Derives(current, r)
    BY <1>1, <1>4, ProposedAreRecords, ProposedDerives
  <1>6. BuiltUp(cmd[p])'
    BY <1>2, <1>3 DEF Standing, BuiltUp, Passed, UpfsRun
  <1>7. Fresh(cmd[p].rec)'
    BY <1>2, <1>3, <1>5 DEF Fresh
  <1> QED
    BY <1>2, <1>3, <1>6, <1>7 DEF Standing, WriteSteps

LEMMA ContinueStands ==
  ASSUME TypeOK, LogInv, NEW p \in Procs, Course(cmd[p]), Standing(cmd[p]), Continue(p)
  PROVE  cmd'[p].at # "idle" => Standing(cmd[p])'
  <1> DEFINE c == cmd[p]
  <1> DEFINE d == cmd'[p]
  <1>0. c \in Process /\ history \in Seq(RunRecord) /\ c.stage \in 0 .. 11
    BY DEF TypeOK, Process
  <1>1. Exit(p) => d.at = "idle"
    BY ExitFields
  <1>2. ASSUME d.stage = 0, d.at \in Preparing
        PROVE  Standing(cmd[p])'
    BY <1>2 DEF Standing, BuiltUp, Passed, UpfsRun, Preparing, WriteSteps, Stages
  <1>3. ASSUME NEW s \in Preparing, Goto(p, s), c.stage = 0
        PROVE  Standing(cmd[p])'
    BY <1>2, <1>3, GotoFields
  <1>4. CASE Mkdir(p) \/ InitializeSlices(p) \/ StopLogs(p)
    <2>1. c.stage = 0
      BY <1>4 DEF Mkdir, InitializeSlices, StopLogs, Course, Preparing
    <2>2. Exit(p) \/ \E s \in Preparing : Goto(p, s)
      BY <1>4 DEF Mkdir, InitializeSlices, StopLogs, Preparing
    <2> QED
      BY <2>1, <2>2, <1>1, <1>3
  <1>5. CASE RenderArtifacts(p)
    <2>1. CASE current = Missing
               /\ cmd' = [cmd EXCEPT ![p].at = "append", ![p].rec = created]
      <3>1. /\ d.at = "append" /\ d.rec = created /\ d.stage = c.stage /\ d.op = c.op
        BY <2>1, WritesFields
      <3>2. c.stage = 0 /\ UNCHANGED <<current, history, up>>
        BY <1>5 DEF RenderArtifacts, Course, Preparing
      <3>3. d.op # "stop"
        BY <1>5, <3>1 DEF RenderArtifacts, Course
      <3>4. BuiltUp(cmd[p])'
        BY <3>1, <3>2 DEF BuiltUp, Passed, UpfsRun, Stages
      <3>5. Fresh(cmd[p].rec)'
        BY <2>1, <3>1, <3>2 DEF Fresh
      <3> QED
        BY <3>1, <3>2, <3>3, <3>4, <3>5 DEF Standing, WriteSteps
    <2> QED
      BY <1>1, <1>5, <2>1 DEF RenderArtifacts
  <1>6. CASE CheckPhase(p)
    <2>1. CASE MayBringUp(c.op) /\ GotoStage(p, 1)
      <3>1. d.at = "work" /\ d.stage = 1 /\ d.op = c.op
        BY <2>1, GotoStageFields
      <3>2. current.phase \in {"CREATED", "RUNNING", "FAILED"}
        BY <2>1 DEF MayBringUp, CanRecover
      <3>3. current \in Logged
        BY <3>2 DEF LogInv, CurrentIsLogged, Readable, RunPhase, OrderedPhases
      <3>4. history # <<>>
        BY <3>3 DEF Logged
      <3>5. UNCHANGED <<current, history, up>>
        BY <1>6 DEF CheckPhase, files
      <3>6. BuiltUp(cmd[p])'
        BY <3>1 DEF BuiltUp, Passed, UpfsRun, Stages
      <3> QED
        BY <3>1, <3>2, <3>4, <3>5, <3>6 DEF Standing, WriteSteps
    <2> QED
      BY <1>1, <1>6, <2>1 DEF CheckPhase
  <1>7. CASE StageSucceeds(p)
    <2>1. /\ up' = (up \union Plan[c.stage].brings) \ Halts(c.stage)
          /\ c.at = "work" /\ UNCHANGED <<current, history, slices>>
      BY <1>7 DEF StageSucceeds, files
    <2>2. c.stage \in Stages /\ c.failure = NoPhase /\ c.op # "stop"
      BY <2>1 DEF Course, Stages, BringUpOps
    <2>3. /\ d.op = c.op /\ d.failure = c.failure
          /\ \/ d.at = "read" /\ d.stage = c.stage /\ Plan[c.stage].ready # NoPhase
             \/ d.at \in {"read", "work"} /\ d.stage = c.stage + 1
                /\ (d.at = "read" => d.stage = 11)
      BY <1>7, GotoFields, GotoStageFields DEF StageSucceeds
    <2>4. BuiltUp(cmd[p])'
      <3>1. \A k \in Stages : Passed(d, k) <=> k <= c.stage
        BY <2>2, <2>3 DEF Stages, Passed
      <3>2. \A k \in Stages : Passed(c, k) <=> k < c.stage
        BY <2>1, <2>2 DEF Stages, Passed
      <3>3. BuiltUp(c) /\ Halts(c.stage) \subseteq {"upfs"}
        BY DEF Standing, Halts
      <3>4. \A k \in Stages : k <= c.stage => Plan[k].brings \ {"upfs"} \subseteq up'
        <4> SUFFICES ASSUME NEW k \in Stages, k <= c.stage
                     PROVE  Plan[k].brings \ {"upfs"} \subseteq up'
          OBVIOUS
        <4>1. k < c.stage \/ k = c.stage
          BY <2>2 DEF Stages
        <4>2. k < c.stage => Plan[k].brings \ {"upfs"} \subseteq up
          BY <2>2, <3>2, <3>3 DEF BuiltUp
        <4> HIDE DEF c
        <4> QED
          BY <2>1, <3>3, <4>1, <4>2
      <3>5. UpfsRun(cmd[p])'
        <4>1. c.stage = 1 => "upfs" \in Plan[c.stage].brings
          BY DEF Plan
        <4>2. c.stage # 1 => ("upfs" \in up <=> ~(c.stage = 10 /\ slices = "inactive"))
          BY <2>2, <3>2, <3>3 DEF BuiltUp, UpfsRun, Stages, ReconcileStage
        <4>3. c.stage \in {9, 10} => Plan[c.stage].brings \subseteq {"telemetry"}
          BY DEF Plan
        <4>4. /\ c.stage # 9 => Halts(c.stage) = {}
              /\ c.stage = 9 =>
                   Halts(c.stage) = IF slices = "inactive" THEN {"upfs"} ELSE {}
          BY DEF Halts, ReconcileStage
        <4>5. /\ 1 \in Stages /\ ReconcileStage \in Stages /\ ReconcileStage = 9
              /\ c.stage \in 1 .. 10
          BY <2>2 DEF Stages, ReconcileStage
        <4>6. (Passed(d, ReconcileStage) <=> c.stage \in {9, 10}) /\ slices' = slices
          BY <2>1, <3>1, <4>5
        <4> HIDE DEF c, d
        <4>7. "upfs" \in up' <=> ~(c.stage \in {9, 10} /\ slices = "inactive")
          <5>1. CASE c.stage = 9
            BY <2>1, <4>2, <4>3, <4>4, <5>1
          <5>2. CASE c.stage = 10
            BY <2>1, <4>2, <4>3, <4>4, <5>2
          <5>3. CASE c.stage = 1
            BY <2>1, <4>1, <4>4, <5>3
          <5>4. CASE c.stage \notin {1, 9, 10}
            BY <2>1, <4>2, <4>4, <5>4
          <5> QED
            BY <5>1, <5>2, <5>3, <5>4
        <4> QED
          BY <4>6, <4>7 DEF UpfsRun, Passed, d
      <3> QED
        BY <3>1, <3>4, <3>5 DEF BuiltUp, Passed
    <2>5. d.stage # 0 /\ d.at \in {"read", "work"} /\ d.op # "stop"
      BY <2>2, <2>3 DEF Stages
    <2>6. history # <<>> /\ current.phase # "STOPPED"
      BY <2>2 DEF Standing, Stages
    <2> QED
      BY <2>1, <2>4, <2>5, <2>6 DEF Standing, WriteSteps
  <1>8. ASSUME c.stage \in Stages, d.at \in {"collect", "read"}, d.failure # NoPhase,
               d.stage = c.stage, d.op # "stop", UNCHANGED <<current, history>>
        PROVE  Standing(cmd[p])'
    BY <1>8 DEF Standing, BuiltUp, WriteSteps, Stages
  <1>9. CASE StageFails(p)
    <2>1. PICK b \in Plan[c.stage].blame :
            cmd' = [cmd EXCEPT ![p].failure = b, ![p].at = "collect"]
      BY <1>9 DEF StageFails
    <2>2. c.stage \in Stages /\ c.op # "stop"
      BY <1>9 DEF StageFails, Course, Stages, BringUpOps
    <2>3. b # NoPhase
      BY <2>1, <2>2, PlanPhases
    <2>4. d.at = "collect" /\ d.failure = b /\ d.op = c.op /\ d.stage = c.stage
      BY <2>1, FailsFields
    <2>5. UNCHANGED <<current, history>>
      BY <1>9 DEF StageFails, files
    <2> QED
      BY <1>8, <2>2, <2>3, <2>4, <2>5
  <1>10. CASE CollectLogs(p)
    <2>1. CASE Goto(p, "read")
      <3>1. /\ d.at = "read" /\ d.op = c.op /\ d.stage = c.stage
            /\ d.failure = c.failure
        BY <2>1, GotoFields
      <3>2. /\ c.stage \in Stages /\ c.failure # NoPhase /\ c.op # "stop"
            /\ UNCHANGED <<current, history>>
        BY <1>10 DEF CollectLogs, Course, Stages, BringUpOps, files
      <3> QED
        BY <1>8, <3>1, <3>2
    <2> QED
      BY <1>1, <1>10, <2>1 DEF CollectLogs
  <1>11. CASE Teardown(p)
    <2>1. CASE up' = {} /\ Goto(p, "read")
      <3>1. /\ d.at = "read" /\ d.op = c.op /\ d.stage = c.stage
        BY <2>1, GotoFields
      <3>2. c.stage = 0
        BY <1>11 DEF Teardown, Course, Preparing
      <3> QED
        BY <2>1, <3>1, <3>2 DEF Standing, BuiltUp, Passed, UpfsRun, WriteSteps, Stages
    <2> QED
      BY <1>1, <1>11, <2>1 DEF Teardown
  <1>12. CASE ReadCurrentRaises(p)
    <2>1. CASE c.stage \in Stages /\ c.failure = NoPhase
      <3>1. cmd' = [cmd EXCEPT ![p].failure = LastExpected(c.stage), ![p].at = "collect"]
        BY <1>12, <2>1 DEF ReadCurrentRaises
      <3>2. Plan[c.stage].ready # NoPhase /\ c.op \in BringUpOps
        BY <1>12, <2>1 DEF ReadCurrentRaises, Course, Stages
      <3>3. LastExpected(c.stage) # NoPhase /\ c.op # "stop"
        BY <2>1, <3>2, PlanPhases DEF BringUpOps
      <3>4. /\ d.at = "collect" /\ d.failure = LastExpected(c.stage)
            /\ d.op = c.op /\ d.stage = c.stage
        BY <3>1, FailsFields
      <3>5. UNCHANGED <<current, history>>
        BY <1>12 DEF ReadCurrentRaises, files
      <3> QED
        BY <1>8, <2>1, <3>3, <3>4, <3>5
    <2> QED
      BY <1>1, <1>12, <2>1 DEF ReadCurrentRaises
  <1>13. CASE AppendHistory(p)
    <2>1. /\ c.at = "append" /\ history' = Append(history, c.rec) /\ c.rec \in RunRecord
          /\ UNCHANGED <<current, up, slices>> /\ Goto(p, "truncate")
      BY <1>13 DEF AppendHistory, TypeOK, Writing
    <2>2. /\ d.at = "truncate" /\ d.op = c.op /\ d.stage = c.stage
          /\ d.failure = c.failure /\ d.rec = c.rec
      BY <2>1, GotoFields
    <2>3. history' # <<>> /\ Last' = c.rec
      BY <1>0, <2>1 DEF Last
    <2>4. BuiltUp(cmd[p])'
      BY <2>1, <2>2 DEF Standing, BuiltUp, Passed, UpfsRun
    <2>5. Fresh(cmd[p].rec)'
      BY <2>1, <2>2 DEF Standing, Fresh
    <2> QED
      BY <2>1, <2>2, <2>3, <2>4, <2>5 DEF Standing, WriteSteps
  <1>14. CASE TruncateCurrent(p)
    <2>1. /\ c.at = "truncate" /\ current' = Torn
          /\ UNCHANGED <<history, up, slices>> /\ Goto(p, "overwrite")
      BY <1>14 DEF TruncateCurrent
    <2>2. /\ d.at = "overwrite" /\ d.op = c.op /\ d.stage = c.stage
          /\ d.failure = c.failure /\ d.rec = c.rec
      BY <2>1, GotoFields
    <2>3. BuiltUp(cmd[p])'
      BY <2>1, <2>2 DEF Standing, BuiltUp, Passed, UpfsRun
    <2>4. history # <<>> /\ Last = c.rec /\ Last' = Last
      BY <2>1 DEF Standing, Last
    <2> QED
      BY <2>1, <2>2, <2>3, <2>4, UnreadableStates DEF Standing, WriteSteps
  <1>15. CASE OverwriteCurrent(p)
    <2>1. CASE /\ c.failure = NoPhase /\ c.op # "stop" /\ c.stage = 0
               /\ Goto(p, IF c.op = "reset" THEN "check" ELSE "slices")
      BY <1>3, <2>1 DEF Preparing
    <2>2. CASE c.failure = NoPhase /\ c.stage \in Stages /\ GotoStage(p, c.stage + 1)
      <3>1. /\ d.op = c.op /\ d.failure = c.failure /\ d.stage = c.stage + 1
            /\ \/ d.at = "read" /\ d.stage = 11
               \/ d.at = "work"
        BY <2>2, GotoStageFields
      <3>2. /\ c.at = "overwrite" /\ current' \in {c.rec, Torn}
            /\ UNCHANGED <<history, up, slices>>
        BY <1>15 DEF OverwriteCurrent
      <3>3. c.op # "stop" /\ c.rec.phase # "STOPPED"
        BY <2>2, <3>2 DEF Course, Stages, BringUpOps, WriteSteps
      <3>4. current'.phase # "STOPPED"
        BY <3>2, <3>3, UnreadableStates
      <3>5. BuiltUp(cmd[p])'
        <4>1. \A k \in Stages : Passed(d, k) <=> Passed(c, k)
          BY <2>2, <3>1, <3>2 DEF Stages, Passed
        <4>2. 1 \in Stages /\ ReconcileStage \in Stages
          BY DEF Stages, ReconcileStage
        <4>3. BuiltUp(c)
          BY DEF Standing
        <4> QED
          BY <2>2, <3>1, <3>2, <4>1, <4>2, <4>3 DEF BuiltUp, UpfsRun
      <3>6. history # <<>>
        BY <3>2 DEF Standing
      <3>7. d.at \in {"read", "work"} /\ d.op # "stop"
        BY <3>1, <3>3
      <3> QED
        BY <3>2, <3>4, <3>5, <3>6, <3>7 DEF Standing, WriteSteps
    <2> QED
      BY <1>1, <1>15, <2>1, <2>2 DEF OverwriteCurrent
  <1> HIDE DEF c, d
  <1> QED
    BY <1>4, <1>5, <1>6, <1>7, <1>9, <1>10, <1>11, <1>12, <1>13, <1>14, <1>15,
       ReadStands DEF Continue

-----------------------------------------------------------------------------
(* Where nothing was ever killed, the files are in step with each other.    *)

LEMMA StepKinds ==
  ASSUME TypeOK, NEW p \in Procs, Command(p) \/ Dispatch(p) \/ Continue(p)
  PROVE  /\ AppendHistory(p) \/ UNCHANGED history
         /\ TruncateCurrent(p) \/ OverwriteCurrent(p) \/ UNCHANGED current
  BY DEF Command, Dispatch, Begin, Continue, Mkdir, RenderArtifacts,
     InitializeSlices, CheckPhase, StageSucceeds, StageFails, CollectLogs, StopLogs,
     Teardown, ReadCurrent, ReadCurrentRaises, AppendHistory, TruncateCurrent,
     OverwriteCurrent, files

LEMMA LastIsARecord ==
  ASSUME TypeOK, history # <<>>
  PROVE  Len(history) \in DOMAIN history /\ Last \in RunRecord /\ Last \in Logged
  <1>1. history \in Seq(RunRecord)
    BY DEF TypeOK
  <1>2. Len(history) \in DOMAIN history
    BY <1>1
  <1> QED
    BY <1>1, <1>2 DEF Last, Logged

LEMMA RecordsAreReadable ==
  ASSUME NEW r \in RunRecord
  PROVE  Readable(r) /\ r # Missing /\ r # Torn
  BY UnreadableStates DEF Readable, RunRecord

LEMMA DerivedIsNoOlder ==
  ASSUME NEW a \in RunRecord, NEW b, Derives(a, b)
  PROVE  a.reset_generation <= b.reset_generation
  BY DEF Derives, advance, fail, stop, recover, reset, Successor, RunRecord

(* The record appended is the transition from the last line.                *)
LEMMA AppendExtendsChain ==
  ASSUME TypeOK, NEW p \in Procs, AppendHistory(p), Standing(cmd[p]),
         CurrentIsLast, \A q \in Procs : q # p => cmd[q].at = "idle",
         Chain, LastIsNewest
  PROVE  Chain' /\ LastIsNewest'
  <1> DEFINE x == cmd[p].rec
  <1> DEFINE n == Len(history)
  <1>1. /\ cmd[p].at = "append" /\ x \in RunRecord /\ history' = Append(history, x)
    BY DEF AppendHistory, TypeOK, Writing
  <1>2. current = IF history = <<>> THEN Missing ELSE Last
    BY <1>1 DEF CurrentIsLast
  <1>3. Fresh(x)
    BY <1>1 DEF Standing
  <1> HIDE DEF x
  <1>4. /\ DOMAIN history = 1 .. n /\ DOMAIN history' = 1 .. n + 1 /\ n \in Nat
        /\ \A i \in 1 .. n : history'[i] = history[i]
        /\ history'[n + 1] = x
    BY <1>1, AppendLogs
  <1>5. Len(history') = n + 1 /\ (history = <<>> <=> n = 0)
    BY <1>1 DEF TypeOK
  <1>6. CASE history = <<>>
    <2>1. x = created
      BY <1>2, <1>3, <1>6, UnreadableStates DEF Fresh
    <2>2. x.reset_generation <= x.reset_generation
      BY <1>1 DEF RunRecord
    <2>3. n = 0 /\ DOMAIN history' = {1} /\ history'[1] = x /\ Len(history') = 1
      BY <1>4, <1>5, <1>6
    <2> QED
      BY <2>1, <2>2, <2>3 DEF Chain, LastIsNewest, Last
  <1>7. CASE history # <<>>
    <2>1. Last \in RunRecord /\ current = Last
      BY <1>2, <1>7, LastIsARecord
    <2>2. Derives(Last, x)
      BY <1>3, <2>1, RecordsAreReadable DEF Fresh
    <2>3. Last.reset_generation <= x.reset_generation
      BY <2>1, <2>2, DerivedIsNoOlder
    <2>4. n \in 1 .. n /\ n # 0
      BY <1>4, <1>5, <1>7
    <2>5. Chain'
      <3> SUFFICES ASSUME NEW i \in DOMAIN history'
                   PROVE  IF i = 1 THEN history'[i] = created
                          ELSE Derives(history'[i - 1], history'[i])
        BY DEF Chain
      <3>1. CASE i = n + 1
        <4>1. i # 1 /\ i - 1 = n
          BY <1>4, <2>4, <3>1
        <4>2. history'[i - 1] = Last /\ history'[i] = x
          BY <1>4, <2>4, <3>1, <4>1 DEF Last
        <4> QED
          BY <2>2, <4>1, <4>2
      <3>2. CASE i \in 1 .. n
        <4>1. i \in DOMAIN history /\ history'[i] = history[i]
          BY <1>4, <3>2
        <4>2. i # 1 => history'[i - 1] = history[i - 1]
          BY <1>4, <3>2
        <4> QED
          BY <4>1, <4>2 DEF Chain
      <3> QED
        BY <1>4, <3>1, <3>2
    <2>6. LastIsNewest'
      <3> SUFFICES ASSUME NEW i \in DOMAIN history'
                   PROVE  history'[i].reset_generation <= Last'.reset_generation
        BY DEF LastIsNewest
      <3>1. Last' = x
        BY <1>4, <1>5 DEF Last
      <3>2. x.reset_generation \in Nat /\ Last.reset_generation \in Nat
        BY <1>1, <2>1 DEF RunRecord
      <3>3. CASE i = n + 1
        BY <1>4, <3>1, <3>2, <3>3
      <3>4. CASE i \in 1 .. n
        <4>1. history'[i] = history[i] /\ history[i] \in RunRecord
          BY <1>4, <3>4 DEF TypeOK
        <4>2. history[i].reset_generation <= Last.reset_generation
          BY <1>4, <3>4 DEF LastIsNewest
        <4>3. history[i].reset_generation \in Nat
          BY <4>1 DEF RunRecord
        <4> QED
          BY <2>3, <3>1, <3>2, <4>1, <4>2, <4>3
      <3> QED
        BY <1>4, <3>3, <3>4
    <2> QED
      BY <2>5, <2>6
  <1> QED
    BY <1>6, <1>7

LEMMA ContinueAt ==
  ASSUME TypeOK, NEW p \in Procs, Command(p) \/ Dispatch(p) \/ Continue(p),
         ~TruncateCurrent(p), ~OverwriteCurrent(p)
  PROVE  cmd[p].at \notin {"truncate", "overwrite"}
  BY DEF Command, Dispatch, Begin, Continue, Mkdir, RenderArtifacts,
     InitializeSlices, CheckPhase, StageSucceeds, StageFails, CollectLogs, StopLogs,
     Teardown, ReadCurrent, ReadCurrentRaises, AppendHistory

(* Between two writes the state is the last line.                           *)
LEMMA WriteKeepsCurrentLast ==
  ASSUME TypeOK, NEW p \in Procs, Command(p) \/ Dispatch(p) \/ Continue(p),
         cmd[p].at # "idle" => Standing(cmd[p]), CurrentIsLast,
         Others(p), \A q \in Procs : q # p => cmd[q].at = "idle"
  PROVE  CurrentIsLast'
  <1> SUFFICES ASSUME \A q \in Procs : cmd'[q].at \notin {"truncate", "overwrite"}
               PROVE  current' = IF history' = <<>> THEN Missing ELSE Last'
    BY DEF CurrentIsLast
  <1>1. CASE OverwriteCurrent(p)
    <2>1. /\ cmd[p].at = "overwrite" /\ UNCHANGED history
          /\ current' \in {cmd[p].rec, IF Readable(current) THEN Torn ELSE cmd[p].rec}
      BY <1>1 DEF OverwriteCurrent
    <2>2. current = Torn /\ history # <<>> /\ Last = cmd[p].rec
      BY <2>1 DEF Standing
    <2> QED
      BY <2>1, <2>2, UnreadableStates DEF Last
  <1>2. ~AppendHistory(p) /\ ~TruncateCurrent(p)
    <2>1. ASSUME NEW s \in {"truncate", "overwrite"}, Goto(p, s) PROVE FALSE
      BY <2>1, GotoFields
    <2> QED
      BY <2>1 DEF AppendHistory, TruncateCurrent
  <1>3. CASE ~OverwriteCurrent(p)
    <2>1. UNCHANGED <<history, current>>
      BY <1>2, <1>3, StepKinds
    <2>2. cmd[p].at \notin {"truncate", "overwrite"}
      BY <1>2, <1>3, ContinueAt
    <2>3. \A q \in Procs : cmd[q].at \notin {"truncate", "overwrite"}
      BY <2>2
    <2> QED
      BY <2>1, <2>3 DEF CurrentIsLast, Last
  <1> QED
    BY <1>1, <1>3

(* A command that ends with a failure and was not harmed has recorded it.   *)
LEMMA ExitHasRecorded ==
  ASSUME TypeOK, NEW p \in Procs, Continue(p), faults' = faults,
         Course(cmd[p]), Standing(cmd[p]), CurrentIsLast,
         \A q \in Procs : q # p => cmd[q].at = "idle",
         cmd'[p].at = "idle", cmd'[p].failure # NoPhase
  PROVE  \E r \in Logged : r.phase = "FAILED" /\ r.failed_phase = cmd'[p].failure
  <1> DEFINE c == cmd[p]
  <1> DEFINE d == cmd'[p]
  <1>0. c \in Process
    BY DEF TypeOK
  <1>1. ASSUME NEW s \in Steps \ {"idle"}, Goto(p, s) PROVE FALSE
    BY <1>1, GotoFields
  <1>2. ASSUME NEW n, GotoStage(p, n) PROVE FALSE
    BY <1>2, GotoStageFields
  <1>3. ASSUME NEW r, \/ cmd' = [cmd EXCEPT ![p].at = "append", ![p].rec = r]
                      \/ cmd' = [cmd EXCEPT ![p].rec = r, ![p].at = "append"]
        PROVE  FALSE
    BY <1>3, WritesFields
  <1>4. ASSUME NEW b, cmd' = [cmd EXCEPT ![p].failure = b, ![p].at = "collect"]
        PROVE  FALSE
    BY <1>4, FailsFields
  <1>5. ASSUME Fault PROVE FALSE
    BY <1>5 DEF Fault, TypeOK
  <1>6. ~AppendHistory(p) /\ ~TruncateCurrent(p) /\ ~StageSucceeds(p) /\ ~StageFails(p)
        /\ ~ReadCurrent(p) /\ ~CollectLogs(p) /\ ~StopLogs(p)
    BY <1>1, <1>2, <1>3, <1>4, <1>5 DEF AppendHistory, TruncateCurrent, StageSucceeds,
       StageFails, ReadCurrent, CollectLogs, StopLogs, Steps
  <1>7. Exit(p)
    BY <1>1, <1>2, <1>3, <1>4, <1>6 DEF Continue, Mkdir, RenderArtifacts,
       InitializeSlices, CheckPhase, Teardown, ReadCurrentRaises, OverwriteCurrent, Steps
  <1>8. d.failure = c.failure /\ c.failure # NoPhase
    BY <1>7, ExitFields
  <1>9. c.at \notin Preparing
    BY <1>8 DEF Course
  <1>10. OverwriteCurrent(p) \/ ReadCurrentRaises(p)
    BY <1>6, <1>9 DEF Continue, Mkdir, RenderArtifacts, InitializeSlices, CheckPhase,
       Teardown, Preparing
  <1>11. CASE OverwriteCurrent(p)
    <2>1. c.at = "overwrite"
      BY <1>11 DEF OverwriteCurrent
    <2>2. c.rec.phase = "FAILED" /\ c.rec.failed_phase = c.failure
      BY <2>1, <1>8 DEF Course, WriteSteps
    <2>3. history # <<>> /\ Last = c.rec
      BY <2>1 DEF Standing
    <2>4. Last \in Logged
      BY <2>3, LastIsARecord
    <2> QED
      BY <1>8, <2>2, <2>3, <2>4
  <1>12. CASE ReadCurrentRaises(p)
    <2>1. c.at = "read" /\ Proposed(c, current) = {}
      BY <1>12 DEF ReadCurrentRaises
    <2>2. c.stage \in Stages
      BY <2>1, <1>8 DEF Course
    <2>3. history # <<>>
      BY <2>2 DEF Standing, Stages
    <2>4. current = Last
      BY <2>1, <2>3 DEF CurrentIsLast
    <2>5. Readable(current)
      BY <2>3, <2>4, LastIsARecord, RecordsAreReadable
    <2>6. fail(current, c.failure) \in Proposed(c, current)
      BY <2>5, <1>8 DEF Proposed
    <2> QED
      BY <2>1, <2>6
  <1> QED
    BY <1>10, <1>11, <1>12

LEMMA UnharmedStep ==
  ASSUME TypeOK, NEW p \in Procs, Command(p) \/ Dispatch(p) \/ Continue(p),
         faults' = faults, Unharmed, Course(cmd[p]),
         cmd[p].at # "idle" => Standing(cmd[p]),
         Others(p), \A q \in Procs : q # p => cmd[q].at = "idle"
  PROVE  Unharmed'
  <1>1. CurrentIsLast'
    BY WriteKeepsCurrentLast DEF Unharmed
  <1>2. Chain' /\ LastIsNewest'
    <2>1. CASE AppendHistory(p)
      <3>1. Standing(cmd[p])
        BY <2>1 DEF AppendHistory
      <3> QED
        BY <2>1, <3>1, AppendExtendsChain DEF Unharmed
    <2>2. CASE UNCHANGED history
      BY <2>2 DEF Unharmed, Chain, LastIsNewest, Last
    <2> QED
      BY <2>1, <2>2, StepKinds
  <1>3. Logged \subseteq Logged'
    <2>1. CASE AppendHistory(p)
      <3>1. cmd[p].rec \in RunRecord /\ history' = Append(history, cmd[p].rec)
        BY <2>1 DEF AppendHistory, TypeOK, Writing
      <3> QED
        BY <3>1, AppendLogs
    <2>2. CASE UNCHANGED history
      BY <2>2 DEF Logged
    <2> QED
      BY <2>1, <2>2, StepKinds
  <1>4. FailedStageIsRecorded'
    <2> SUFFICES ASSUME NEW q \in Procs, cmd'[q].at = "idle", cmd'[q].failure # NoPhase
                 PROVE  \E r \in Logged' :
                          r.phase = "FAILED" /\ r.failed_phase = cmd'[q].failure
      BY DEF FailedStageIsRecorded
    <2>1. CASE q # p
      BY <1>3, <2>1 DEF Others, Unharmed, FailedStageIsRecorded
    <2>2. CASE q = p
      <3>1. ASSUME NEW o \in Ops, Begin(p, o) PROVE FALSE
        BY <2>2, <3>1, BeginFields
      <3>2. {"reset", "stop"} \subseteq Ops
        BY DEF Ops, BringUpOps
      <3>3. Continue(p)
        BY <3>1, <3>2 DEF Command, Dispatch
      <3>4. Standing(cmd[p])
        BY <3>3, ContinueLeavesOthers
      <3>5. \E r \in Logged : r.phase = "FAILED" /\ r.failed_phase = cmd'[p].failure
        BY <2>2, <3>3, <3>4, ExitHasRecorded DEF Unharmed
      <3> QED
        BY <1>3, <2>2, <3>5
    <2> QED
      BY <2>1, <2>2
  <1> QED
    BY <1>1, <1>2, <1>4 DEF Unharmed

-----------------------------------------------------------------------------
(* No group runs while the recorded phase is STOPPED.                       *)
LEMMA DownStep ==
  ASSUME TypeOK, NEW p \in Procs,
         Command(p) \/ Dispatch(p) \/ Continue(p) \/ Kill(p),
         Course(cmd[p]), cmd[p].at # "idle" => Standing(cmd[p]), StoppedMeansDown
  PROVE  StoppedMeansDown'
  <1>1. CASE OverwriteCurrent(p)
    <2>1. /\ cmd[p].at = "overwrite" /\ UNCHANGED up
          /\ current' \in {cmd[p].rec, Torn}
      BY <1>1 DEF OverwriteCurrent
    <2>2. cmd[p].rec.phase = "STOPPED" => cmd[p].op = "stop"
      BY <2>1 DEF Course, WriteSteps
    <2>3. cmd[p].op = "stop" => up = {}
      BY <2>1 DEF Standing, WriteSteps
    <2> QED
      BY <2>1, <2>2, <2>3, UnreadableStates DEF StoppedMeansDown
  <1>2. CASE TruncateCurrent(p)
    BY <1>2, UnreadableStates DEF TruncateCurrent, StoppedMeansDown
  <1>3. CASE StageSucceeds(p) \/ StageFails(p)
    <2>1. cmd[p].at = "work" /\ UNCHANGED current
      BY <1>3 DEF StageSucceeds, StageFails, files
    <2>2. cmd[p].stage # 0
      BY <2>1 DEF Course, Stages
    <2> QED
      BY <2>1, <2>2 DEF Standing, StoppedMeansDown
  <1>4. CASE Teardown(p)
    BY <1>4 DEF Teardown, files, StoppedMeansDown
  <1>5. CASE Kill(p)
    <2>1. UNCHANGED current
      BY <1>5 DEF Kill, files
    <2>2. CASE cmd[p].at = "work"
      <3>1. cmd[p].stage # 0
        BY <2>2 DEF Course, Stages
      <3> QED
        BY <2>1, <2>2, <3>1 DEF Standing, StoppedMeansDown
    <2>3. CASE cmd[p].at # "work"
      <3>1. up' \in SUBSET up
        BY <1>5, <2>3 DEF Kill
      <3> QED
        BY <2>1, <3>1 DEF StoppedMeansDown
    <2> QED
      BY <2>2, <2>3
  <1>6. CASE ~(OverwriteCurrent(p) \/ TruncateCurrent(p) \/ StageSucceeds(p)
               \/ StageFails(p) \/ Teardown(p) \/ Kill(p))
    <2>1. UNCHANGED <<current, up>>
      BY <1>6 DEF Command, Dispatch, Begin, Continue, Mkdir, RenderArtifacts,
         InitializeSlices, CheckPhase, CollectLogs, StopLogs, ReadCurrent,
         ReadCurrentRaises, AppendHistory, files
    <2> QED
      BY <2>1 DEF StoppedMeansDown
  <1> QED
    BY <1>1, <1>2, <1>3, <1>4, <1>5, <1>6

-----------------------------------------------------------------------------
(* SerialInv is inductive.                                                  *)

LEMMA SerialInit == Init => SerialInv
  <1> SUFFICES ASSUME Init PROVE SerialInv
    OBVIOUS
  <1>1. TypeOK
    BY TypeOKInit
  <1>2. \A p \in Procs : cmd[p] = Idle /\ cmd[p].at = "idle"
    BY DEF Init, Idle
  <1>3. \A p \in Procs : Course(cmd[p])
    BY <1>2 DEF Idle, Course, Preparing, WriteSteps, NoOp
  <1>4. Alone /\ StoppedMeansDown
    BY <1>2, UnreadableStates DEF Init, Alone, StoppedMeansDown
  <1>5. Unharmed
    <2>1. DOMAIN history = {} /\ history = <<>> /\ current = Missing
      BY DEF Init
    <2> QED
      BY <1>2, <2>1
         DEF Unharmed, CurrentIsLast, Chain, LastIsNewest, FailedStageIsRecorded, Idle
  <1> QED
    BY <1>1, <1>2, <1>3, <1>4, <1>5 DEF SerialInv

LEMMA CourseStep ==
  ASSUME TypeOK, NEW p \in Procs, Course(cmd[p]),
         Command(p) \/ Dispatch(p) \/ Continue(p) \/ Kill(p)
  PROVE  Course(cmd'[p])
  <1>1. ASSUME NEW o \in Ops, Begin(p, o)
        PROVE  Course(cmd'[p])
    <2>1. /\ cmd'[p].at = FirstStep(o) /\ cmd'[p].op = o /\ cmd'[p].stage = 0
          /\ cmd'[p].failure = NoPhase
      BY <1>1, BeginFields
    <2> QED
      BY <2>1, FirstSteps DEF Course, Preparing, WriteSteps, BringUpOps
  <1>2. CASE Kill(p)
    <2>1. cmd'[p] = Idle
      BY <1>2 DEF Kill, TypeOK
    <2> QED
      BY <2>1 DEF Idle, Course, Preparing, WriteSteps, NoOp
  <1>3. {"reset", "stop"} \subseteq Ops
    BY DEF Ops, BringUpOps
  <1> QED
    BY <1>1, <1>2, <1>3, ContinueKeepsCourse DEF Command, Dispatch

LEMMA StandingStep ==
  ASSUME TypeOK, LogInv, NEW p \in Procs, Course(cmd[p]),
         cmd[p].at # "idle" => Standing(cmd[p]),
         Command(p) \/ Dispatch(p) \/ Continue(p) \/ Kill(p)
  PROVE  cmd'[p].at # "idle" => Standing(cmd[p])'
  <1>1. ASSUME NEW o \in Ops, Begin(p, o)
        PROVE  Standing(cmd[p])'
    <2>1. cmd'[p].at \in Preparing /\ cmd'[p].stage = 0
      BY <1>1, BeginFields, FirstSteps DEF Preparing
    <2> QED
      BY <2>1 DEF Standing, BuiltUp, Passed, UpfsRun, Preparing, WriteSteps, Stages
  <1>2. CASE Kill(p)
    BY <1>2 DEF Kill, TypeOK, Idle
  <1>3. {"reset", "stop"} \subseteq Ops
    BY DEF Ops, BringUpOps
  <1>4. CASE Continue(p)
    BY <1>4, ContinueStands, ContinueLeavesOthers
  <1> QED
    BY <1>1, <1>2, <1>3, <1>4 DEF Command, Dispatch

LEMMA SerialStep ==
  ASSUME ~Overlapping
  PROVE  SerialInv /\ LogInv /\ [Next]_vars => SerialInv'
  <1> SUFFICES ASSUME SerialInv, LogInv, [Next]_vars
               PROVE  SerialInv'
    OBVIOUS
  <1>0. TypeOK'
    BY TypeOKStep DEF SerialInv
  <1>1. ASSUME NEW p \in Procs, Command(p) \/ Dispatch(p) \/ Continue(p) \/ Kill(p)
        PROVE  SerialInv'
    <2>1. Others(p) /\ \A q \in Procs : q # p => cmd[q].at = "idle"
      BY <1>1, OneActs DEF SerialInv
    <2>2. /\ TypeOK /\ Course(cmd[p]) /\ StoppedMeansDown
          /\ cmd[p].at # "idle" => Standing(cmd[p])
      BY DEF SerialInv
    <2>3. Alone'
      BY <2>1 DEF Alone, Others
    <2>4. \A q \in Procs : Course(cmd'[q])
      BY <1>1, <2>1, <2>2, CourseStep DEF Others, SerialInv
    <2>5. \A q \in Procs : cmd'[q].at # "idle" => Standing(cmd[q])'
      <3>1. cmd'[p].at # "idle" => Standing(cmd[p])'
        BY <1>1, <2>2, StandingStep
      <3>2. \A q \in Procs : q # p => cmd'[q].at = "idle"
        BY <2>1 DEF Others
      <3> QED
        BY <3>1, <3>2
    <2>6. StoppedMeansDown'
      BY <1>1, <2>2, DownStep
    <2>7. faults' = 0 => Unharmed'
      <3> SUFFICES ASSUME faults' = 0 PROVE Unharmed'
        OBVIOUS
      <3>1. faults' = faults \/ faults' = faults + 1
        BY <1>1 DEF Command, Dispatch, Begin, Continue, Kill, Mkdir, RenderArtifacts,
           InitializeSlices, CheckPhase, StageSucceeds, StageFails, CollectLogs,
           StopLogs, Teardown, ReadCurrent, ReadCurrentRaises, AppendHistory,
           TruncateCurrent, OverwriteCurrent, Fault, counters
      <3>2. faults = 0 /\ faults' = faults
        BY <3>1 DEF SerialInv, TypeOK
      <3>3. ~Kill(p)
        BY <3>2 DEF Kill, Fault
      <3>4. Unharmed
        BY <3>2 DEF SerialInv
      <3> QED
        BY <1>1, <2>1, <2>2, <3>2, <3>3, <3>4, UnharmedStep
    <2> QED
      BY <1>0, <2>3, <2>4, <2>5, <2>6, <2>7 DEF SerialInv
  <1>2. CASE HostRestart
    <2>1. /\ \A p \in Procs : cmd'[p] = Idle /\ cmd'[p].at = "idle"
          /\ up' = {} /\ faults' # 0
      BY <1>2 DEF HostRestart, Fault, Idle, SerialInv, TypeOK
    <2>2. \A p \in Procs : Course(cmd'[p])
      BY <2>1 DEF Idle, Course, Preparing, WriteSteps, NoOp
    <2>3. Alone' /\ StoppedMeansDown'
      BY <2>1 DEF Alone, StoppedMeansDown
    <2> QED
      BY <1>0, <2>1, <2>2, <2>3 DEF SerialInv
  <1>3. CASE UNCHANGED vars
    <2>1. UNCHANGED <<current, history, up, slices, cmd, faults>>
      BY <1>3 DEF vars, files, counters
    <2>2. \A p \in Procs : Standing(cmd[p])' <=> Standing(cmd[p])
      BY <2>1 DEF Standing, BuiltUp, Passed, UpfsRun, Fresh, Last
    <2>3. Unharmed' <=> Unharmed
      BY <2>1 DEF Unharmed, CurrentIsLast, Chain, LastIsNewest, Last,
         FailedStageIsRecorded, Logged
    <2> QED
      BY <1>0, <2>1, <2>2, <2>3 DEF SerialInv, Alone, StoppedMeansDown
  <1>4. CASE SliceAction
    <2>1. /\ \A p \in Procs : cmd[p].at = "idle"
          /\ "telemetry" \in up /\ UNCHANGED <<current, history, cmd, faults>>
      BY <1>4 DEF SliceAction, counters
    <2>2. Unharmed' <=> Unharmed
      BY <2>1 DEF Unharmed, CurrentIsLast, Chain, LastIsNewest, Last,
         FailedStageIsRecorded, Logged
    <2>3. StoppedMeansDown'
      BY <2>1 DEF SerialInv, StoppedMeansDown
    <2> QED
      BY <1>0, <2>1, <2>2, <2>3 DEF SerialInv, Alone
  <1> QED
    BY <1>1, <1>2, <1>3, <1>4 DEF Next

(* The inductive invariant of commands that do not overlap.                 *)
THEOREM SerialInvariant ==
  ASSUME ~Overlapping
  PROVE  Spec => []SerialInv
  BY SerialInit, SerialStep, LogInvHolds, PTL DEF Spec

-----------------------------------------------------------------------------
(* RUNNING is written only by a command that has gone through every stage,  *)
(* and what a stage brought up still runs when it comes to the next, UPFs   *)
(* that reconcile_initial takes down apart: while the record is written the *)
(* containers of every group are up, the UPFs unless a slice is inactive.   *)
THEOREM RunningAlwaysMeansUp ==
  ASSUME ~Overlapping
  PROVE  Spec => []RunningIsRecordedOnlyWhenUp
  <1>1. SerialInv => RunningIsRecordedOnlyWhenUp
    <2> SUFFICES ASSUME SerialInv, NEW p \in Procs, Writing(p),
                        cmd[p].rec.phase = "RUNNING"
                 PROVE  up = Groups \ (IF slices = "inactive" THEN {"upfs"} ELSE {})
      BY DEF RunningIsRecordedOnlyWhenUp
    <2>1. cmd[p].stage = 11 /\ cmd[p].failure = NoPhase
      BY DEF SerialInv, Course, Writing, WriteSteps
    <2>2. BuiltUp(cmd[p])
      BY DEF SerialInv, Writing, Standing
    <2>3. \A k \in Stages : Passed(cmd[p], k)
      BY <2>1 DEF Passed, Stages
    <2>4. {1, 4, 5, 6, 8, 9, 10} \subseteq Stages /\ ReconcileStage = 9
      BY DEF Stages, ReconcileStage
    <2>5. \A k \in {1, 4, 5, 6, 8, 10} : Plan[k].brings \ {"upfs"} \subseteq up
      BY <2>1, <2>2, <2>3, <2>4 DEF BuiltUp
    <2>6. Groups \ {"upfs"} \subseteq up
      BY <2>5 DEF Plan, Groups
    <2>7. "upfs" \in up <=> slices # "inactive"
      BY <2>1, <2>2, <2>3, <2>4 DEF BuiltUp, UpfsRun
    <2>8. up \subseteq Groups /\ "upfs" \in Groups
      BY DEF SerialInv, TypeOK, Groups
    <2> QED
      BY <2>6, <2>7, <2>8
  <1> QED
    BY <1>1, SerialInvariant, PTL

(* While the recorded phase is STOPPED no group runs, whatever was killed.  *)
THEOREM StoppedAlwaysMeansDown ==
  ASSUME ~Overlapping
  PROVE  Spec => []StoppedMeansDown
  <1>1. SerialInv => StoppedMeansDown
    BY DEF SerialInv
  <1> QED
    BY <1>1, SerialInvariant, PTL

(* Where nothing was killed, a command that ends with a stage's exception   *)
(* has left the FAILED record that names the stage's phase.                 *)
THEOREM FailureAlwaysRecorded ==
  ASSUME ~Overlapping
  PROVE  Spec => []FailureIsRecordedIfLogsAre
  <1>1. SerialInv => FailureIsRecordedIfLogsAre
    BY DEF SerialInv, Unharmed, FailureIsRecordedIfLogsAre
  <1> QED
    BY <1>1, SerialInvariant, PTL

(* Where nothing was killed, each line of state.jsonl is the transition     *)
(* from the line before it.                                                 *)
THEOREM HistoryAlwaysAChain ==
  ASSUME ~Overlapping
  PROVE  Spec => []HistoryIsAChain
  <1>1. SerialInv => HistoryIsAChain
    BY DEF SerialInv, Unharmed, Chain, HistoryIsAChain
  <1> QED
    BY <1>1, SerialInvariant, PTL

(* Where nothing was killed, the state between commands is of the highest   *)
(* generation ever recorded.                                                *)
THEOREM ResetIsNeverUndone ==
  ASSUME ~Overlapping
  PROVE  Spec => []ResetIsNotUndone
  <1>1. SerialInv => ResetIsNotUndone
    <2> SUFFICES ASSUME SerialInv, faults = 0, Readable(current),
                        \A p \in Procs : cmd[p].at = "idle", NEW r \in Logged
                 PROVE  r.reset_generation <= current.reset_generation
      BY DEF ResetIsNotUndone
    <2>1. CurrentIsLast /\ LastIsNewest
      BY DEF SerialInv, Unharmed
    <2>2. current = Last
      BY <2>1, UnreadableStates DEF CurrentIsLast
    <2> QED
      BY <2>1, <2>2 DEF LastIsNewest, Logged
  <1> QED
    BY <1>1, SerialInvariant, PTL

-----------------------------------------------------------------------------
(***************************************************************************)
(* The refinement.  What is visible changes when current-state.json is      *)
(* truncated, and then to the record that was made of what it was.          *)
(***************************************************************************)

LEMMA PromisedTransitions ==
  ASSUME NEW a, NEW b
  PROVE  (Promise!Derives(a, b) <=> Derives(a, b)) /\ (Promise!Readable(a) <=> Readable(a))
         /\ Promise!created = created /\ Promise!Missing = Missing
  BY DEF Promise!Derives, Derives, Promise!CanAdvance, CanAdvance, Promise!PHASE_ORDER,
     PHASE_ORDER, Promise!advance, advance, Promise!fail, fail, Promise!stop, stop,
     Promise!CanRecover, CanRecover, Promise!recover, recover, Promise!reset, reset,
     Promise!Successor, Successor, Promise!NoPhase, NoPhase, Promise!RunPhase, RunPhase,
     Promise!OrderedPhases, OrderedPhases, Promise!Readable, Readable,
     Promise!created, created, Promise!Missing, Missing

LEMMA TruncateIsAChange ==
  ASSUME SerialInv, NEW p \in Procs, TruncateCurrent(p)
  PROVE  Promise!Next
  <1> DEFINE x == cmd[p].rec
  <1>1. cmd[p].at = "truncate" /\ current' = Torn /\ UNCHANGED history
    BY DEF TruncateCurrent
  <1>2. Fresh(x) /\ Last = x /\ x \in RunRecord
    BY <1>1 DEF SerialInv, Standing, TypeOK, Writing
  <1>3. Visible' = x
    BY <1>1, <1>2 DEF Visible, Last
  <1>4. current # Torn
    BY <1>2, UnreadableStates DEF Fresh
  <1>5. Visible = current
    BY <1>4 DEF Visible
  <1>6. Readable(x)
    BY <1>2, RecordsAreReadable
  <1> HIDE DEF x
  <1> QED
    BY <1>2, <1>3, <1>5, <1>6, PromisedTransitions
       DEF Fresh, Promise!Next, Promise!Create, Promise!Change

LEMMA OtherStepsShowNothing ==
  ASSUME SerialInv, NEW p \in Procs,
         Command(p) \/ Dispatch(p) \/ Continue(p) \/ Kill(p), ~TruncateCurrent(p)
  PROVE  Visible' = Visible
  <1>1. CASE AppendHistory(p)
    <2>1. cmd[p].at = "append" /\ UNCHANGED current
      BY <1>1 DEF AppendHistory
    <2>2. Fresh(cmd[p].rec)
      BY <2>1 DEF SerialInv, Standing
    <2>3. current # Torn
      BY <2>2, UnreadableStates DEF Fresh
    <2> QED
      BY <2>1, <2>3 DEF Visible
  <1>2. CASE OverwriteCurrent(p)
    <2>1. /\ cmd[p].at = "overwrite" /\ UNCHANGED history /\ cmd[p].rec \in RunRecord
          /\ current' \in {cmd[p].rec, IF Readable(current) THEN Torn ELSE cmd[p].rec}
      BY <1>2 DEF OverwriteCurrent, SerialInv, TypeOK, Writing
    <2>2. current = Torn /\ Last = cmd[p].rec
      BY <2>1 DEF SerialInv, Standing
    <2>3. current' = cmd[p].rec
      BY <2>1, <2>2, UnreadableStates
    <2>4. cmd[p].rec # Torn
      BY <2>1, RecordsAreReadable
    <2> QED
      BY <2>1, <2>2, <2>3, <2>4 DEF Visible, Last
  <1>3. CASE ~AppendHistory(p) /\ ~OverwriteCurrent(p)
    <2>1. UNCHANGED <<history, current>>
      BY <1>3, StepKinds DEF Kill, files, SerialInv
    <2> QED
      BY <2>1 DEF Visible
  <1> QED
    BY <1>1, <1>2, <1>3

(* Commands that do not overlap implement the run state its readers are     *)
(* promised, however many are killed and whenever the host restarts: what   *)
(* is visible comes into being CREATED and changes by one transition of     *)
(* RunStore at a time.                                                      *)
THEOREM SerialRefinesRunPhases ==
  ASSUME ~Overlapping
  PROVE  Spec => ImplementsRunPhases
  <1>1. Init => Promise!Init
    BY PromisedTransitions, UnreadableStates DEF Init, Promise!Init, Visible
  <1>2. SerialInv /\ [Next]_vars => [Promise!Next]_Visible
    <2> SUFFICES ASSUME SerialInv, [Next]_vars
                 PROVE  Promise!Next \/ Visible' = Visible
      OBVIOUS
    <2>1. CASE HostRestart \/ SliceAction \/ UNCHANGED vars
      BY <2>1 DEF HostRestart, SliceAction, vars, files, Visible
    <2> QED
      BY <2>1, TruncateIsAChange, OtherStepsShowNothing DEF Next
  <1> QED
    BY <1>1, <1>2, SerialInvariant, PTL DEF Spec, ImplementsRunPhases, Promise!Spec
===============================================================================

------------------------- MODULE RunLifecycle_proofs --------------------------
(***************************************************************************)
(* Theorems about RunLifecycle, for any number of operators, any bounds and *)
(* whether or not commands overlap.                                         *)
(***************************************************************************)
EXTENDS RunLifecycle, TLAPS

-----------------------------------------------------------------------------
(* The records RunStore makes of a record are records.                      *)

LEMMA CreatedIsARecord == created \in RunRecord
  BY DEF created, RunRecord, RunPhase, OrderedPhases, NoPhase

LEMMA SuccessorIsARecord ==
  ASSUME NEW r \in RunRecord, NEW p \in RunPhase
  PROVE  Successor(r, p) \in RunRecord
  BY DEF Successor, RunRecord, NoPhase

LEMMA StoreRecords ==
  ASSUME NEW r \in RunRecord
  PROVE  /\ \A p \in RunPhase : advance(r, p) \in RunRecord
         /\ \A p \in RunPhase : fail(r, p) \in RunRecord
         /\ stop(r) \in RunRecord
         /\ recover(r) \in RunRecord
         /\ reset(r) \in RunRecord
  <1>1. \A p \in RunPhase : Successor(r, p) \in RunRecord
    BY SuccessorIsARecord
  <1>2. {"FAILED", "STOPPED", "RUNNING", "CREATED"} \subseteq RunPhase
    BY DEF RunPhase, OrderedPhases
  <1>3. \A p \in RunPhase : fail(r, p) \in RunRecord
    BY <1>1, <1>2 DEF fail, RunRecord
  <1>4. reset(r) \in RunRecord
    BY <1>1, <1>2 DEF reset, RunRecord
  <1> QED
    BY <1>1, <1>2, <1>3, <1>4 DEF advance, stop, recover

(* Neither of the two things that are not records is readable.              *)
LEMMA ReadableIsARecord ==
  ASSUME NEW r \in RunRecord \union {Missing, Torn}, Readable(r)
  PROVE  r \in RunRecord
  <1>1. Missing.phase \notin RunPhase /\ Torn.phase \notin RunPhase
    BY DEF Missing, Torn, RunPhase, OrderedPhases
  <1> QED
    BY <1>1 DEF Readable

(* The fields of a step of Plan.                                            *)
LEMMA PlanTyped ==
  ASSUME NEW n \in Stages
  PROVE  /\ Plan[n].brings \in SUBSET Groups
         /\ Plan[n].blame \in SUBSET RunPhase
         /\ Plan[n].ready \in RunPhase \union {NoPhase}
  BY DEF Stages, Plan, Groups, RunPhase, OrderedPhases, NoPhase

(* Wherever a step is left, it has touched groups only.                     *)
LEMMA CutShortTyped ==
  ASSUME NEW n \in Stages, up \in SUBSET Groups, up' \in CutShort(n)
  PROVE  up' \in SUBSET Groups
  BY PlanTyped DEF CutShort

LEMMA LastExpectedTyped ==
  ASSUME NEW n \in Stages
  PROVE  LastExpected(n) \in RunPhase \union {NoPhase}
  BY PlanTyped DEF LastExpected, RunPhase, OrderedPhases

LEMMA AdvanceTargetIsAPhase ==
  ASSUME NEW r, NEW t, CanAdvance(r, t)
  PROVE  t \in RunPhase
  BY DEF CanAdvance, PHASE_ORDER, RunPhase, OrderedPhases

LEMMA ProposedAreRecords ==
  ASSUME NEW c \in Process, NEW r \in RunRecord \union {Missing, Torn},
         NEW x \in Proposed(c, r)
  PROVE  Readable(r) /\ r \in RunRecord /\ x \in RunRecord
  <1>1. Readable(r)
    BY DEF Proposed
  <1>2. r \in RunRecord
    BY <1>1, ReadableIsARecord
  <1>3. c.failure # NoPhase => c.failure \in RunPhase
    BY DEF Process
  <1> QED
    BY <1>1, <1>2, <1>3, StoreRecords, AdvanceTargetIsAPhase DEF Proposed

-----------------------------------------------------------------------------
(* Type correctness.  What a process's step does to its own record.         *)

LEMMA IdleIsAProcess == Idle \in Process
  BY DEF Idle, Process, Steps, NoOp, NoPhase

Sound(c) == /\ c \in Process
            /\ c.at = "work" => c.stage \in Stages
            /\ c.at \in {"append", "truncate", "overwrite"} => c.rec \in RunRecord

LEMMA TypeOKByProcess ==
  ASSUME NEW p \in Procs, NEW c, TypeOK, Sound(c),
         cmd' = [cmd EXCEPT ![p] = c]
  PROVE  /\ cmd' \in [Procs -> Process]
         /\ \A q \in Procs : cmd'[q].at = "work" => cmd'[q].stage \in Stages
         /\ \A q \in Procs : Writing(q)' => cmd'[q].rec \in RunRecord
  BY DEF TypeOK, Sound, Writing

LEMMA ExitIsSound ==
  ASSUME NEW p \in Procs, TypeOK
  PROVE  Sound([Idle EXCEPT !.failure = cmd[p].failure])
  BY IdleIsAProcess DEF TypeOK, Sound, Idle, Process

LEMMA ReadCurrentIsSound ==
  ASSUME NEW p \in Procs, TypeOK, NEW r \in RunRecord,
         NEW s \in {"append", "truncate", "overwrite"}
  PROVE  Sound([cmd[p] EXCEPT !.rec = r, !.at = s])
  BY DEF TypeOK, Sound, Process, Steps

LEMMA GotoIsSound ==
  ASSUME NEW p \in Procs, TypeOK, NEW s \in Steps,
         s = "work" => cmd[p].stage \in Stages,
         s \in {"append", "truncate", "overwrite"} => cmd[p].rec \in RunRecord
  PROVE  Sound([cmd[p] EXCEPT !.at = s])
  BY DEF TypeOK, Sound, Process

LEMMA StageIsSound ==
  ASSUME NEW p \in Procs, TypeOK, NEW n \in 0 .. 11, NEW s \in {"read", "work"},
         s = "work" => n \in Stages
  PROVE  Sound([cmd[p] EXCEPT !.stage = n, !.at = s])
  BY DEF TypeOK, Sound, Process, Steps

LEMMA GotoStageIsSound ==
  ASSUME NEW p \in Procs, TypeOK, NEW n \in 1 .. 11
  PROVE  Sound([cmd[p] EXCEPT !.stage = n,
                              !.at = IF n = 11 THEN "read" ELSE "work"])
  <1> DEFINE s == IF n = 11 THEN "read" ELSE "work"
  <1>1. n \in 0 .. 11 /\ s \in {"read", "work"} /\ (s = "work" => n \in Stages)
    BY DEF Stages
  <1> HIDE DEF s
  <1>2. Sound([cmd[p] EXCEPT !.stage = n, !.at = s])
    BY <1>1, StageIsSound
  <1> QED
    BY <1>2 DEF s

LEMMA FailureIsSound ==
  ASSUME NEW p \in Procs, TypeOK, NEW b \in RunPhase \union {NoPhase}
  PROVE  Sound([cmd[p] EXCEPT !.failure = b, !.at = "collect"])
  BY DEF TypeOK, Sound, Process, Steps

(* Every step of Continue changes the process's own record only, and leaves *)
(* it sound.                                                                *)
LEMMA ContinueIsSound ==
  ASSUME NEW p \in Procs, TypeOK, Continue(p)
  PROVE  \E c : Sound(c) /\ cmd' = [cmd EXCEPT ![p] = c]
  <1> DEFINE To(s) == [cmd[p] EXCEPT !.at = s]
  <1> DEFINE ToStage(n) == [cmd[p] EXCEPT !.stage = n,
                                          !.at = IF n = 11 THEN "read" ELSE "work"]
  <1> DEFINE Gone == [Idle EXCEPT !.failure = cmd[p].failure]
  <1>0. cmd \in [Procs -> Process] /\ cmd[p] \in Process
    BY DEF TypeOK
  <1>1. Exit(p) => cmd' = [cmd EXCEPT ![p] = Gone] /\ Sound(Gone)
    BY ExitIsSound DEF Exit
  <1>2. ASSUME NEW s \in Steps, Goto(p, s),
               s = "work" => cmd[p].stage \in Stages,
               s \in {"append", "truncate", "overwrite"} => cmd[p].rec \in RunRecord
        PROVE  cmd' = [cmd EXCEPT ![p] = To(s)] /\ Sound(To(s))
    BY <1>2, GotoIsSound DEF Goto
  <1>3. ASSUME NEW n \in 1 .. 11, GotoStage(p, n)
        PROVE  cmd' = [cmd EXCEPT ![p] = ToStage(n)] /\ Sound(ToStage(n))
    BY <1>3, GotoStageIsSound DEF GotoStage
  <1>4. CASE Mkdir(p)
    BY <1>4, <1>1, <1>2 DEF Mkdir, Steps
  <1>5. CASE RenderArtifacts(p)
    <2>1. CASE Exit(p)
      BY <2>1, <1>1
    <2>2. CASE cmd' = [cmd EXCEPT ![p].at = "append", ![p].rec = created]
      <3>1. cmd' = [cmd EXCEPT ![p] =
                      [cmd[p] EXCEPT !.rec = created, !.at = "append"]]
        BY <2>2, <1>0 DEF Process
      <3> QED
        BY <3>1, ReadCurrentIsSound, CreatedIsARecord
    <2> QED
      BY <1>5, <2>1, <2>2 DEF RenderArtifacts
  <1>6. CASE InitializeSlices(p)
    BY <1>6, <1>1, <1>2 DEF InitializeSlices, Steps
  <1>7. CASE CheckPhase(p)
    BY <1>7, <1>1, <1>3 DEF CheckPhase
  <1>8. CASE StageSucceeds(p)
    <2>1. cmd[p].stage \in Stages /\ cmd[p].stage + 1 \in 1 .. 11
      BY <1>8 DEF TypeOK, StageSucceeds, Stages
    <2> QED
      BY <1>8, <2>1, <1>2, <1>3 DEF StageSucceeds, Steps
  <1>9. CASE StageFails(p)
    <2>1. PICK b \in Plan[cmd[p].stage].blame :
            cmd' = [cmd EXCEPT ![p].failure = b, ![p].at = "collect"]
      BY <1>9 DEF StageFails
    <2>2. cmd[p].stage \in Stages
      BY <1>9 DEF TypeOK, StageFails
    <2>3. b \in RunPhase \union {NoPhase}
      BY <2>1, <2>2, PlanTyped
    <2>4. cmd' = [cmd EXCEPT ![p] = [cmd[p] EXCEPT !.failure = b, !.at = "collect"]]
      BY <2>1, <1>0
    <2> QED
      BY <2>3, <2>4, FailureIsSound
  <1>10. CASE CollectLogs(p)
    BY <1>10, <1>1, <1>2 DEF CollectLogs, Steps
  <1>11. CASE StopLogs(p)
    BY <1>11, <1>1, <1>2 DEF StopLogs, Steps
  <1>12. CASE Teardown(p)
    BY <1>12, <1>1, <1>2 DEF Teardown, Steps
  <1>13. CASE ReadCurrent(p)
    <2>1. PICK r \in Proposed(cmd[p], current) :
            cmd' = [cmd EXCEPT ![p].rec = r, ![p].at = "append"]
      BY <1>13 DEF ReadCurrent
    <2>2. r \in RunRecord
      BY <1>0, ProposedAreRecords DEF TypeOK
    <2>3. cmd' = [cmd EXCEPT ![p] = [cmd[p] EXCEPT !.rec = r, !.at = "append"]]
      BY <2>1, <1>0
    <2> QED
      BY <2>2, <2>3, ReadCurrentIsSound
  <1>14. CASE ReadCurrentRaises(p)
    <2>1. CASE Exit(p)
      BY <2>1, <1>1
    <2>2. CASE ~Exit(p)
      <3> DEFINE b == LastExpected(cmd[p].stage)
      <3>1. cmd[p].stage \in Stages /\
            cmd' = [cmd EXCEPT ![p].failure = b, ![p].at = "collect"]
        BY <1>14, <2>2 DEF ReadCurrentRaises
      <3>2. b \in RunPhase \union {NoPhase}
        BY <3>1, LastExpectedTyped
      <3>3. cmd' = [cmd EXCEPT ![p] = [cmd[p] EXCEPT !.failure = b, !.at = "collect"]]
        BY <3>1, <1>0
      <3> HIDE DEF b
      <3> QED
        BY <3>2, <3>3, FailureIsSound
    <2> QED
      BY <2>1, <2>2
  <1>15. CASE AppendHistory(p)
    BY <1>15, <1>2 DEF AppendHistory, Steps, TypeOK, Writing
  <1>16. CASE TruncateCurrent(p)
    BY <1>16, <1>2 DEF TruncateCurrent, Steps, TypeOK, Writing
  <1>17. CASE OverwriteCurrent(p)
    <2>1. cmd[p].stage \in Stages => cmd[p].stage + 1 \in 1 .. 11
      BY DEF Stages
    <2>2. CASE Exit(p)
      BY <2>2, <1>1
    <2>3. CASE Goto(p, IF cmd[p].op = "reset" THEN "check" ELSE "slices")
      BY <2>3, <1>2 DEF Steps
    <2>4. CASE cmd[p].stage \in Stages /\ GotoStage(p, cmd[p].stage + 1)
      BY <2>1, <2>4, <1>3
    <2> QED
      BY <1>17, <2>2, <2>3, <2>4 DEF OverwriteCurrent
  <1> QED
    BY <1>4, <1>5, <1>6, <1>7, <1>8, <1>9, <1>10, <1>11, <1>12, <1>13,
       <1>14, <1>15, <1>16, <1>17 DEF Continue

LEMMA BeginIsSound ==
  ASSUME NEW p \in Procs, TypeOK, NEW o \in Ops, Begin(p, o)
  PROVE  \E c : Sound(c) /\ cmd' = [cmd EXCEPT ![p] = c]
  <1> DEFINE c == [Idle EXCEPT !.at = FirstStep(o), !.op = o]
  <1>1. /\ FirstStep(o) \in Steps
        /\ FirstStep(o) \notin {"work", "append", "truncate", "overwrite"}
    BY DEF FirstStep, Ops, BringUpOps, Steps
  <1>2. Sound(c)
    BY <1>1, IdleIsAProcess DEF Sound, Idle, Process
  <1> QED
    BY <1>2 DEF Begin

LEMMA TypeOKStep == TypeOK /\ [Next]_vars => TypeOK'
  <1> SUFFICES ASSUME TypeOK, [Next]_vars
               PROVE  TypeOK'
    OBVIOUS
  <1>1. CASE UNCHANGED vars
    BY <1>1 DEF vars, files, counters, TypeOK, Writing
  <1>2. ASSUME NEW p \in Procs, NEW o \in Ops, Begin(p, o)
        PROVE  TypeOK'
    <2>1. PICK c : Sound(c) /\ cmd' = [cmd EXCEPT ![p] = c]
      BY <1>2, BeginIsSound
    <2>2. /\ cmd' \in [Procs -> Process]
          /\ \A q \in Procs : cmd'[q].at = "work" => cmd'[q].stage \in Stages
          /\ \A q \in Procs : Writing(q)' => cmd'[q].rec \in RunRecord
      BY <2>1, TypeOKByProcess
    <2>3. UNCHANGED <<files, up, faults>> /\ invocations' = invocations + 1
      BY <1>2 DEF Begin
    <2> QED
      BY <2>2, <2>3 DEF TypeOK, files
  <1>3. ASSUME NEW p \in Procs, Continue(p)
        PROVE  TypeOK'
    <2>1. PICK c : Sound(c) /\ cmd' = [cmd EXCEPT ![p] = c]
      BY <1>3, ContinueIsSound
    <2>2. /\ cmd' \in [Procs -> Process]
          /\ \A q \in Procs : cmd'[q].at = "work" => cmd'[q].stage \in Stages
          /\ \A q \in Procs : Writing(q)' => cmd'[q].rec \in RunRecord
      BY <2>1, TypeOKByProcess
    <2>3. /\ layout' \in {"absent", "partial", "rendered"}
          /\ slices' \in {"none", "running", "inactive"}
      BY <1>3 DEF Continue, TypeOK, files, Mkdir, RenderArtifacts,
           InitializeSlices, CheckPhase, StageSucceeds, StageFails, CollectLogs,
           StopLogs, Teardown, ReadCurrent, ReadCurrentRaises, AppendHistory,
           TruncateCurrent, OverwriteCurrent
    <2>4. current' \in RunRecord \union {Missing, Torn}
      BY <1>3 DEF Continue, TypeOK, files, Writing, Mkdir, RenderArtifacts,
           InitializeSlices, CheckPhase, StageSucceeds, StageFails, CollectLogs,
           StopLogs, Teardown, ReadCurrent, ReadCurrentRaises, AppendHistory,
           TruncateCurrent, OverwriteCurrent
    <2>5. history' \in Seq(RunRecord)
      BY <1>3 DEF Continue, TypeOK, files, Writing, Mkdir, RenderArtifacts,
           InitializeSlices, CheckPhase, StageSucceeds, StageFails, CollectLogs,
           StopLogs, Teardown, ReadCurrent, ReadCurrentRaises, AppendHistory,
           TruncateCurrent, OverwriteCurrent
    <2>6. up' \in SUBSET Groups
      <3>1. CASE StageSucceeds(p) \/ StageFails(p)
        <4>1. cmd[p].stage \in Stages /\ up \in SUBSET Groups
          BY <3>1 DEF StageSucceeds, StageFails, TypeOK
        <4>2. \/ up' = (up \union Plan[cmd[p].stage].brings) \ Halts(cmd[p].stage)
              \/ up' \in CutShort(cmd[p].stage)
          BY <3>1 DEF StageSucceeds, StageFails
        <4> QED
          BY <4>1, <4>2, PlanTyped, CutShortTyped
      <3>2. CASE ~(StageSucceeds(p) \/ StageFails(p))
        BY <1>3, <3>2 DEF Continue, TypeOK, files, Mkdir, RenderArtifacts,
             InitializeSlices, CheckPhase, CollectLogs, StopLogs, Teardown,
             ReadCurrent, ReadCurrentRaises, AppendHistory, TruncateCurrent,
             OverwriteCurrent
      <3> QED
        BY <3>1, <3>2
    <2>7. invocations' \in Nat /\ faults' \in Nat
      BY <1>3 DEF Continue, TypeOK, counters, Fault, Mkdir, RenderArtifacts,
           InitializeSlices, CheckPhase, StageSucceeds, StageFails, CollectLogs,
           StopLogs, Teardown, ReadCurrent, ReadCurrentRaises, AppendHistory,
           TruncateCurrent, OverwriteCurrent
    <2> QED
      BY <2>2, <2>3, <2>4, <2>5, <2>6, <2>7 DEF TypeOK
  <1>4. ASSUME NEW p \in Procs, Kill(p)
        PROVE  TypeOK'
    <2>1. Sound(Idle)
      BY IdleIsAProcess DEF Sound, Idle
    <2>2. UNCHANGED <<files, invocations>> /\ faults' = faults + 1
          /\ cmd' = [cmd EXCEPT ![p] = Idle]
      BY <1>4 DEF Kill, Fault
    <2>3. /\ cmd' \in [Procs -> Process]
          /\ \A q \in Procs : cmd'[q].at = "work" => cmd'[q].stage \in Stages
          /\ \A q \in Procs : Writing(q)' => cmd'[q].rec \in RunRecord
      BY <2>1, <2>2, TypeOKByProcess
    <2>4. up' \in SUBSET Groups
      <3>1. CASE cmd[p].at = "work"
        BY <1>4, <3>1, CutShortTyped DEF Kill, TypeOK
      <3>2. CASE cmd[p].at # "work"
        BY <1>4, <3>2 DEF Kill, TypeOK
      <3> QED
        BY <3>1, <3>2
    <2> QED
      BY <2>2, <2>3, <2>4 DEF TypeOK, files
  <1>5. CASE HostRestart
    BY <1>5, IdleIsAProcess DEF HostRestart, Fault, TypeOK, files, Idle, Writing
  <1>7. CASE SliceAction
    BY <1>7 DEF SliceAction, TypeOK, counters, Writing, Groups
  <1>6. {"reset", "stop"} \subseteq Ops
    BY DEF Ops, BringUpOps
  <1> QED
    BY <1>1, <1>2, <1>3, <1>4, <1>5, <1>6, <1>7 DEF Next, Command, Dispatch

LEMMA TypeOKInit == Init => TypeOK
  <1> SUFFICES ASSUME Init PROVE TypeOK
    OBVIOUS
  <1>1. cmd \in [Procs -> Process] /\ \A p \in Procs : cmd[p].at = "idle"
    BY IdleIsAProcess DEF Init, Idle
  <1>2. history \in Seq(RunRecord)
    BY DEF Init
  <1>3. current \in RunRecord \union {Missing, Torn}
    BY DEF Init
  <1> QED
    BY <1>1, <1>2, <1>3 DEF Init, TypeOK, Writing

THEOREM TypeCorrect == Spec => []TypeOK
  BY TypeOKInit, TypeOKStep, PTL DEF Spec

-----------------------------------------------------------------------------
(***************************************************************************)
(* The history explains every state that was ever visible.  The invariant   *)
(* is inductive with two facts about writers: the record a process is about *)
(* to append derives from a line of the history, because a method reads     *)
(* current-state.json before it writes and what is there is logged; and the *)
(* record it is about to put in current-state.json has been appended.       *)
(***************************************************************************)
WriterIsGrounded ==
  \A p \in Procs :
    /\ cmd[p].at = "append" =>
         cmd[p].rec = created \/ \E r \in Logged : Derives(r, cmd[p].rec)
    /\ cmd[p].at \in {"truncate", "overwrite"} => cmd[p].rec \in Logged

LogInv == CurrentIsLogged /\ HistoryIsDerived /\ WriterIsGrounded

(* Every record RunStore makes of a record derives from it.                 *)
LEMMA ProposedDerives ==
  ASSUME NEW c \in Process, NEW r, NEW x \in Proposed(c, r)
  PROVE  Derives(r, x)
  <1> DEFINE target == IF c.stage \in Stages THEN Plan[c.stage].ready ELSE "RUNNING"
  <1>1. \/ c.failure \in RunPhase /\ x = fail(r, c.failure)
        \/ x = stop(r)
        \/ x = reset(r)
        \/ CanRecover(r) /\ x = recover(r)
        \/ CanAdvance(r, target) /\ x = advance(r, target)
    BY DEF Proposed, Process
  <1> HIDE DEF target
  <1>2. CASE c.failure \in RunPhase /\ x = fail(r, c.failure)
    <2>1. x.failed_phase = c.failure
      BY <1>2 DEF fail, Successor
    <2> QED
      BY <1>2, <2>1 DEF Derives
  <1>3. CASE CanAdvance(r, target) /\ x = advance(r, target)
    <2>1. x.phase = target
      BY <1>3 DEF advance, Successor
    <2> QED
      BY <1>3, <2>1 DEF Derives
  <1> QED
    BY <1>1, <1>2, <1>3 DEF Derives

LEMMA AppendLogs ==
  ASSUME TypeOK, NEW x \in RunRecord, history' = Append(history, x)
  PROVE  /\ Logged' = Logged \union {x}
         /\ DOMAIN history = 1 .. Len(history)
         /\ DOMAIN history' = 1 .. Len(history) + 1
         /\ Len(history) \in Nat
         /\ \A i \in 1 .. Len(history) : history'[i] = history[i]
         /\ history'[Len(history) + 1] = x
  <1>1. history \in Seq(RunRecord)
    BY DEF TypeOK
  <1>2. /\ DOMAIN history = 1 .. Len(history)
        /\ DOMAIN history' = 1 .. Len(history) + 1
        /\ Len(history) \in Nat
        /\ \A i \in 1 .. Len(history) : history'[i] = history[i]
        /\ history'[Len(history) + 1] = x
    BY <1>1
  <1> HIDE DEF TypeOK
  <1>3. Logged' = Logged \union {x}
    <2>1. ASSUME NEW y \in Logged' PROVE y \in Logged \union {x}
      <3>1. PICK i \in 1 .. Len(history) + 1 : y = history'[i]
        BY <2>1, <1>2 DEF Logged
      <3>2. CASE i = Len(history) + 1
        BY <3>1, <3>2, <1>2
      <3>3. CASE i \in 1 .. Len(history)
        BY <3>1, <3>3, <1>2 DEF Logged
      <3> QED
        BY <3>2, <3>3, <1>2
    <2>2. ASSUME NEW y \in Logged PROVE y \in Logged'
      <3>1. PICK i \in 1 .. Len(history) : y = history[i]
        BY <2>2, <1>2 DEF Logged
      <3>2. i \in DOMAIN history' /\ history'[i] = y
        BY <3>1, <1>2
      <3> QED
        BY <3>2 DEF Logged
    <2>3. x \in Logged'
      BY <1>2 DEF Logged
    <2> QED
      BY <2>1, <2>2, <2>3
  <1> QED
    BY <1>2, <1>3

(* A step that writes nothing and leaves no process with a record to write  *)
(* that was not grounded before.                                            *)
QuietStep(p) ==
  /\ UNCHANGED <<history, current>>
  /\ \A q \in Procs : q # p => cmd'[q] = cmd[q]
  /\ cmd'[p].at \notin {"append", "truncate", "overwrite"}

LEMMA QuietStepKeepsLog ==
  ASSUME NEW p \in Procs, LogInv, QuietStep(p)
  PROVE  LogInv'
  <1>1. Logged' = Logged
    BY DEF QuietStep, Logged
  <1>2. CurrentIsLogged' /\ HistoryIsDerived'
    BY <1>1 DEF LogInv, QuietStep, CurrentIsLogged, HistoryIsDerived
  <1>3. WriterIsGrounded'
    BY <1>1 DEF LogInv, QuietStep, WriterIsGrounded
  <1> QED
    BY <1>2, <1>3 DEF LogInv

LEMMA ReadKeepsLog ==
  ASSUME NEW p \in Procs, TypeOK, LogInv, ReadCurrent(p)
  PROVE  LogInv'
  <1>1. PICK r \in Proposed(cmd[p], current) :
          cmd' = [cmd EXCEPT ![p].rec = r, ![p].at = "append"]
    BY DEF ReadCurrent
  <1>2. cmd \in [Procs -> Process] /\ cmd[p] \in Process
    BY DEF TypeOK
  <1>3. Readable(current) /\ Derives(current, r)
    BY <1>2, ProposedAreRecords, ProposedDerives DEF TypeOK
  <1>4. current \in Logged
    BY <1>3 DEF LogInv, CurrentIsLogged
  <1>5. UNCHANGED <<history, current>> /\ Logged' = Logged
    BY DEF ReadCurrent, files, Logged
  <1>6. cmd'[p].at = "append" /\ cmd'[p].rec = r
    BY <1>1, <1>2 DEF Process
  <1>7. \A q \in Procs : q # p => cmd'[q] = cmd[q]
    BY <1>1, <1>2
  <1>8. WriterIsGrounded'
    BY <1>3, <1>4, <1>5, <1>6, <1>7 DEF LogInv, WriterIsGrounded
  <1>9. CurrentIsLogged' /\ HistoryIsDerived'
    BY <1>5 DEF LogInv, CurrentIsLogged, HistoryIsDerived
  <1> QED
    BY <1>8, <1>9 DEF LogInv

LEMMA RenderKeepsLog ==
  ASSUME NEW p \in Procs, TypeOK, LogInv, RenderArtifacts(p)
  PROVE  LogInv'
  <1>1. UNCHANGED <<history, current>> /\ Logged' = Logged
    BY DEF RenderArtifacts, Logged
  <1>2. cmd \in [Procs -> Process] /\ cmd[p] \in Process
    BY DEF TypeOK
  <1>3. CASE Exit(p)
    BY <1>1, <1>2, <1>3, QuietStepKeepsLog DEF Exit, QuietStep, Idle
  <1>4. CASE cmd' = [cmd EXCEPT ![p].at = "append", ![p].rec = created]
    <2>1. cmd'[p].at = "append" /\ cmd'[p].rec = created
      BY <1>2, <1>4 DEF Process
    <2>2. \A q \in Procs : q # p => cmd'[q] = cmd[q]
      BY <1>2, <1>4
    <2>3. WriterIsGrounded'
      BY <1>1, <2>1, <2>2 DEF LogInv, WriterIsGrounded
    <2> QED
      BY <1>1, <2>3 DEF LogInv, CurrentIsLogged, HistoryIsDerived
  <1> QED
    BY <1>3, <1>4 DEF RenderArtifacts

LEMMA AppendKeepsLog ==
  ASSUME NEW p \in Procs, TypeOK, LogInv, AppendHistory(p)
  PROVE  LogInv'
  <1> DEFINE x == cmd[p].rec
  <1>1. cmd \in [Procs -> Process] /\ cmd[p] \in Process /\ x \in RunRecord
    BY DEF TypeOK, AppendHistory, Writing
  <1>2. history' = Append(history, x) /\ UNCHANGED current /\ cmd[p].at = "append"
    BY DEF AppendHistory
  <1>3. cmd'[p].at = "truncate" /\ cmd'[p].rec = x
        /\ \A q \in Procs : q # p => cmd'[q] = cmd[q]
    BY <1>1 DEF AppendHistory, Goto, Process
  <1>4. x = created \/ \E r \in Logged : Derives(r, x)
    BY <1>2 DEF LogInv, WriterIsGrounded
  <1> HIDE DEF x
  <1>5. /\ Logged' = Logged \union {x}
        /\ DOMAIN history = 1 .. Len(history)
        /\ DOMAIN history' = 1 .. Len(history) + 1
        /\ Len(history) \in Nat
        /\ \A i \in 1 .. Len(history) : history'[i] = history[i]
        /\ history'[Len(history) + 1] = x
    BY <1>1, <1>2, AppendLogs
  <1>6. CurrentIsLogged'
    BY <1>2, <1>5 DEF LogInv, CurrentIsLogged
  <1>7. WriterIsGrounded'
    BY <1>3, <1>5 DEF LogInv, WriterIsGrounded
  <1>8. HistoryIsDerived'
    <2> SUFFICES ASSUME NEW i \in DOMAIN history'
                 PROVE  \/ history'[i] = created
                        \/ \E j \in 1 .. i - 1 : Derives(history'[j], history'[i])
      BY DEF HistoryIsDerived
    <2>1. CASE i \in 1 .. Len(history)
      <3>1. \A j \in 1 .. i - 1 : history'[j] = history[j]
        BY <2>1, <1>5
      <3>2. \/ history[i] = created
            \/ \E j \in 1 .. i - 1 : Derives(history[j], history[i])
        BY <2>1, <1>5 DEF LogInv, HistoryIsDerived
      <3> QED
        BY <2>1, <1>5, <3>1, <3>2
    <2>2. CASE i = Len(history) + 1
      <3>1. CASE \E r \in Logged : Derives(r, x)
        <4>1. PICK j \in 1 .. Len(history) : Derives(history[j], x)
          BY <3>1, <1>5 DEF Logged
        <4>2. j \in 1 .. i - 1 /\ history'[j] = history[j] /\ history'[i] = x
          BY <4>1, <2>2, <1>5
        <4> QED
          BY <4>1, <4>2
      <3>2. CASE x = created
        BY <3>2, <2>2, <1>5
      <3> QED
        BY <3>1, <3>2, <1>4
    <2> QED
      BY <2>1, <2>2, <1>5
  <1> QED
    BY <1>6, <1>7, <1>8 DEF LogInv

LEMMA OverwriteKeepsLog ==
  ASSUME NEW p \in Procs, TypeOK, LogInv, TruncateCurrent(p) \/ OverwriteCurrent(p)
  PROVE  LogInv'
  <1>1. cmd \in [Procs -> Process] /\ cmd[p] \in Process
    BY DEF TypeOK
  <1>2. UNCHANGED history /\ Logged' = Logged /\ cmd[p].rec \in Logged
    BY DEF TruncateCurrent, OverwriteCurrent, Logged, LogInv, WriterIsGrounded
  <1>3. /\ cmd'[p].at = "overwrite" => cmd'[p].rec = cmd[p].rec
        /\ cmd'[p].at \notin {"append", "truncate"}
        /\ \A q \in Procs : q # p => cmd'[q] = cmd[q]
    BY <1>1 DEF TruncateCurrent, OverwriteCurrent, Goto, GotoStage, Exit, Idle, Process
  <1>4. WriterIsGrounded'
    BY <1>2, <1>3 DEF LogInv, WriterIsGrounded
  <1>5. ~Readable(Torn)
    BY DEF Readable, Torn, RunPhase, OrderedPhases
  <1>6. CurrentIsLogged'
    BY <1>2, <1>5 DEF TruncateCurrent, OverwriteCurrent, CurrentIsLogged
  <1>7. HistoryIsDerived'
    BY <1>2 DEF LogInv, HistoryIsDerived
  <1> QED
    BY <1>4, <1>6, <1>7 DEF LogInv

LEMMA OtherStepsAreQuiet ==
  ASSUME NEW p \in Procs, TypeOK,
         \/ Mkdir(p) \/ InitializeSlices(p) \/ CheckPhase(p) \/ StageSucceeds(p)
         \/ StageFails(p) \/ CollectLogs(p) \/ StopLogs(p) \/ Teardown(p)
         \/ ReadCurrentRaises(p) \/ Kill(p) \/ \E o \in Ops : Begin(p, o)
  PROVE  QuietStep(p)
  <1>1. cmd \in [Procs -> Process] /\ cmd[p] \in Process
    BY DEF TypeOK
  <1>2. UNCHANGED <<history, current>>
    BY DEF Mkdir, InitializeSlices, CheckPhase, StageSucceeds, StageFails, CollectLogs,
         StopLogs, Teardown, ReadCurrentRaises, Kill, Begin, files
  <1>3. ASSUME NEW s \in Steps \ {"append", "truncate", "overwrite"}, Goto(p, s)
        PROVE  cmd'[p].at = s
    BY <1>1, <1>3 DEF Goto, Process
  <1>4. ASSUME NEW n, GotoStage(p, n)
        PROVE  cmd'[p].at \in {"read", "work"}
    BY <1>1, <1>4 DEF GotoStage, Process
  <1>5. ASSUME Exit(p) PROVE cmd'[p].at = "idle"
    BY <1>1, <1>5 DEF Exit, Idle
  <1>6. ASSUME NEW o \in Ops, Begin(p, o)
        PROVE  cmd'[p].at \in {"mkdir", "check", "logs", "teardown"}
    BY <1>1, <1>6 DEF Begin, FirstStep, Ops, BringUpOps, Idle
  <1>7. cmd'[p].at \notin {"append", "truncate", "overwrite"}
    <2>1. CASE StageFails(p) \/ ReadCurrentRaises(p)
      BY <1>1, <1>5, <2>1 DEF StageFails, ReadCurrentRaises, Process
    <2>2. CASE Kill(p)
      BY <1>1, <2>2 DEF Kill, Idle
    <2>3. CASE \E o \in Ops : Begin(p, o)
      BY <2>3, <1>6
    <2>4. CASE CheckPhase(p) \/ StageSucceeds(p)
      BY <2>4, <1>3, <1>4, <1>5 DEF CheckPhase, StageSucceeds, Steps
    <2> QED
      BY <1>3, <1>5, <2>1, <2>2, <2>3, <2>4 DEF Mkdir, InitializeSlices, CollectLogs,
         StopLogs, Teardown, Steps
  <1>8. \A q \in Procs : q # p => cmd'[q] = cmd[q]
    BY <1>1 DEF Mkdir, InitializeSlices, CheckPhase, StageSucceeds, StageFails,
         CollectLogs, StopLogs, Teardown, ReadCurrentRaises, Kill, Begin, Goto,
         GotoStage, Exit
  <1> QED
    BY <1>2, <1>7, <1>8 DEF QuietStep

LEMMA LogInvStep == TypeOK /\ LogInv /\ [Next]_vars => LogInv'
  <1> SUFFICES ASSUME TypeOK, LogInv, [Next]_vars
               PROVE  LogInv'
    OBVIOUS
  <1>1. ASSUME NEW p \in Procs, Command(p) \/ Dispatch(p) \/ Continue(p) \/ Kill(p)
        PROVE  LogInv'
    <2>1. CASE ReadCurrent(p) \/ RenderArtifacts(p) \/ AppendHistory(p)
               \/ TruncateCurrent(p) \/ OverwriteCurrent(p)
      BY <2>1, ReadKeepsLog, RenderKeepsLog, AppendKeepsLog, OverwriteKeepsLog
    <2>2. CASE ~(ReadCurrent(p) \/ RenderArtifacts(p) \/ AppendHistory(p)
                 \/ TruncateCurrent(p) \/ OverwriteCurrent(p))
      <3>1. {"reset", "stop"} \subseteq Ops
        BY DEF Ops, BringUpOps
      <3>2. QuietStep(p)
        BY <1>1, <2>2, <3>1, OtherStepsAreQuiet DEF Command, Dispatch, Continue
      <3> QED
        BY <3>2, QuietStepKeepsLog
    <2> QED
      BY <2>1, <2>2
  <1>2. CASE HostRestart
    BY <1>2 DEF HostRestart, files, Idle, LogInv, CurrentIsLogged, HistoryIsDerived,
         WriterIsGrounded, Logged
  <1>4. CASE SliceAction
    BY <1>4 DEF SliceAction, LogInv, CurrentIsLogged, HistoryIsDerived,
         WriterIsGrounded, Logged
  <1>3. CASE UNCHANGED vars
    BY <1>3 DEF vars, files, LogInv, CurrentIsLogged, HistoryIsDerived,
         WriterIsGrounded, Logged
  <1> QED
    BY <1>1, <1>2, <1>3, <1>4 DEF Next

LEMMA LogInvHolds == Spec => []LogInv
  <1>1. ASSUME Init PROVE LogInv
    <2>1. ~Readable(Missing)
      BY DEF Readable, Missing, RunPhase, OrderedPhases
    <2>2. DOMAIN history = {}
      BY <1>1 DEF Init
    <2> QED
      BY <1>1, <2>1, <2>2
         DEF Init, Idle, LogInv, CurrentIsLogged, HistoryIsDerived, WriterIsGrounded
  <1> QED
    BY <1>1, LogInvStep, TypeCorrect, PTL DEF Spec

(* Whatever commands overlap and whatever processes are killed, the state   *)
(* in current-state.json is also a line of state.jsonl.                     *)
THEOREM CurrentAlwaysLogged == Spec => []CurrentIsLogged
  BY LogInvHolds, PTL DEF LogInv

(* Whatever commands overlap and whatever processes are killed, every line  *)
(* of state.jsonl comes by a legal transition from an earlier one.          *)
THEOREM HistoryAlwaysDerived == Spec => []HistoryIsDerived
  BY LogInvHolds, PTL DEF LogInv
-----------------------------------------------------------------------------
(* What the ways to move on make of the process's own record.               *)
Others(p) == \A q \in Procs : q # p => cmd'[q] = cmd[q]

LEMMA GotoFields ==
  ASSUME TypeOK, NEW p \in Procs, NEW s, Goto(p, s)
  PROVE  /\ cmd'[p].at = s /\ cmd'[p].op = cmd[p].op /\ cmd'[p].stage = cmd[p].stage
         /\ cmd'[p].failure = cmd[p].failure /\ cmd'[p].rec = cmd[p].rec
         /\ Others(p)
  BY DEF TypeOK, Goto, Process, Others

LEMMA GotoStageFields ==
  ASSUME TypeOK, NEW p \in Procs, NEW n, GotoStage(p, n)
  PROVE  /\ cmd'[p].at = (IF n = 11 THEN "read" ELSE "work")
         /\ cmd'[p].op = cmd[p].op /\ cmd'[p].stage = n
         /\ cmd'[p].failure = cmd[p].failure /\ cmd'[p].rec = cmd[p].rec
         /\ Others(p)
  BY DEF TypeOK, GotoStage, Process, Others

LEMMA ExitFields ==
  ASSUME TypeOK, NEW p \in Procs, Exit(p)
  PROVE  /\ cmd'[p].at = "idle" /\ cmd'[p].op = NoOp /\ cmd'[p].stage = 0
         /\ cmd'[p].failure = cmd[p].failure
         /\ Others(p)
  BY DEF TypeOK, Exit, Idle, Others

LEMMA WritesFields ==
  ASSUME TypeOK, NEW p \in Procs, NEW r,
         cmd' = [cmd EXCEPT ![p].at = "append", ![p].rec = r]
           \/ cmd' = [cmd EXCEPT ![p].rec = r, ![p].at = "append"]
  PROVE  /\ cmd'[p].at = "append" /\ cmd'[p].rec = r
         /\ cmd'[p].op = cmd[p].op /\ cmd'[p].stage = cmd[p].stage
         /\ cmd'[p].failure = cmd[p].failure
         /\ Others(p)
  BY DEF TypeOK, Process, Others

LEMMA FailsFields ==
  ASSUME TypeOK, NEW p \in Procs, NEW b,
         cmd' = [cmd EXCEPT ![p].failure = b, ![p].at = "collect"]
  PROVE  /\ cmd'[p].at = "collect" /\ cmd'[p].failure = b
         /\ cmd'[p].op = cmd[p].op /\ cmd'[p].stage = cmd[p].stage
         /\ Others(p)
  BY DEF TypeOK, Process, Others

LEMMA BeginFields ==
  ASSUME TypeOK, NEW p \in Procs, NEW o \in Ops, Begin(p, o)
  PROVE  /\ cmd'[p].at = FirstStep(o) /\ cmd'[p].op = o /\ cmd'[p].stage = 0
         /\ cmd'[p].failure = NoPhase
         /\ Others(p)
  BY DEF TypeOK, Begin, Idle, Others

LEMMA FirstSteps ==
  ASSUME NEW o \in Ops
  PROVE  /\ FirstStep(o) \in {"mkdir", "check", "logs", "teardown"}
         /\ FirstStep(o) = "mkdir" => o # "stop"
         /\ FirstStep(o) = "check" => o \in {"start", "resume"}
         /\ FirstStep(o) = "logs" => o = "stop"
         /\ FirstStep(o) = "teardown" => o = "reset"
         /\ o = "stop" => FirstStep(o) = "logs"
  BY DEF FirstStep, Ops, BringUpOps

(* Every step of a command leaves the other processes' records alone.       *)
LEMMA ContinueLeavesOthers ==
  ASSUME TypeOK, NEW p \in Procs, Continue(p)
  PROVE  Others(p) /\ cmd[p].at # "idle"
  <1>1. PICK c : cmd' = [cmd EXCEPT ![p] = c]
    BY ContinueIsSound
  <1>2. Others(p)
    BY <1>1 DEF TypeOK, Others
  <1> QED
    BY <1>2 DEF Continue, Mkdir, RenderArtifacts, InitializeSlices, CheckPhase,
       StageSucceeds, StageFails, CollectLogs, StopLogs, Teardown, ReadCurrent,
       ReadCurrentRaises, AppendHistory, TruncateCurrent, OverwriteCurrent

-----------------------------------------------------------------------------
(***************************************************************************)
(* A run is not brought up before it is rendered.  The invariant adds the   *)
(* file and the processes that have found it or are about to write it.      *)
(***************************************************************************)
BeyondRender(c) ==
  c.at \in {"work", "collect", "append", "truncate", "overwrite"} \/ c.stage # 0

LayoutInv ==
  /\ current # Missing => layout = "rendered"
  /\ \A p \in Procs : BeyondRender(cmd[p]) => layout = "rendered"

LEMMA LayoutOnlyGrows ==
  ASSUME [Next]_vars, layout = "rendered"
  PROVE  layout' = "rendered"
  BY DEF Next, vars, Command, Dispatch, Begin, Continue, Kill, HostRestart, SliceAction, Mkdir,
     RenderArtifacts, InitializeSlices, CheckPhase, StageSucceeds, StageFails,
     CollectLogs, StopLogs, Teardown, ReadCurrent, ReadCurrentRaises, AppendHistory,
     TruncateCurrent, OverwriteCurrent, files

(* No command goes beyond rendering but from a record it has found, or by   *)
(* rendering.                                                               *)
LEMMA ContinueKeepsLayout ==
  ASSUME TypeOK, LayoutInv, NEW p \in Procs, Continue(p), layout' # "rendered"
  PROVE  ~BeyondRender(cmd'[p]) /\ UNCHANGED current
  <1> DEFINE c == cmd[p]
  <1> DEFINE d == cmd'[p]
  <1>1. layout # "rendered"
    BY LayoutOnlyGrows DEF Next
  <1>2. /\ c.at \notin {"work", "collect", "append", "truncate", "overwrite"}
        /\ c.stage = 0 /\ current = Missing
    BY <1>1 DEF LayoutInv, BeyondRender
  <1>3. Missing.phase = "no file" /\ ~Readable(Missing)
    BY DEF Missing, Readable, RunPhase, OrderedPhases
  <1>4. ASSUME NEW s \in {"artifacts", "check", "teardown", "read"}, Goto(p, s)
        PROVE  ~BeyondRender(d)
    BY <1>2, <1>4, GotoFields DEF BeyondRender
  <1>5. ASSUME Exit(p) PROVE ~BeyondRender(d)
    BY <1>5, ExitFields DEF BeyondRender
  <1>6. ~RenderArtifacts(p)
    BY DEF RenderArtifacts
  <1>7. ~ReadCurrent(p)
    BY <1>2, <1>3 DEF ReadCurrent, Proposed
  <1>8. CheckPhase(p) => Exit(p)
    BY <1>2, <1>3 DEF CheckPhase, MayBringUp, CanRecover
  <1>9. ReadCurrentRaises(p) => Exit(p)
    BY <1>2 DEF ReadCurrentRaises, Stages
  <1>10. \/ Mkdir(p) \/ InitializeSlices(p) \/ CheckPhase(p) \/ StopLogs(p)
         \/ Teardown(p) \/ ReadCurrentRaises(p)
    BY <1>2, <1>6, <1>7 DEF Continue, StageSucceeds, StageFails, CollectLogs,
       AppendHistory, TruncateCurrent, OverwriteCurrent
  <1>11. UNCHANGED current
    BY <1>10 DEF Mkdir, InitializeSlices, CheckPhase, StopLogs, Teardown,
       ReadCurrentRaises, files
  <1>12. Exit(p) \/ \E s \in {"artifacts", "check", "teardown", "read"} : Goto(p, s)
    BY <1>8, <1>9, <1>10 DEF Mkdir, InitializeSlices, StopLogs, Teardown
  <1> HIDE DEF d
  <1> QED
    BY <1>4, <1>5, <1>11, <1>12 DEF d

LEMMA LayoutStep == TypeOK /\ LayoutInv /\ [Next]_vars => LayoutInv'
  <1> SUFFICES ASSUME TypeOK, LayoutInv, [Next]_vars, layout' # "rendered"
               PROVE  current' = Missing /\ \A q \in Procs : ~BeyondRender(cmd'[q])
    BY DEF LayoutInv, BeyondRender
  <1>1. layout # "rendered"
    BY LayoutOnlyGrows
  <1>2. current = Missing /\ \A q \in Procs : ~BeyondRender(cmd[q])
    BY <1>1 DEF LayoutInv
  <1>3. ASSUME NEW p \in Procs, Others(p), ~BeyondRender(cmd'[p]), UNCHANGED current
        PROVE  current' = Missing /\ \A q \in Procs : ~BeyondRender(cmd'[q])
    BY <1>2, <1>3 DEF Others
  <1>4. ASSUME NEW p \in Procs, NEW o \in Ops, Begin(p, o)
        PROVE  Others(p) /\ ~BeyondRender(cmd'[p]) /\ UNCHANGED current
    <2>1. UNCHANGED current
      BY <1>4 DEF Begin, files
    <2>2. Others(p) /\ cmd'[p].at = FirstStep(o) /\ cmd'[p].stage = 0
      BY <1>4, BeginFields
    <2> QED
      BY <2>1, <2>2, FirstSteps DEF BeyondRender
  <1>5. ASSUME NEW p \in Procs, Kill(p)
        PROVE  Others(p) /\ ~BeyondRender(cmd'[p]) /\ UNCHANGED current
    BY <1>5 DEF Kill, TypeOK, Idle, Others, BeyondRender, files
  <1>6. ASSUME NEW p \in Procs, Continue(p)
        PROVE  Others(p) /\ ~BeyondRender(cmd'[p]) /\ UNCHANGED current
    BY <1>6, ContinueLeavesOthers, ContinueKeepsLayout
  <1>7. CASE HostRestart
    BY <1>2, <1>7 DEF HostRestart, Idle, BeyondRender, files
  <1>10. CASE SliceAction
    BY <1>2, <1>10 DEF SliceAction, BeyondRender
  <1>8. CASE UNCHANGED vars
    BY <1>2, <1>8 DEF vars, files, BeyondRender
  <1>9. {"reset", "stop"} \subseteq Ops
    BY DEF Ops, BringUpOps
  <1> QED
    BY <1>3, <1>4, <1>5, <1>6, <1>7, <1>8, <1>9, <1>10
       DEF Next, Command, Dispatch

(* However commands overlap and are killed, no stage of a bring-up runs     *)
(* before every artifact of the run is written.                             *)
THEOREM AlwaysRenderedWhenBroughtUp == Spec => []BroughtUpOnlyWhenRendered
  <1>1. Init => LayoutInv
    BY DEF Init, Idle, LayoutInv, BeyondRender
  <1>2. LayoutInv => BroughtUpOnlyWhenRendered
    BY DEF LayoutInv, BeyondRender, BroughtUpOnlyWhenRendered
  <1> QED
    BY <1>1, <1>2, LayoutStep, TypeCorrect, PTL DEF Spec
===============================================================================

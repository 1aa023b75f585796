------------------------ MODULE SnapshotBuilder_proofs ------------------------
(***************************************************************************)
(* Theorems about SnapshotBuilder: type correctness with the exclusion of   *)
(* builds, the order of the snapshots, the age of the evidence that actions *)
(* are accepted on, and that the answer of an action names a snapshot that  *)
(* is there and shows what the action did.                                  *)
(***************************************************************************)
EXTENDS SnapshotBuilder, TLAPS

Busy(b) == build[b].at \in Inside

(* What TypeOK says of the builds, and of everything else.                  *)
BuildsOK ==
  /\ lock \in Builds \union {"none"}
  /\ build \in [Builds -> Build]
  /\ \A b \in Builds : Busy(b) <=> lock = b

StoreOK ==
  /\ log \in Seq(Snapshots) /\ tail \in {"clean", "half", "garbled"}
  /\ table \subseteq Snapshots

WorldOK ==
  /\ now \in Nat /\ content \in Reads /\ torn \subseteq Files
  /\ up \subseteq Nodes /\ seen \in [Nodes -> Nat]
  /\ builder \in {"down", "waiting", "serving"}
  /\ requests \in Nat /\ kills \in Nat

CallsOK == call \in [Callers -> Call]

TypeInv == BuildsOK /\ StoreOK /\ WorldOK /\ CallsOK

LEMMA TypeInvIsTypeOK == TypeInv <=> TypeOK
  BY DEF TypeInv, TypeOK, BuildsOK, StoreOK, WorldOK, CallsOK, Busy

LEMMA Initially ==
  /\ Unread \in Reads /\ NoBuild \in Build /\ NoCall \in Call
  /\ NoBuild.at \notin Inside
  BY DEF Unread, Reads, NoBuild, Resting, Build, Never, NoCall, NewCall, NoAnswer, Call, Snapshots,
         Done, Inside, Files

LEMMA NoneBuilds == "none" \notin Builds /\ periodic \in Builds /\ Callers \subseteq Builds
  BY BuilderAssumption DEF Builds

LEMMA SnapshotsOfBuilds ==
  ASSUME BuildsOK, NEW b \in Builds
  PROVE  Snapshot(b) \in Snapshots
  BY DEF BuildsOK, Build, Snapshot, Snapshots

-----------------------------------------------------------------------------
(* The ways in which a step changes the builds.                             *)

LEMMA KeepingBuilds ==
  ASSUME BuildsOK, UNCHANGED <<lock, build>>
  PROVE  BuildsOK'
  BY DEF BuildsOK, Busy

(* A build moves between steps inside, or between steps outside.            *)
LEMMA MovingBuild ==
  ASSUME BuildsOK, NEW b \in Builds, NEW r \in Build,
         build' = [build EXCEPT ![b] = r], lock' = lock,
         r.at \in Inside <=> Busy(b)
  PROVE  BuildsOK'
<1>1. build' \in [Builds -> Build]
  BY DEF BuildsOK
<1>2. \A a \in Builds : build'[a] = IF a = b THEN r ELSE build[a]
  BY DEF BuildsOK
<1>3. \A a \in Builds : Busy(a)' <=> Busy(a)
  BY <1>2 DEF Busy
<1>. QED  BY <1>1, <1>3 DEF BuildsOK

LEMMA BeginningBuild ==
  ASSUME BuildsOK, NEW b \in Builds, NEW r \in Build,
         build' = [build EXCEPT ![b] = r], lock = "none", lock' = b, r.at \in Inside
  PROVE  BuildsOK'
<1>1. build' \in [Builds -> Build]
  BY DEF BuildsOK
<1>2. \A a \in Builds : build'[a] = IF a = b THEN r ELSE build[a]
  BY DEF BuildsOK
<1>3. \A a \in Builds : ~ Busy(a)
  BY NoneBuilds DEF BuildsOK
<1>4. \A a \in Builds : Busy(a)' <=> a = b
  BY <1>2, <1>3 DEF Busy
<1>. QED  BY <1>1, <1>4 DEF BuildsOK

LEMMA EndingBuild ==
  ASSUME BuildsOK, NEW b \in Builds, Busy(b),
         NEW at \in {"idle", "ended"}, Leave(b, at)
  PROVE  BuildsOK'
<1>. DEFINE r == Resting(at, IF b = periodic THEN build[b].from ELSE Never)
<1>1. r \in Build /\ r.at \notin Inside
  <2>1. build[b].from \in Nat
    BY DEF BuildsOK, Build
  <2>. QED  BY <2>1, Initially DEF Resting, Build, Inside, Files, Never
<1>2. build' = [build EXCEPT ![b] = r] /\ lock' = "none"
  BY DEF Leave
<1>. HIDE DEF r
<1>3. build' \in [Builds -> Build]
  BY <1>1, <1>2 DEF BuildsOK
<1>4. \A a \in Builds : build'[a] = IF a = b THEN r ELSE build[a]
  BY <1>2 DEF BuildsOK
<1>5. \A a \in Builds : a # b => ~ Busy(a)
  BY DEF BuildsOK
<1>6. \A a \in Builds : ~ Busy(a)'
  BY <1>1, <1>4, <1>5 DEF Busy
<1>. QED  BY <1>2, <1>3, <1>6, NoneBuilds DEF BuildsOK

LEMMA ForgettingBuilds ==
  ASSUME build' = [b \in Builds |-> NoBuild], lock' = "none"
  PROVE  BuildsOK'
  BY Initially, NoneBuilds DEF BuildsOK, Busy

LEMMA ChangingCall ==
  ASSUME CallsOK, NEW c \in Callers, NEW r \in Call, call' = [call EXCEPT ![c] = r]
  PROVE  CallsOK'
  BY DEF CallsOK

-----------------------------------------------------------------------------
(* Type correctness: one lemma for each kind of step.                       *)

LEMMA WorldKept ==
  ASSUME WorldOK, UNCHANGED <<now, files, nodes, builder, requests, kills>>
  PROVE  WorldOK'
  BY DEF WorldOK, files, nodes

LEMMA SurroundingsTyped ==
  ASSUME TypeInv, Tick \/ LaunchBuilder
  PROVE  TypeInv'
<1>1. BuildsOK'
  BY KeepingBuilds DEF TypeInv, Tick, LaunchBuilder
<1>2. StoreOK' /\ CallsOK'
  BY DEF TypeInv, StoreOK, CallsOK, Tick, LaunchBuilder, store
<1>3. CASE Tick
  <2>1. now' \in Nat
    BY <1>3 DEF Tick, TypeInv, WorldOK
  <2>2. seen' \in [Nodes -> Nat]
    BY <1>3, <2>1 DEF Tick, TypeInv, WorldOK
  <2>3. content' \in Reads
    BY <1>3, <2>1 DEF Tick, TypeInv, WorldOK, Reads, Files
  <2>. QED  BY <1>1, <1>2, <1>3, <2>1, <2>2, <2>3 DEF Tick, TypeInv, WorldOK
<1>4. CASE LaunchBuilder
  BY <1>1, <1>2, <1>4 DEF LaunchBuilder, TypeInv, WorldOK, files, nodes
<1>. QED  BY <1>3, <1>4

LEMMA PeriodicTyped ==
  ASSUME TypeInv, Serve \/ PeriodicWakes
  PROVE  TypeInv'
<1>1. StoreOK' /\ CallsOK'
  BY DEF TypeInv, StoreOK, CallsOK, Serve, PeriodicWakes, store
<1>2. WorldOK'
  BY DEF TypeInv, WorldOK, Serve, PeriodicWakes, files, nodes
<1>3. build[periodic] \in Build
  BY NoneBuilds DEF TypeInv, BuildsOK
<1>4. CASE Serve
  <2>. DEFINE r == [build[periodic] EXCEPT !.from = now]
  <2>1. r \in Build /\ r.at = build[periodic].at
    BY <1>3 DEF TypeInv, WorldOK, Build
  <2>2. build' = [build EXCEPT ![periodic] = r] /\ lock' = lock
    BY <1>4 DEF Serve
  <2>. HIDE DEF r
  <2>. QED  BY <1>1, <1>2, <2>1, <2>2, NoneBuilds, MovingBuild DEF TypeInv, Busy
<1>5. CASE PeriodicWakes
  <2>. DEFINE r == [build[periodic] EXCEPT !.at = "lock"]
  <2>1. r \in Build /\ r.at = "lock"
    BY <1>3 DEF Build
  <2>2. build' = [build EXCEPT ![periodic] = r] /\ lock' = lock
    BY <1>5 DEF PeriodicWakes
  <2>3. r.at \in Inside <=> Busy(periodic)
    BY <1>5, <2>1 DEF PeriodicWakes, Inside, Files, Busy
  <2>. HIDE DEF r
  <2>. QED  BY <1>1, <1>2, <2>1, <2>2, <2>3, NoneBuilds, MovingBuild DEF TypeInv
<1>. QED  BY <1>4, <1>5

LEMMA ReadingTyped ==
  ASSUME TypeInv, NEW b \in Builds, Begin(b) \/ ReadFile(b)
  PROVE  TypeInv'
<1>1. StoreOK' /\ CallsOK'
  BY DEF TypeInv, StoreOK, CallsOK, Begin, ReadFile, store
<1>2. WorldOK'
  BY DEF TypeInv, WorldOK, Begin, ReadFile, files, nodes
<1>3. build[b] \in Build
  BY DEF TypeInv, BuildsOK
<1>4. CASE Begin(b)
  <2>. DEFINE r == [at |-> "sessions", from |-> now, read |-> Unread, whole |-> Sampled]
  <2>1. r \in Build /\ r.at = "sessions"
    BY Initially DEF TypeInv, WorldOK, Build, Inside, Files, Sampled
  <2>2. build' = [build EXCEPT ![b] = r] /\ lock = "none" /\ lock' = b
    BY <1>4 DEF Begin
  <2>3. r.at \in Inside
    BY <2>1 DEF Inside, Files
  <2>. HIDE DEF r
  <2>. QED  BY <1>1, <1>2, <2>1, <2>2, <2>3, BeginningBuild DEF TypeInv
<1>5. CASE ReadFile(b)
  <2>1. PICK f \in Files \ torn :
          /\ build[b].at = f
          /\ build' = [build EXCEPT ![b].at = After[f], ![b].read[f] = content[f]]
          /\ lock' = lock
    BY <1>5 DEF ReadFile
  <2>. DEFINE r == [build[b] EXCEPT !.at = After[f], !.read[f] = content[f]]
  <2>2. After[f] \in Inside
    BY DEF After, Files, Inside
  <2>3. content[f] \in Nat
    BY DEF TypeInv, WorldOK, Reads
  <2>4. r \in Build /\ r.at = After[f]
    BY <1>3, <2>2, <2>3 DEF Build, Reads
  <2>5. build' = [build EXCEPT ![b] = r]
    BY <2>1
  <2>6. Busy(b)
    BY <2>1 DEF Busy, Inside
  <2>. HIDE DEF r
  <2>. QED  BY <1>1, <1>2, <2>1, <2>2, <2>4, <2>5, <2>6, MovingBuild DEF TypeInv
<1>. QED  BY <1>4, <1>5

LEMMA WritingTyped ==
  ASSUME TypeInv, NEW b \in Builds, StartLine(b) \/ EndLine(b)
  PROVE  TypeInv'
<1>1. CallsOK' /\ WorldOK'
  BY WorldKept DEF TypeInv, CallsOK, StartLine, EndLine
<1>2. build[b] \in Build
  BY DEF TypeInv, BuildsOK
<1>3. StoreOK'
  <2>1. CASE StartLine(b)
    BY <2>1 DEF StartLine, TypeInv, StoreOK
  <2>2. CASE EndLine(b)
    <3>1. Snapshot(b) \in Snapshots
      BY SnapshotsOfBuilds DEF TypeInv
    <3>. HIDE DEF Snapshot
    <3>. QED  BY <2>2, <3>1 DEF EndLine, TypeInv, StoreOK, store
  <2>. QED  BY <2>1, <2>2
<1>4. PICK at \in {"rest", "insert"} :
        build' = [build EXCEPT ![b].at = at] /\ lock' = lock /\ Busy(b)
  BY DEF StartLine, EndLine, Busy, Inside
<1>. DEFINE r == [build[b] EXCEPT !.at = at]
<1>5. r \in Build /\ r.at \in Inside
  BY <1>2 DEF Build, Inside
<1>6. build' = [build EXCEPT ![b] = r]
  BY <1>4
<1>. HIDE DEF r
<1>. QED  BY <1>1, <1>3, <1>4, <1>5, <1>6, MovingBuild DEF TypeInv

LEMMA EndingTyped ==
  ASSUME TypeInv, NEW b \in Builds, Insert(b) \/ Raise(b)
  PROVE  TypeInv'
<1>1. WorldOK'
  BY WorldKept DEF TypeInv, Insert, Raise
<1>2. Busy(b)
  BY DEF TypeInv, WorldOK, Insert, Raise, NothingToDivide, QueryFails, Busy, Inside
<1>3. BuildsOK'
  BY <1>2, EndingBuild DEF TypeInv, Insert, Raise
<1>4. Snapshot(b) \in Snapshots
  BY SnapshotsOfBuilds DEF TypeInv
<1>5. NewCall("answered", {}, Snapshot(b)) \in Call
  BY <1>4 DEF NewCall, Call, Done
<1>6. CallsOK'
  <2>1. CASE Insert(b)
    <3>1. CASE Waits(b)
      BY <1>5, <2>1, <3>1, ChangingCall DEF Insert, Waits, TypeInv
    <3>2. CASE ~ Waits(b)
      BY <2>1, <3>2 DEF Insert, TypeInv, CallsOK
    <3>. QED  BY <3>1, <3>2
  <2>2. CASE Raise(b)
    <3>1. CASE Waits(b)
      BY Initially, <2>2, <3>1, ChangingCall DEF Raise, Waits, TypeInv
    <3>2. CASE ~ Waits(b)
      BY <2>2, <3>2 DEF Raise, TypeInv, CallsOK
    <3>. QED  BY <3>1, <3>2
  <2>. QED  BY <2>1, <2>2
<1>7. StoreOK'
  BY <1>4 DEF TypeInv, StoreOK, Insert, Raise, store
<1>. QED  BY <1>1, <1>3, <1>6, <1>7 DEF TypeInv

LEMMA DeathTyped ==
  ASSUME TypeInv, BuilderDies
  PROVE  TypeInv'
<1>1. BuildsOK'
  BY ForgettingBuilds DEF BuilderDies
<1>2. CallsOK'
  BY Initially DEF BuilderDies, TypeInv, CallsOK
<1>3. StoreOK' /\ WorldOK'
  BY DEF BuilderDies, TypeInv, StoreOK, WorldOK, store, files, nodes
<1>. QED  BY <1>1, <1>2, <1>3 DEF TypeInv

(* A step of a request changes no build but by asking for one.              *)
LEMMA AskingTyped ==
  ASSUME TypeInv, NEW c \in Callers, Ask(c)
  PROVE  TypeInv'
<1>1. StoreOK' /\ WorldOK'
  BY WorldKept DEF Ask, TypeInv, StoreOK, store
<1>2. CallsOK'
  <2>. DEFINE r == [call[c] EXCEPT !.at = "wait", !.asked = now]
  <2>1. call[c] \in Call /\ now \in Nat
    BY DEF TypeInv, CallsOK, WorldOK
  <2>2. r \in Call
    BY <2>1 DEF Call
  <2>3. call' = [call EXCEPT ![c] = r]
    BY DEF Ask
  <2>. HIDE DEF r
  <2>. QED  BY <2>2, <2>3, ChangingCall DEF TypeInv
<1>3. BuildsOK'
  <2>. DEFINE r == [build[c] EXCEPT !.at = "lock"]
  <2>1. build[c] \in Build /\ c \in Builds
    BY NoneBuilds DEF TypeInv, BuildsOK
  <2>2. r \in Build /\ r.at = "lock"
    BY <2>1 DEF Build
  <2>3. build' = [build EXCEPT ![c] = r] /\ lock' = lock
    BY DEF Ask
  <2>4. r.at \in Inside <=> Busy(c)
    BY <2>2 DEF Ask, Inside, Files, Busy
  <2>. HIDE DEF r
  <2>. QED  BY <2>1, <2>2, <2>3, <2>4, MovingBuild DEF TypeInv
<1>. QED  BY <1>1, <1>2, <1>3 DEF TypeInv

LEMMA RequestTyped ==
  ASSUME TypeInv, NEW c \in Callers,
         (\E order \in SUBSET Nodes : Accept(c, order)) \/ Act(c) \/ Truncate(c)
           \/ Write(c) \/ GiveUp(c)
  PROVE  TypeInv'
<1>1. BuildsOK'
  BY KeepingBuilds DEF TypeInv, Accept, Act, Truncate, Write, GiveUp
<1>2. StoreOK'
  BY DEF TypeInv, StoreOK, Accept, Act, Truncate, Write, GiveUp, store
<1>3. call[c] \in Call /\ now \in Nat
  BY DEF TypeInv, CallsOK, WorldOK
<1>4. FileOf(call[c].order) \in Files
  BY DEF FileOf, Files
<1>5. WorldOK'
  <2>1. CASE \E order \in SUBSET Nodes : Accept(c, order)
    BY <2>1 DEF Accept, TypeInv, WorldOK, files, nodes
  <2>2. CASE Act(c)
    <3>1. call[c].order \subseteq Nodes
      BY <1>3 DEF Call
    <3>. QED  BY <2>2, <3>1 DEF Act, TypeInv, WorldOK, files
  <2>3. CASE Truncate(c)
    BY <1>4, <2>3 DEF Truncate, TypeInv, WorldOK, nodes
  <2>4. CASE Write(c)
    <3>1. content' \in Reads
      BY <1>3, <1>4, <2>4 DEF Write, TypeInv, WorldOK, Reads
    <3>2. torn' \subseteq Files
      BY <1>4, <2>4 DEF Write, TypeInv, WorldOK
    <3>. QED  BY <2>4, <3>1, <3>2 DEF Write, TypeInv, WorldOK, nodes
  <2>5. CASE GiveUp(c)
    BY <2>5, WorldKept DEF GiveUp, TypeInv
  <2>. QED  BY <2>1, <2>2, <2>3, <2>4, <2>5
<1>6. CallsOK'
  <2>1. CASE \E order \in SUBSET Nodes : Accept(c, order)
    <3>1. PICK order \in SUBSET Nodes : call' = [call EXCEPT ![c] = NewCall("act", order, NoAnswer)]
      BY <2>1 DEF Accept
    <3>2. NewCall("act", order, NoAnswer) \in Call
      BY Initially DEF NewCall, NoAnswer, Call, Snapshots, Never, Unread
    <3>. QED  BY <3>1, <3>2, ChangingCall DEF TypeInv
  <2>2. CASE Act(c) \/ Truncate(c)
    <3>1. PICK at \in {"truncate", "write"} : call' = [call EXCEPT ![c].at = at]
      BY <2>2 DEF Act, Truncate
    <3>. DEFINE r == [call[c] EXCEPT !.at = at]
    <3>2. r \in Call /\ call' = [call EXCEPT ![c] = r]
      BY <1>3, <3>1 DEF Call
    <3>. HIDE DEF r
    <3>. QED  BY <3>2, ChangingCall DEF TypeInv
  <2>3. CASE Write(c)
    <3>. DEFINE r == [call[c] EXCEPT !.at = "ask", !.wrote = now]
    <3>1. r \in Call
      BY <1>3 DEF Call
    <3>2. call' = [call EXCEPT ![c] = r]
      BY <2>3 DEF Write
    <3>. HIDE DEF r
    <3>. QED  BY <3>1, <3>2, ChangingCall DEF TypeInv
  <2>4. CASE GiveUp(c)
    BY Initially, <2>4, ChangingCall DEF GiveUp, TypeInv
  <2>. QED  BY <2>1, <2>2, <2>3, <2>4
<1>. QED  BY <1>1, <1>2, <1>5, <1>6 DEF TypeInv

LEMMA TypeInvInit == Init => TypeInv
<1>. SUFFICES ASSUME Init PROVE TypeInv
  OBVIOUS
<1>1. Start \in Nat /\ Never \in Nat
  BY BuilderAssumption DEF Start, Never
<1>2. BuildsOK
  BY Initially, NoneBuilds DEF Init, BuildsOK, Busy
<1>3. content \in Reads
  BY Initially, <1>1 DEF Init, Reads, Files
<1>4. WorldOK
  BY <1>1, <1>3 DEF Init, WorldOK
<1>5. CallsOK /\ StoreOK
  BY Initially DEF Init, CallsOK, StoreOK
<1>. QED  BY <1>2, <1>4, <1>5 DEF TypeInv

LEMMA TypeInvStep == TypeInv /\ [Next]_vars => TypeInv'
<1>. SUFFICES ASSUME TypeInv, [Next]_vars PROVE TypeInv'
  OBVIOUS
<1>1. CASE UNCHANGED vars
  BY <1>1, KeepingBuilds, WorldKept DEF vars, TypeInv, StoreOK, CallsOK, store
<1>2. CASE \E b \in Builds : Step(b)
  BY <1>2, ReadingTyped, WritingTyped, EndingTyped DEF Step
<1>3. CASE \E c \in Callers : Request(c)
  BY <1>3, RequestTyped, AskingTyped DEF Request
<1>. QED  BY <1>1, <1>2, <1>3, SurroundingsTyped, PeriodicTyped, DeathTyped DEF Next

(* Every variable holds a value of its kind, and a build is under way       *)
(* exactly when it holds the lock: no two builds overlap.                   *)
THEOREM SnapshotTypeCorrect == Spec => []TypeOK
<1>1. Spec => []TypeInv
  BY TypeInvInit, TypeInvStep, PTL DEF Spec
<1>. QED  BY <1>1, TypeInvIsTypeOK, PTL

-----------------------------------------------------------------------------
(***************************************************************************)
(* The order of the snapshots.  Neither property is inductive: what will be *)
(* appended is in the build that holds the lock.  It is ahead of the log in *)
(* all it has read so far, and once it writes, its window is covered.       *)
(***************************************************************************)
Covered(from) == \A n \in Nodes : from <= seen[n] + Window

Past ==
  /\ \A f \in Files : content[f] <= now
  /\ \A n \in Nodes : seen[n] <= now

(* Nothing in s is later than what there is.                                *)
Behind(s) ==
  /\ s.from <= now
  /\ \A f \in Files : s.read[f] <= content[f]

(* The files a build has read when it is about to do a step.                *)
HasRead == [sessions |-> {}, allocations |-> {"sessions"},
            catalog |-> {"sessions", "allocations"}, append |-> Files, rest |-> Files]
BeforeTheLog == Files \union {"append", "rest"}

Ahead(b) ==
  \A i \in DOMAIN log :
    /\ log[i].from <= build[b].from
    /\ \A f \in HasRead[build[b].at] : log[i].read[f] <= build[b].read[f]

BuildFits(b) ==
  /\ Behind(build[b])
  /\ Busy(b) /\ build[b].whole => Covered(build[b].from)
  /\ build[b].at \in {"rest", "insert"} => build[b].whole
  /\ build[b].at \in BeforeTheLog => Ahead(b)

LineFits(i) == Behind(log[i]) /\ Covered(log[i].from)

Fits ==
  /\ \A b \in Builds : BuildFits(b)
  /\ \A i \in DOMAIN log : LineFits(i)
  /\ SnapshotsAreInOrder

(* Nothing is built before the builder serves.                              *)
QuietAtFirst == builder # "serving" => \A b \in Builds : build[b].at = "idle"

EvidenceInv == TypeInv /\ Past /\ Fits /\ QuietAtFirst

LEMMA LogTypes ==
  ASSUME TypeInv, NEW i \in DOMAIN log
  PROVE  log[i] \in Snapshots /\ log[i].from \in Nat /\ \A f \in Files : log[i].read[f] \in Nat
<1>1. log[i] \in Snapshots
  BY DEF TypeInv, StoreOK
<1>. QED  BY <1>1 DEF Snapshots, Reads

LEMMA BuildTypes ==
  ASSUME TypeInv, NEW b \in Builds
  PROVE  build[b].from \in Nat /\ \A f \in Files : build[b].read[f] \in Nat
  BY DEF TypeInv, BuildsOK, Build, Reads

(* The clock, the files and the samples only move on.                       *)
MovesOn ==
  /\ now <= now'
  /\ \A f \in Files : content[f] <= content'[f]
  /\ \A n \in Nodes : seen[n] <= seen'[n]

LEMMA TimeMovesOn ==
  ASSUME TypeInv, Past, [Next]_vars
  PROVE  MovesOn /\ Past'
<1>0. /\ now \in Nat /\ \A f \in Files : content[f] \in Nat
      /\ \A n \in Nodes : seen[n] \in Nat
  BY DEF TypeInv, WorldOK, Reads
<1>1. CASE UNCHANGED <<now, content, seen>>
  BY <1>0, <1>1 DEF MovesOn, Past
<1>2. CASE Tick
  <2>1. now' = now + 1
    BY <1>2 DEF Tick
  <2>2. \A f \in Files : content'[f] = content[f] \/ content'[f] = now'
    BY <1>2 DEF Tick, TypeInv, WorldOK, Reads
  <2>3. \A n \in Nodes : seen'[n] = seen[n] \/ seen'[n] = now'
    BY <1>2 DEF Tick
  <2>. QED  BY <1>0, <2>1, <2>2, <2>3 DEF Past, MovesOn
<1>3. ASSUME NEW c \in Callers, Write(c) PROVE MovesOn /\ Past'
  <2>1. now' = now /\ seen' = seen
    BY <1>3 DEF Write, nodes
  <2>2. \A f \in Files : content'[f] = content[f] \/ content'[f] = now
    BY <1>3 DEF Write, TypeInv, WorldOK, Reads
  <2>. QED  BY <1>0, <2>1, <2>2 DEF Past, MovesOn
<1>4. ASSUME NEW b \in Builds, Step(b) PROVE UNCHANGED <<now, content, seen>>
  BY <1>4 DEF Step, Begin, ReadFile, StartLine, EndLine, Insert, Raise, files, nodes
<1>5. ASSUME NEW c \in Callers, Request(c), ~ Write(c) PROVE UNCHANGED <<now, content, seen>>
  BY <1>5 DEF Request, Accept, Act, Truncate, Ask, GiveUp, files, nodes
<1>6. CASE LaunchBuilder \/ Serve \/ PeriodicWakes \/ BuilderDies \/ UNCHANGED vars
  BY <1>1, <1>6 DEF LaunchBuilder, Serve, PeriodicWakes, BuilderDies, vars, files, nodes
<1>. QED  BY <1>1, <1>2, <1>3, <1>4, <1>5, <1>6 DEF Next

LEMMA QuietStays ==
  ASSUME TypeInv, QuietAtFirst, [Next]_vars
  PROVE  QuietAtFirst'
<1>1. CASE UNCHANGED <<builder, build>>
  BY <1>1 DEF QuietAtFirst
<1>2. CASE LaunchBuilder
  BY <1>2 DEF LaunchBuilder, QuietAtFirst
<1>3. CASE builder' = "serving"
  BY <1>3 DEF QuietAtFirst
<1>4. CASE BuilderDies
  BY <1>4 DEF BuilderDies, QuietAtFirst, NoBuild, Resting
<1>5. ASSUME NEW b \in Builds, Step(b) PROVE builder' = "serving"
  <2>1. build[b].at # "idle"
    BY <1>5 DEF Step, Begin, ReadFile, StartLine, EndLine, Insert, Raise, NothingToDivide,
         QueryFails, TypeInv, WorldOK, Files
  <2>2. builder' = builder
    BY <1>5 DEF Step, Begin, ReadFile, StartLine, EndLine, Insert, Raise
  <2>. QED  BY <2>1, <2>2 DEF QuietAtFirst
<1>6. ASSUME NEW c \in Callers, Request(c)
      PROVE  builder' = "serving" \/ UNCHANGED <<builder, build>>
  BY <1>6 DEF Request, Accept, Act, Truncate, Write, Ask, GiveUp
<1>7. CASE Tick \/ UNCHANGED vars
  BY <1>1, <1>7 DEF Tick, vars
<1>8. CASE Serve \/ PeriodicWakes
  BY <1>3, <1>8 DEF Serve, PeriodicWakes
<1>. QED  BY <1>1, <1>2, <1>3, <1>4, <1>5, <1>6, <1>7, <1>8 DEF Next

(* What fits keeps fitting while time moves on.                             *)
LEMMA BehindStays ==
  ASSUME TypeInv, TypeInv', MovesOn, NEW s \in [from : Nat, read : Reads], Behind(s)
  PROVE  s.from <= now' /\ \A f \in Files : s.read[f] <= content'[f]
<1>1. /\ now \in Nat /\ now' \in Nat /\ s.from \in Nat
      /\ \A f \in Files : content[f] \in Nat /\ content'[f] \in Nat /\ s.read[f] \in Nat
  BY DEF TypeInv, WorldOK, Reads
<1>. QED  BY <1>1 DEF MovesOn, Behind

LEMMA CoveredStays ==
  ASSUME TypeInv, TypeInv', MovesOn, NEW t \in Nat, Covered(t)
  PROVE  \A n \in Nodes : t <= seen'[n] + Window
<1>1. Window \in Nat /\ \A n \in Nodes : seen[n] \in Nat /\ seen'[n] \in Nat
  BY BuilderAssumption DEF TypeInv, WorldOK
<1>. QED  BY <1>1 DEF MovesOn, Covered

LEMMA LinesStay ==
  ASSUME TypeInv, TypeInv', MovesOn, Fits, log' = log
  PROVE  (\A i \in DOMAIN log' : LineFits(i)') /\ SnapshotsAreInOrder'
<1>1. SnapshotsAreInOrder'
  BY DEF Fits, SnapshotsAreInOrder
<1>2. ASSUME NEW i \in DOMAIN log PROVE LineFits(i)'
  <2>1. log[i] \in Snapshots /\ log[i].from \in Nat
    BY LogTypes
  <2>2. Behind(log[i]) /\ Covered(log[i].from)
    BY DEF Fits, LineFits
  <2>3. log[i].from <= now' /\ \A f \in Files : log[i].read[f] <= content'[f]
    BY <2>1, <2>2, BehindStays DEF Snapshots
  <2>4. \A n \in Nodes : log[i].from <= seen'[n] + Window
    BY <2>1, <2>2, CoveredStays
  <2>. QED  BY <2>3, <2>4 DEF LineFits, Behind, Covered
<1>. QED  BY <1>1, <1>2

LEMMA OneBuildStays ==
  ASSUME TypeInv, TypeInv', MovesOn, Fits, log' = log,
         NEW b \in Builds, build'[b] = build[b]
  PROVE  BuildFits(b)'
<1>1. BuildFits(b)
  BY DEF Fits
<1>2. build[b].from \in Nat /\ build[b].read \in Reads
  BY DEF TypeInv, BuildsOK, Build
<1>3. Behind(build[b])'
  <2>. DEFINE s == [from |-> build[b].from, read |-> build[b].read]
  <2>1. s \in [from : Nat, read : Reads] /\ Behind(s)
    BY <1>1, <1>2 DEF BuildFits, Behind
  <2>2. s.from <= now' /\ \A f \in Files : s.read[f] <= content'[f]
    BY <2>1, BehindStays
  <2>. QED  BY <2>2 DEF Behind
<1>4. (Busy(b) /\ build[b].whole => Covered(build[b].from))'
  BY <1>1, <1>2, CoveredStays DEF BuildFits, Busy, Covered
<1>5. (build[b].at \in BeforeTheLog => Ahead(b))'
  BY <1>1 DEF BuildFits, Ahead
<1>. QED  BY <1>1, <1>3, <1>4, <1>5 DEF BuildFits

LEMMA LogKeepsFitting ==
  ASSUME TypeInv, TypeInv', MovesOn, Fits, log' = log,
         NEW b \in Builds, \A a \in Builds : a # b => build'[a] = build[a],
         BuildFits(b)'
  PROVE  Fits'
<1>1. \A a \in Builds : BuildFits(a)'
  BY OneBuildStays
<1>. QED  BY <1>1, LinesStay DEF Fits

LEMMA StillFits ==
  ASSUME TypeInv, TypeInv', MovesOn, Fits, UNCHANGED <<log, build>>
  PROVE  Fits'
<1>1. \A a \in Builds : BuildFits(a)'
  BY OneBuildStays
<1>. QED  BY <1>1, LinesStay DEF Fits

(* A build at rest has nothing to fit but its times.                        *)
LEMMA RestFits ==
  ASSUME NEW b \in Builds, build'[b].at \in {"idle", "lock", "ended"}, Behind(build[b])'
  PROVE  BuildFits(b)'
  BY DEF BuildFits, Busy, Inside, Files, BeforeTheLog

LEMMA NothingIsBehind ==
  ASSUME TypeInv, NEW at, NEW from \in Nat, from <= now
  PROVE  Behind(Resting(at, from))
<1>1. now \in Nat /\ \A f \in Files : content[f] \in Nat
  BY DEF TypeInv, WorldOK, Reads
<1>. QED  BY <1>1 DEF Behind, Resting, Unread

LEMMA PeriodicFits ==
  ASSUME EvidenceInv, TypeInv', MovesOn, Serve \/ PeriodicWakes
  PROVE  Fits'
<1>1. /\ build[periodic] \in Build /\ build[periodic].from \in Nat
      /\ now \in Nat /\ periodic \in Builds
  BY NoneBuilds DEF EvidenceInv, TypeInv, BuildsOK, Build, WorldOK
<1>2. \A a \in Builds : a # periodic => build'[a] = build[a]
  BY DEF Serve, PeriodicWakes, EvidenceInv, TypeInv, BuildsOK
<1>3. log' = log /\ content' = content /\ now' = now /\ seen' = seen
  BY DEF Serve, PeriodicWakes, store, files, nodes
<1>4. BuildFits(periodic)
  BY <1>1 DEF EvidenceInv, Fits
<1>5. BuildFits(periodic)'
  <2>1. CASE PeriodicWakes
    <3>1. /\ build'[periodic].at = "lock"
          /\ build'[periodic].from = build[periodic].from
          /\ build'[periodic].read = build[periodic].read
      BY <1>1, <2>1 DEF PeriodicWakes, EvidenceInv, TypeInv, BuildsOK, Build
    <3>. QED  BY <1>1, <1>3, <1>4, <3>1, RestFits DEF BuildFits, Behind
  <2>2. CASE Serve
    <3>1. /\ build'[periodic].at = build[periodic].at
          /\ build'[periodic].from = now
          /\ build'[periodic].read = build[periodic].read
      BY <1>1, <2>2 DEF Serve, EvidenceInv, TypeInv, BuildsOK, Build
    <3>2. build[periodic].at = "idle"
      BY <1>1, <2>2 DEF Serve, EvidenceInv, QuietAtFirst
    <3>. QED  BY <1>1, <1>3, <1>4, <3>1, <3>2, RestFits DEF BuildFits, Behind
  <2>. QED  BY <2>1, <2>2
<1>. QED  BY <1>1, <1>2, <1>3, <1>5, LogKeepsFitting DEF EvidenceInv

LEMMA AskFits ==
  ASSUME EvidenceInv, TypeInv', MovesOn, NEW c \in Callers, Ask(c)
  PROVE  Fits'
<1>1. c \in Builds /\ build[c] \in Build /\ BuildFits(c)
  BY NoneBuilds DEF EvidenceInv, TypeInv, BuildsOK, Fits
<1>2. \A a \in Builds : a # c => build'[a] = build[a]
  BY DEF Ask, EvidenceInv, TypeInv, BuildsOK
<1>3. log' = log /\ content' = content /\ now' = now
  BY DEF Ask, store, files
<1>4. /\ build'[c].at = "lock"
      /\ build'[c].from = build[c].from
      /\ build'[c].read = build[c].read
  BY <1>1 DEF Ask, EvidenceInv, TypeInv, BuildsOK, Build
<1>5. BuildFits(c)'
  BY <1>1, <1>3, <1>4, RestFits DEF BuildFits, Behind
<1>. QED  BY <1>1, <1>2, <1>3, <1>5, LogKeepsFitting DEF EvidenceInv

LEMMA LeavingFits ==
  ASSUME EvidenceInv, TypeInv', MovesOn, NEW b \in Builds, Insert(b) \/ Raise(b)
  PROVE  Fits'
<1>1. BuildFits(b) /\ build[b].from \in Nat
  BY BuildTypes DEF EvidenceInv, Fits
<1>2. log' = log /\ content' = content /\ now' = now
  BY DEF Insert, Raise, store, files
<1>3. PICK at \in {"idle", "ended"} : Leave(b, at)
  BY DEF Insert, Raise
<1>. DEFINE from == IF b = periodic THEN build[b].from ELSE Never
<1>4. from \in Nat /\ from <= now
  BY <1>1 DEF BuildFits, Behind, Never, EvidenceInv, TypeInv, WorldOK
<1>5. build'[b] = Resting(at, from)
  BY <1>3 DEF Leave, EvidenceInv, TypeInv, BuildsOK
<1>6. \A a \in Builds : a # b => build'[a] = build[a]
  BY <1>3 DEF Leave, EvidenceInv, TypeInv, BuildsOK
<1>. HIDE DEF from
<1>7. Behind(build[b])'
  BY <1>2, <1>4, <1>5, NothingIsBehind DEF Behind, EvidenceInv
<1>8. build'[b].at \in {"idle", "lock", "ended"}
  BY <1>5 DEF Resting
<1>. QED  BY <1>2, <1>6, <1>7, <1>8, RestFits, LogKeepsFitting DEF EvidenceInv

LEMMA DeathFits ==
  ASSUME EvidenceInv, TypeInv', MovesOn, BuilderDies
  PROVE  Fits'
<1>1. log' = log /\ content' = content /\ now' = now
  BY DEF BuilderDies, store, files
<1>2. 0 \in Nat /\ 0 <= now
  BY DEF EvidenceInv, TypeInv, WorldOK
<1>3. ASSUME NEW b \in Builds PROVE BuildFits(b)'
  <2>1. build'[b] = Resting("idle", 0)
    BY DEF BuilderDies, NoBuild, Never
  <2>2. Behind(build[b])'
    BY <1>1, <1>2, <2>1, NothingIsBehind DEF Behind, EvidenceInv
  <2>. QED  BY <2>1, <2>2, RestFits DEF Resting
<1>. QED  BY <1>1, <1>3, LinesStay DEF Fits, EvidenceInv

(* A build begins ahead of every line: its window ends now.                 *)
LEMMA BeginFits ==
  ASSUME EvidenceInv, TypeInv', MovesOn, NEW b \in Builds, Begin(b)
  PROVE  Fits'
<1>1. \A a \in Builds : a # b => build'[a] = build[a]
  BY DEF Begin, EvidenceInv, TypeInv, BuildsOK
<1>2. log' = log /\ content' = content /\ now' = now /\ seen' = seen
  BY DEF Begin, store, files, nodes
<1>3. /\ build'[b].at = "sessions" /\ build'[b].from = now /\ build'[b].read = Unread
      /\ build'[b].whole = Covered(now)
  BY DEF Begin, EvidenceInv, TypeInv, BuildsOK, Covered, Sampled
<1>4. now \in Nat /\ \A f \in Files : content[f] \in Nat
  BY DEF EvidenceInv, TypeInv, WorldOK, Reads
<1>5. Behind(build[b])'
  BY <1>2, <1>3, <1>4 DEF Behind, Unread
<1>6. Ahead(b)'
  <2>1. HasRead["sessions"] = {}
    BY DEF HasRead
  <2>2. \A i \in DOMAIN log : log[i].from <= now
    BY DEF EvidenceInv, Fits, LineFits, Behind
  <2>. QED  BY <1>2, <1>3, <2>1, <2>2 DEF Ahead
<1>7. (Busy(b) /\ build[b].whole => Covered(build[b].from))'
  BY <1>2, <1>3 DEF Covered
<1>8. BuildFits(b)'
  BY <1>3, <1>5, <1>6, <1>7 DEF BuildFits
<1>. QED  BY <1>1, <1>2, <1>8, LogKeepsFitting DEF EvidenceInv

(* What a build reads is not behind what the lines show of the file.        *)
LEMMA ReadFits ==
  ASSUME EvidenceInv, TypeInv', MovesOn, NEW b \in Builds, ReadFile(b)
  PROVE  Fits'
<1>1. PICK f \in Files \ torn :
        /\ build[b].at = f
        /\ build' = [build EXCEPT ![b].at = After[f], ![b].read[f] = content[f]]
  BY DEF ReadFile
<1>2. log' = log /\ content' = content /\ now' = now /\ seen' = seen
  BY DEF ReadFile, store, files, nodes
<1>3. \A a \in Builds : a # b => build'[a] = build[a]
  BY <1>1 DEF EvidenceInv, TypeInv, BuildsOK
<1>4. BuildFits(b) /\ Busy(b) /\ build[b] \in Build
  BY <1>1 DEF EvidenceInv, TypeInv, BuildsOK, Fits, Busy, Inside
<1>5. build'[b] = [build[b] EXCEPT !.at = After[f], !.read[f] = content[f]]
  BY <1>1 DEF EvidenceInv, TypeInv, BuildsOK
<1>6. /\ build'[b].at = After[f] /\ build'[b].from = build[b].from
      /\ build'[b].whole = build[b].whole
      /\ \A g \in Files : build'[b].read[g] = IF g = f THEN content[g] ELSE build[b].read[g]
  BY <1>4, <1>5 DEF Build, Reads
<1>7. content[f] \in Nat
  BY DEF EvidenceInv, TypeInv, WorldOK, Reads
<1>8. Behind(build[b])'
  BY <1>2, <1>4, <1>6, <1>7 DEF BuildFits, Behind
<1>9. Ahead(b)'
  <2>1. HasRead[After[f]] = HasRead[f] \union {f} /\ HasRead[f] \subseteq Files
    BY DEF HasRead, After, Files
  <2>2. Ahead(b)
    BY <1>1, <1>4 DEF BuildFits, BeforeTheLog
  <2>3. \A i \in DOMAIN log : log[i].read[f] <= content[f]
    BY DEF EvidenceInv, Fits, LineFits, Behind
  <2>4. ASSUME NEW i \in DOMAIN log, NEW g \in HasRead[After[f]]
        PROVE  log[i].read[g] <= build'[b].read[g]
    <3>1. CASE g = f
      BY <1>6, <2>3, <3>1
    <3>2. CASE g # f
      BY <1>1, <1>6, <2>1, <2>2, <3>2 DEF Ahead
    <3>. QED  BY <3>1, <3>2
  <2>5. \A i \in DOMAIN log : log[i].from <= build'[b].from
    BY <1>6, <2>2 DEF Ahead
  <2>. QED  BY <1>2, <1>6, <2>4, <2>5 DEF Ahead
<1>10. After[f] \notin {"rest", "insert"}
  BY DEF After, Files
<1>11. BuildFits(b)'
  BY <1>2, <1>4, <1>6, <1>8, <1>9, <1>10 DEF BuildFits, Busy, Covered
<1>. QED  BY <1>2, <1>3, <1>11, LogKeepsFitting DEF EvidenceInv

LEMMA StartLineFits ==
  ASSUME EvidenceInv, TypeInv', MovesOn, NEW b \in Builds, StartLine(b)
  PROVE  Fits'
<1>1. log' = log /\ content' = content /\ now' = now /\ seen' = seen
  BY DEF StartLine, files, nodes
<1>2. \A a \in Builds : a # b => build'[a] = build[a]
  BY DEF StartLine, EvidenceInv, TypeInv, BuildsOK
<1>3. BuildFits(b) /\ build[b] \in Build /\ build[b].at = "append" /\ build[b].whole
  BY DEF EvidenceInv, TypeInv, BuildsOK, Fits, StartLine
<1>4. /\ build'[b].at = "rest" /\ build'[b].from = build[b].from
      /\ build'[b].whole = build[b].whole /\ build'[b].read = build[b].read
  BY <1>3 DEF StartLine, EvidenceInv, TypeInv, BuildsOK, Build
<1>5. HasRead["rest"] = HasRead["append"]
  BY DEF HasRead
<1>6. Ahead(b)'
  BY <1>1, <1>3, <1>4, <1>5 DEF BuildFits, BeforeTheLog, Ahead
<1>7. BuildFits(b)'
  BY <1>1, <1>3, <1>4, <1>6 DEF BuildFits, Behind, Covered, Busy, Inside
<1>. QED  BY <1>1, <1>2, <1>7, LogKeepsFitting DEF EvidenceInv

(* The line that is appended is ahead of all lines before it, and no other  *)
(* build is between its reading and its line.                               *)
LEMMA EndLineFits ==
  ASSUME EvidenceInv, TypeInv', MovesOn, NEW b \in Builds, EndLine(b)
  PROVE  Fits'
<1>1. content' = content /\ now' = now /\ seen' = seen
  BY DEF EndLine, files, nodes
<1>2. \A a \in Builds : a # b => build'[a] = build[a]
  BY DEF EndLine, EvidenceInv, TypeInv, BuildsOK
<1>3. /\ BuildFits(b) /\ build[b] \in Build /\ build[b].at = "rest"
      /\ build[b].whole /\ Covered(build[b].from)
  BY DEF EvidenceInv, TypeInv, BuildsOK, Fits, EndLine, BuildFits, Busy, Inside
<1>4. /\ build'[b].at = "insert" /\ build'[b].from = build[b].from
      /\ build'[b].whole = build[b].whole /\ build'[b].read = build[b].read
  BY <1>3 DEF EndLine, EvidenceInv, TypeInv, BuildsOK, Build
<1>5. \A a \in Builds : BuildFits(a)'
  <2>1. BuildFits(b)'
    BY <1>1, <1>3, <1>4 DEF BuildFits, Behind, Covered, Busy, Inside, BeforeTheLog, Files
  <2>2. ASSUME NEW a \in Builds, a # b PROVE BuildFits(a)'
    <3>1. ~ Busy(a)
      BY <1>3, <2>2 DEF EvidenceInv, TypeInv, BuildsOK, Busy, Inside
    <3>2. BuildFits(a) /\ build'[a] = build[a]
      BY <1>2, <2>2 DEF EvidenceInv, Fits
    <3>. QED  BY <1>1, <3>1, <3>2 DEF BuildFits, Behind, Busy, Inside, BeforeTheLog
  <2>. QED  BY <2>1, <2>2
<1>6. CASE tail # "half"
  <2>1. log' = log
    BY <1>6 DEF EndLine, store
  <2>. QED  BY <1>5, <2>1, LinesStay DEF Fits, EvidenceInv
<1>7. CASE tail = "half"
  <2>. DEFINE s == Snapshot(b)
  <2>1. s \in Snapshots /\ s.from = build[b].from /\ s.read = build[b].read
    BY <1>3 DEF Snapshot, Snapshots, Build
  <2>2. log' = Append(log, s) /\ log \in Seq(Snapshots)
    BY <1>7 DEF EndLine, EvidenceInv, TypeInv, StoreOK
  <2>. HIDE DEF s
  <2>3. /\ Len(log') = Len(log) + 1 /\ Len(log) \in Nat
        /\ DOMAIN log' = 1 .. Len(log) + 1 /\ DOMAIN log = 1 .. Len(log)
        /\ log'[Len(log) + 1] = s
        /\ \A i \in DOMAIN log : log'[i] = log[i]
    BY <2>1, <2>2
  <2>4. Behind(s) /\ Covered(s.from)
    BY <1>3, <2>1 DEF BuildFits, Behind
  <2>5. ASSUME NEW i \in DOMAIN log' PROVE LineFits(i)'
    <3>1. CASE i \in DOMAIN log
      <4>1. LineFits(i) /\ log'[i] = log[i]
        BY <2>3, <3>1 DEF EvidenceInv, Fits
      <4>. QED  BY <1>1, <4>1 DEF LineFits, Behind, Covered
    <3>2. CASE i = Len(log) + 1
      BY <1>1, <2>3, <2>4, <3>2 DEF LineFits, Behind, Covered
    <3>. QED  BY <2>3, <3>1, <3>2
  <2>6. Ahead(b) /\ HasRead["rest"] = Files
    BY <1>3 DEF BuildFits, BeforeTheLog, HasRead
  <2>7. ASSUME NEW i \in DOMAIN log', NEW j \in DOMAIN log', i < j
        PROVE  /\ log'[i].from <= log'[j].from
               /\ \A f \in Files : log'[i].read[f] <= log'[j].read[f]
    <3>1. i \in DOMAIN log
      BY <2>3, <2>7
    <3>2. CASE j \in DOMAIN log
      BY <2>3, <2>7, <3>1, <3>2 DEF EvidenceInv, Fits, SnapshotsAreInOrder
    <3>3. CASE j = Len(log) + 1
      BY <1>3, <2>1, <2>3, <2>6, <3>1, <3>3 DEF Ahead
    <3>. QED  BY <2>3, <3>2, <3>3
  <2>8. SnapshotsAreInOrder'
    BY <2>7 DEF SnapshotsAreInOrder
  <2>. QED  BY <1>5, <2>5, <2>8 DEF Fits
<1>. QED  BY <1>6, <1>7

LEMMA EvidenceInit == Init => EvidenceInv
<1>. SUFFICES ASSUME Init PROVE EvidenceInv
  OBVIOUS
<1>1. TypeInv
  BY TypeInvInit
<1>2. Start \in Nat /\ now = Start
  BY BuilderAssumption DEF Start, Init
<1>3. Past
  BY <1>2 DEF Past, Init, Unread, Never, Files
<1>4. \A b \in Builds : build[b] = Resting("idle", 0)
  BY DEF Init, NoBuild, Never
<1>5. ASSUME NEW b \in Builds PROVE BuildFits(b)
  <2>1. Behind(build[b])
    BY <1>1, <1>2, <1>4, NothingIsBehind
  <2>2. build[b].at = "idle"
    BY <1>4 DEF Resting
  <2>. QED  BY <2>1, <2>2 DEF BuildFits, Busy, Inside, Files, BeforeTheLog
<1>6. DOMAIN log = {}
  BY DEF Init
<1>7. SnapshotsAreInOrder /\ \A i \in DOMAIN log : LineFits(i)
  BY <1>6 DEF SnapshotsAreInOrder
<1>8. QuietAtFirst
  BY <1>4 DEF QuietAtFirst, Resting
<1>. QED  BY <1>1, <1>3, <1>5, <1>7, <1>8 DEF EvidenceInv, Fits

LEMMA EvidenceStep == EvidenceInv /\ [Next]_vars => EvidenceInv'
<1>. SUFFICES ASSUME EvidenceInv, [Next]_vars PROVE EvidenceInv'
  OBVIOUS
<1>1. TypeInv' /\ MovesOn /\ Past' /\ QuietAtFirst'
  BY TypeInvStep, TimeMovesOn, QuietStays DEF EvidenceInv
<1>2. Fits'
  <2>1. ASSUME NEW b \in Builds, Step(b) PROVE Fits'
    BY <1>1, <2>1, BeginFits, ReadFits, StartLineFits, EndLineFits, LeavingFits DEF Step
  <2>2. ASSUME NEW c \in Callers, Request(c) PROVE Fits'
    <3>1. CASE Ask(c)
      BY <1>1, <3>1, AskFits
    <3>2. CASE ~ Ask(c)
      <4>1. UNCHANGED <<log, build>>
        BY <2>2, <3>2 DEF Request, Accept, Act, Truncate, Write, GiveUp, store
      <4>. QED  BY <1>1, <4>1, StillFits DEF EvidenceInv
    <3>. QED  BY <3>1, <3>2
  <2>3. CASE Tick \/ LaunchBuilder \/ UNCHANGED vars
    <3>1. UNCHANGED <<log, build>>
      BY <2>3 DEF Tick, LaunchBuilder, vars, store
    <3>. QED  BY <1>1, <3>1, StillFits DEF EvidenceInv
  <2>4. CASE Serve \/ PeriodicWakes
    BY <1>1, <2>4, PeriodicFits
  <2>5. CASE BuilderDies
    BY <1>1, <2>5, DeathFits
  <2>. QED  BY <2>1, <2>2, <2>3, <2>4, <2>5 DEF Next
<1>. QED  BY <1>1, <1>2 DEF EvidenceInv

LEMMA EvidenceAlways == Spec => []EvidenceInv
  BY EvidenceInit, EvidenceStep, PTL DEF Spec

(* A later snapshot in snapshots.jsonl never shows less, whatever builds    *)
(* and writers overlap and whenever a builder dies.                         *)
THEOREM SnapshotsAlwaysInOrder == Spec => []SnapshotsAreInOrder
<1>1. EvidenceInv => SnapshotsAreInOrder
  BY DEF EvidenceInv, Fits
<1>. QED  BY <1>1, EvidenceAlways, PTL

(* What the gateway could find it always can: lines are only appended, and  *)
(* only behind a log that is whole.                                         *)
THEOREM SnapshotsAlwaysFound == Spec => FoundStaysFound
<1>. DEFINE Kept == \A i \in DOMAIN log : i \in DOMAIN log' /\ log'[i] = log[i]
<1>1. ASSUME TypeInv, [Next]_vars PROVE Kept
  <2>1. CASE log' = log
    BY <2>1
  <2>2. ASSUME NEW b \in Builds, EndLine(b), tail = "half" PROVE Kept
    <3>1. PICK s \in Snapshots : log' = Append(log, s)
      BY <1>1, <2>2, SnapshotsOfBuilds DEF EndLine, TypeInv
    <3>2. log \in Seq(Snapshots)
      BY <1>1 DEF TypeInv, StoreOK
    <3>. QED  BY <3>1, <3>2
  <2>3. ASSUME NEW b \in Builds, Step(b) PROVE Kept
    <3>1. CASE EndLine(b) /\ tail = "half"
      BY <2>2, <3>1
    <3>2. CASE ~ (EndLine(b) /\ tail = "half")
      <4>1. log' = log
        BY <2>3, <3>2 DEF Step, Begin, ReadFile, StartLine, EndLine, Insert, Raise, store
      <4>. QED  BY <4>1
    <3>. QED  BY <3>1, <3>2
  <2>4. ASSUME NEW c \in Callers, Request(c) PROVE log' = log
    BY <2>4 DEF Request, Accept, Act, Truncate, Write, Ask, GiveUp, store
  <2>5. CASE Tick \/ LaunchBuilder \/ Serve \/ PeriodicWakes \/ BuilderDies \/ UNCHANGED vars
    BY <2>5 DEF Tick, LaunchBuilder, Serve, PeriodicWakes, BuilderDies, vars, store
  <2>. QED  BY <1>1, <2>1, <2>3, <2>4, <2>5 DEF Next
<1>2. TypeInv /\ [Next]_vars => [Kept]_vars
  BY <1>1
<1>3. Spec => []TypeInv
  BY TypeInvInit, TypeInvStep, PTL DEF Spec
<1>. QED  BY <1>2, <1>3, PTL DEF Spec, FoundStaysFound

(* A request that is accepted found a recent line.                          *)
LEMMA AcceptedOnALine ==
  ASSUME TypeInv, [Next]_vars, NEW c \in Callers, call[c].at # "act", call'[c].at = "act"
  PROVE  UNCHANGED <<now, seen>> /\ \E i \in DOMAIN log : Recent(log[i])
<1>1. call \in [Callers -> Call]
  BY DEF TypeInv, CallsOK
<1>2. CASE UNCHANGED call
  BY <1>2
<1>3. ASSUME NEW b \in Builds, Step(b) PROVE FALSE
  <2>1. CASE UNCHANGED call
    BY <2>1
  <2>2. CASE Insert(b) /\ Waits(b)
    BY <1>1, <2>2 DEF Insert, Waits, NewCall
  <2>3. CASE Raise(b) /\ Waits(b)
    BY <1>1, <2>3 DEF Raise, Waits, NoCall, NewCall
  <2>. QED  BY <1>3, <2>1, <2>2, <2>3 DEF Step, Begin, ReadFile, StartLine, EndLine, Insert, Raise
<1>4. CASE BuilderDies
  BY <1>1, <1>4 DEF BuilderDies, NoCall, NewCall
<1>5. ASSUME NEW d \in Callers, Request(d)
      PROVE  UNCHANGED <<now, seen>> /\ \E i \in DOMAIN log : Recent(log[i])
  <2>1. CASE \E order \in SUBSET Nodes : Accept(d, order)
    BY <2>1 DEF Accept, nodes
  <2>2. CASE Act(d)
    BY <1>1, <2>2 DEF Act, Call
  <2>3. CASE Truncate(d)
    BY <1>1, <2>3 DEF Truncate, Call
  <2>4. CASE Write(d)
    BY <1>1, <2>4 DEF Write, Call
  <2>5. CASE Ask(d)
    BY <1>1, <2>5 DEF Ask, Call
  <2>6. CASE GiveUp(d)
    BY <1>1, <2>6 DEF GiveUp, NoCall, NewCall
  <2>. QED  BY <1>5, <2>1, <2>2, <2>3, <2>4, <2>5, <2>6 DEF Request
<1>6. CASE Tick \/ LaunchBuilder \/ Serve \/ PeriodicWakes \/ UNCHANGED vars
  BY <1>2, <1>6 DEF Tick, LaunchBuilder, Serve, PeriodicWakes, vars
<1>. QED  BY <1>3, <1>4, <1>5, <1>6 DEF Next

(* No action is accepted unless every UPF was sampled within the window and *)
(* the age of a snapshot.                                                   *)
THEOREM ActionsAcceptedOnRecentEvidence == Spec => AcceptedOnRecentEvidence
<1>. DEFINE Accepted(c) == call[c].at # "act" /\ call'[c].at = "act"
            Seen == \A n \in Nodes : now <= seen[n] + Window + MaxAge
<1>1. ASSUME EvidenceInv, [Next]_vars, NEW c \in Callers, Accepted(c) PROVE Seen
  <2>1. PICK i \in DOMAIN log : Recent(log[i])
    BY <1>1, AcceptedOnALine DEF EvidenceInv
  <2>2. log[i].from \in Nat /\ Covered(log[i].from)
    BY <1>1, LogTypes DEF EvidenceInv, Fits, LineFits
  <2>3. /\ now \in Nat /\ Window \in Nat /\ MaxAge \in Nat
        /\ \A n \in Nodes : seen[n] \in Nat
    BY <1>1, BuilderAssumption DEF EvidenceInv, TypeInv, WorldOK
  <2>4. ASSUME NEW n \in Nodes PROVE now <= seen[n] + Window + MaxAge
    <3>1. log[i].from <= seen[n] + Window
      BY <2>2 DEF Covered
    <3>2. now <= log[i].from + MaxAge
      BY <2>1 DEF Recent
    <3>. QED  BY <2>2, <2>3, <3>1, <3>2
  <2>. QED  BY <2>4
<1>2. EvidenceInv /\ [Next]_vars => [\A c \in Callers : Accepted(c) => Seen]_vars
  BY <1>1
<1>. QED  BY <1>2, EvidenceAlways, PTL DEF Spec, AcceptedOnRecentEvidence

-----------------------------------------------------------------------------
(***************************************************************************)
(* Snapshots can be found.  A line is written by the build that holds the   *)
(* lock: half of a line is at the end of snapshots.jsonl exactly while that *)
(* build is in the middle of it, and what it inserts afterwards is a line.  *)
(***************************************************************************)
Lines == {log[i] : i \in DOMAIN log}

Complete ==
  /\ tail # "garbled"
  /\ tail = "half" <=> \E b \in Builds : build[b].at = "rest"
  /\ \A b \in Builds : build[b].at = "insert" => Snapshot(b) \in Lines
  /\ table \subseteq Lines
  /\ \A c \in Callers : call[c].at = "answered" => call[c].answer \in Lines

CompleteInv == kills = 0 => Complete

(* A step that writes no line shows nothing that is not one.                *)
LEMMA SilenceKeepsComplete ==
  ASSUME Complete, UNCHANGED <<log, tail>>, table' \subseteq Lines,
         \A c \in Callers : call'[c].at = "answered" => call'[c].answer \in Lines,
         \A b \in Builds : build[b].at = "rest" \/ build'[b].at \in {"rest", "insert"}
                            => build'[b] = build[b]
  PROVE  Complete'
<1>1. Lines' = Lines
  BY DEF Lines
<1>2. \A b \in Builds : build'[b].at = "rest" <=> build[b].at = "rest"
  OBVIOUS
<1>3. ASSUME NEW b \in Builds, build'[b].at = "insert" PROVE Snapshot(b)' \in Lines
  <2>1. build'[b] = build[b]
    BY <1>3
  <2>. QED  BY <1>3, <2>1 DEF Complete, Snapshot
<1>. QED  BY <1>1, <1>2, <1>3 DEF Complete

LEMMA WritingKeepsComplete ==
  ASSUME TypeInv, Complete, NEW b \in Builds, StartLine(b) \/ EndLine(b)
  PROVE  Complete'
<1>1. /\ \A a \in Builds : a # b => build'[a] = build[a] /\ ~ Busy(a)
      /\ build[b] \in Build
  BY DEF StartLine, EndLine, TypeInv, BuildsOK, Busy, Inside
<1>2. \A a \in Builds : a # b => build'[a].at \notin {"rest", "insert"}
  BY <1>1 DEF Busy, Inside
<1>3. UNCHANGED <<table, call>>
  BY DEF StartLine, EndLine
<1>4. CASE StartLine(b)
  <2>1. build[b].at = "append" /\ build'[b].at = "rest" /\ log' = log
    BY <1>1, <1>4 DEF StartLine, TypeInv, BuildsOK, Build
  <2>2. ~ \E a \in Builds : build[a].at = "rest"
    BY <1>1, <2>1 DEF Busy, Inside
  <2>3. tail = "clean"
    BY <2>2 DEF Complete, TypeInv, StoreOK
  <2>4. tail' = "half"
    BY <1>4, <2>3 DEF StartLine
  <2>5. Lines' = Lines
    BY <2>1 DEF Lines
  <2>. QED  BY <1>2, <1>3, <2>1, <2>4, <2>5 DEF Complete
<1>5. CASE EndLine(b)
  <2>. DEFINE s == Snapshot(b)
  <2>1. build[b].at = "rest" /\ build'[b].at = "insert"
        /\ build'[b].from = build[b].from /\ build'[b].read = build[b].read
    BY <1>1, <1>5 DEF EndLine, TypeInv, BuildsOK, Build
  <2>2. tail = "half"
    BY <2>1 DEF Complete
  <2>3. log' = Append(log, s) /\ tail' = "clean"
    BY <1>5, <2>2 DEF EndLine
  <2>4. s \in Snapshots /\ log \in Seq(Snapshots)
    BY SnapshotsOfBuilds DEF TypeInv, StoreOK
  <2>5. Snapshot(b)' = s
    BY <2>1 DEF Snapshot
  <2>. HIDE DEF s
  <2>6. /\ DOMAIN log \subseteq DOMAIN log' /\ \A i \in DOMAIN log : log'[i] = log[i]
        /\ Len(log) + 1 \in DOMAIN log' /\ log'[Len(log) + 1] = s
    BY <2>3, <2>4
  <2>7. Lines \subseteq Lines' /\ s \in Lines'
    BY <2>6 DEF Lines
  <2>8. ~ \E a \in Builds : build'[a].at = "rest"
    BY <1>2, <2>1
  <2>9. \A a \in Builds : build'[a].at = "insert" => a = b
    BY <1>2
  <2>. QED  BY <1>3, <2>3, <2>5, <2>7, <2>8, <2>9 DEF Complete
<1>. QED  BY <1>4, <1>5

LEMMA LeavingKeepsComplete ==
  ASSUME TypeInv, Complete, NEW b \in Builds, Insert(b) \/ Raise(b)
  PROVE  Complete'
<1>1. UNCHANGED <<log, tail>>
  BY DEF Insert, Raise, store
<1>2. build[b].at # "rest"
  BY DEF Insert, Raise, NothingToDivide, QueryFails, TypeInv, WorldOK, Files
<1>3. build'[b].at \in {"idle", "ended"} /\ \A a \in Builds : a # b => build'[a] = build[a]
  BY DEF Insert, Raise, Leave, Resting, TypeInv, BuildsOK
<1>4. Insert(b) => Snapshot(b) \in Lines
  BY DEF Insert, Complete
<1>5. table' \subseteq Lines
  BY <1>4 DEF Insert, Raise, Complete
<1>6. ASSUME NEW c \in Callers, call'[c].at = "answered" PROVE call'[c].answer \in Lines
  <2>1. call \in [Callers -> Call]
    BY DEF TypeInv, CallsOK
  <2>2. CASE call'[c] = call[c]
    BY <1>6, <2>2 DEF Complete
  <2>3. CASE Raise(b) /\ call'[c] # call[c]
    BY <1>6, <2>1, <2>3 DEF Raise, NoCall, NewCall
  <2>4. CASE Insert(b) /\ call'[c] # call[c]
    <3>1. call' = [call EXCEPT ![b] = NewCall("answered", {}, Snapshot(b))] /\ c = b
      BY <2>1, <2>4 DEF Insert
    <3>2. call'[c].answer = Snapshot(b)
      BY <2>1, <3>1 DEF NewCall
    <3>. QED  BY <1>4, <2>4, <3>2
  <2>. QED  BY <2>2, <2>3, <2>4
<1>. QED  BY <1>1, <1>2, <1>3, <1>5, <1>6, SilenceKeepsComplete

LEMMA ReadingKeepsComplete ==
  ASSUME TypeInv, Complete, NEW b \in Builds, Begin(b) \/ ReadFile(b)
  PROVE  Complete'
<1>1. UNCHANGED <<log, tail, table, call>>
  BY DEF Begin, ReadFile, store
<1>2. /\ build[b].at \in Files \union {"lock"}
      /\ build'[b].at \in Files \union {"append"}
      /\ \A a \in Builds : a # b => build'[a] = build[a]
  <2>1. CASE Begin(b)
    BY <2>1 DEF Begin, TypeInv, BuildsOK, Files
  <2>2. CASE ReadFile(b)
    <3>1. PICK f \in Files :
            /\ build[b].at = f
            /\ build' = [build EXCEPT ![b].at = After[f], ![b].read[f] = content[f]]
      BY <2>2 DEF ReadFile
    <3>2. After[f] \in Files \union {"append"}
      BY DEF After, Files
    <3>3. build'[b].at = After[f] /\ \A a \in Builds : a # b => build'[a] = build[a]
      BY <3>1 DEF TypeInv, BuildsOK, Build
    <3>. QED  BY <3>1, <3>2, <3>3
  <2>. QED  BY <2>1, <2>2
<1>3. \A a \in Builds : build[a].at = "rest" \/ build'[a].at \in {"rest", "insert"}
                        => build'[a] = build[a]
  BY <1>2 DEF Files
<1>. QED  BY <1>1, <1>3, SilenceKeepsComplete DEF Complete

LEMMA RequestKeepsComplete ==
  ASSUME TypeInv, Complete, NEW c \in Callers, Request(c)
  PROVE  Complete'
<1>1. UNCHANGED <<log, tail, table>>
  BY DEF Request, Accept, Act, Truncate, Write, Ask, GiveUp, store
<1>2. call \in [Callers -> Call] /\ call[c] \in Call
  BY DEF TypeInv, CallsOK
<1>3. \A d \in Callers : d # c => call'[d] = call[d]
  BY <1>2 DEF Request, Accept, Act, Truncate, Write, Ask, GiveUp
<1>4. call'[c].at # "answered"
  BY <1>2 DEF Request, Accept, Act, Truncate, Write, Ask, GiveUp, NewCall, NoCall, Call
<1>5. \A a \in Builds : build[a].at = "rest" \/ build'[a].at \in {"rest", "insert"}
                        => build'[a] = build[a]
  <2>1. CASE Ask(c)
    <3>1. /\ build[c].at = "idle" /\ build'[c].at = "lock"
          /\ \A a \in Builds : a # c => build'[a] = build[a]
      BY <2>1, NoneBuilds DEF Ask, TypeInv, BuildsOK, Build
    <3>. QED  BY <3>1
  <2>2. CASE ~ Ask(c)
    BY <2>2 DEF Request, Accept, Act, Truncate, Write, GiveUp
  <2>. QED  BY <2>1, <2>2
<1>6. table' \subseteq Lines
  BY <1>1 DEF Complete
<1>7. ASSUME NEW d \in Callers, call'[d].at = "answered" PROVE call'[d].answer \in Lines
  <2>1. call'[d] = call[d]
    BY <1>3, <1>4, <1>7
  <2>. QED  BY <1>7, <2>1 DEF Complete
<1>. QED  BY <1>1, <1>5, <1>6, <1>7, SilenceKeepsComplete

LEMMA CompleteStep == TypeInv /\ QuietAtFirst /\ CompleteInv /\ [Next]_vars => CompleteInv'
<1>. SUFFICES ASSUME TypeInv, QuietAtFirst, CompleteInv, [Next]_vars, kills' = 0
              PROVE  Complete'
  BY DEF CompleteInv
<1>1. kills = 0 /\ ~ BuilderDies
  <2>1. kills \in Nat
    BY DEF TypeInv, WorldOK
  <2>2. BuilderDies => kills' = kills + 1
    BY DEF BuilderDies
  <2>3. ASSUME NEW b \in Builds, Step(b) PROVE kills' = kills
    BY <2>3 DEF Step, Begin, ReadFile, StartLine, EndLine, Insert, Raise
  <2>4. ASSUME NEW c \in Callers, Request(c) PROVE kills' = kills
    BY <2>4 DEF Request, Accept, Act, Truncate, Write, Ask, GiveUp
  <2>5. Tick \/ LaunchBuilder \/ Serve \/ PeriodicWakes \/ UNCHANGED vars => kills' = kills
    BY DEF Tick, LaunchBuilder, Serve, PeriodicWakes, vars
  <2>. QED  BY <2>1, <2>2, <2>3, <2>4, <2>5 DEF Next
<1>2. Complete
  BY <1>1 DEF CompleteInv
<1>3. CASE \E b \in Builds : Step(b)
  BY <1>2, <1>3, ReadingKeepsComplete, WritingKeepsComplete, LeavingKeepsComplete DEF Step
<1>4. CASE \E c \in Callers : Request(c)
  BY <1>2, <1>4, RequestKeepsComplete
<1>5. CASE Tick \/ LaunchBuilder \/ UNCHANGED vars
  BY <1>2, <1>5, SilenceKeepsComplete DEF Tick, LaunchBuilder, vars, store, Complete
<1>6. CASE Serve \/ PeriodicWakes
  <2>1. UNCHANGED <<log, tail, table, call>>
    BY <1>6 DEF Serve, PeriodicWakes, store
  <2>2. /\ build[periodic].at = "idle" /\ build'[periodic].at \in {"idle", "lock"}
        /\ \A a \in Builds : a # periodic => build'[a] = build[a]
    BY <1>6, NoneBuilds DEF Serve, PeriodicWakes, QuietAtFirst, TypeInv, BuildsOK, Build
  <2>3. \A a \in Builds : build[a].at = "rest" \/ build'[a].at \in {"rest", "insert"}
                          => build'[a] = build[a]
    BY <2>2
  <2>. QED  BY <1>2, <2>1, <2>3, SilenceKeepsComplete DEF Complete
<1>. QED  BY <1>1, <1>3, <1>4, <1>5, <1>6 DEF Next

(* As long as no builder has died, every snapshot that was answered or is   *)
(* in the database is a line of snapshots.jsonl that the gateway reads.     *)
THEOREM AnswersAlwaysFound == Spec => []AnswersCanBeFound
<1>1. ASSUME Init PROVE CompleteInv
  <2>1. \A b \in Builds : build[b].at = "idle"
    BY <1>1 DEF Init, NoBuild, Resting
  <2>2. \A c \in Callers : call[c].at = "idle"
    BY <1>1 DEF Init, NoCall, NewCall
  <2>. QED  BY <1>1, <2>1, <2>2 DEF Init, CompleteInv, Complete
<1>2. CompleteInv => AnswersCanBeFound
  BY DEF CompleteInv, Complete, AnswersCanBeFound, Lines
<1>3. Spec => [](TypeInv /\ QuietAtFirst)
  BY EvidenceAlways, PTL DEF EvidenceInv
<1>. QED  BY <1>1, <1>2, <1>3, CompleteStep, PTL DEF Spec

-----------------------------------------------------------------------------
(***************************************************************************)
(* The answer shows the effect.  A build that a request waits for began     *)
(* after it was asked for, and what it has read of the file that the        *)
(* request wrote is not older than the write.                               *)
(***************************************************************************)
ShownAt(at) == IF at = "insert" THEN Files ELSE HasRead[at]

Follows(c) ==
  LET f == FileOf(call[c].order) IN
  /\ call[c].at \in {"ask", "wait"} => call[c].wrote <= content[f]
  /\ call[c].at = "wait" =>
       /\ call[c].asked <= now
       /\ Busy(c) => /\ call[c].asked <= build[c].from
                     /\ f \in ShownAt(build[c].at) => call[c].wrote <= build[c].read[f]

EffectInv == \A c \in Callers : Follows(c)

LEMMA CallTypes ==
  ASSUME TypeInv, NEW c \in Callers
  PROVE  /\ call[c] \in Call /\ call[c].wrote \in Nat /\ call[c].asked \in Nat
         /\ FileOf(call[c].order) \in Files
         /\ c \in Builds /\ c # periodic /\ build[c] \in Build
  BY NoneBuilds, BuilderAssumption DEF TypeInv, CallsOK, Call, FileOf, Files, BuildsOK

(* A request that does nothing is followed as before; one that no longer    *)
(* waits needs not be.                                                      *)
LEMMA StillFollows ==
  ASSUME TypeInv, TypeInv', MovesOn, NEW c \in Callers, Follows(c), call'[c] = call[c],
         call[c].at = "wait" => build'[c] = build[c]
  PROVE  Follows(c)'
<1>. DEFINE f == FileOf(call[c].order)
<1>1. /\ call[c].wrote \in Nat /\ call[c].asked \in Nat /\ f \in Files
      /\ now \in Nat /\ now' \in Nat /\ content[f] \in Nat /\ content'[f] \in Nat
  BY CallTypes DEF TypeInv, WorldOK, Reads
<1>2. now <= now' /\ content[f] <= content'[f]
  BY <1>1 DEF MovesOn
<1>3. call[c].at \in {"ask", "wait"} => call[c].wrote <= content'[f]
  BY <1>1, <1>2 DEF Follows
<1>4. call[c].at = "wait" => call[c].asked <= now'
  BY <1>1, <1>2 DEF Follows
<1>. QED  BY <1>3, <1>4 DEF Follows, Busy

LEMMA NotAskingFollows ==
  ASSUME NEW c \in Callers, call'[c].at \notin {"ask", "wait"}
  PROVE  Follows(c)'
  BY DEF Follows

LEMMA BuildingFollows ==
  ASSUME TypeInv, TypeInv', MovesOn, EffectInv, NEW b \in Builds, Step(b)
  PROVE  EffectInv'
<1>. SUFFICES ASSUME NEW c \in Callers PROVE Follows(c)'
  BY DEF EffectInv
<1>1. Follows(c)
  BY DEF EffectInv
<1>2. CASE c # b
  <2>1. build'[c] = build[c] /\ call'[c] = call[c]
    BY <1>2, CallTypes DEF Step, Begin, ReadFile, StartLine, EndLine, Insert, Raise, Leave,
       TypeInv, BuildsOK, CallsOK
  <2>. QED  BY <1>1, <2>1, StillFollows
<1>3. CASE c = b /\ (Insert(b) \/ Raise(b))
  <2>1. call'[c].at \notin {"ask", "wait"} \/ (call' = call /\ call[c].at # "wait")
    BY <1>3, CallTypes DEF Insert, Raise, Waits, NewCall, NoCall, TypeInv, CallsOK
  <2>. QED  BY <1>1, <2>1, StillFollows, NotAskingFollows
<1>. DEFINE f == FileOf(call[c].order)
<1>4. /\ call[c].asked \in Nat /\ call[c].wrote \in Nat /\ f \in Files
      /\ build[c] \in Build /\ build \in [Builds -> Build]
  BY CallTypes DEF TypeInv, BuildsOK
<1>5. ASSUME c = b, UNCHANGED <<call, content, now>>,
             Busy(c)' => /\ call[c].at = "wait" => call[c].asked <= build'[c].from
                         /\ call[c].at = "wait" /\ f \in ShownAt(build'[c].at) =>
                              call[c].wrote <= build'[c].read[f]
      PROVE  Follows(c)'
  BY <1>1, <1>5 DEF Follows
<1>6. CASE c = b /\ Begin(b)
  <2>1. build'[c].at = "sessions" /\ build'[c].from = now /\ UNCHANGED <<call, content, now>>
    BY <1>4, <1>6 DEF Begin, files
  <2>2. ShownAt("sessions") = {}
    BY DEF ShownAt, HasRead
  <2>. QED  BY <1>1, <1>5, <1>6, <2>1, <2>2 DEF Follows
<1>7. CASE c = b /\ ReadFile(b)
  <2>1. PICK g \in Files \ torn :
          /\ build[b].at = g
          /\ build' = [build EXCEPT ![b].at = After[g], ![b].read[g] = content[g]]
    BY <1>7 DEF ReadFile
  <2>2. UNCHANGED <<call, content, now>>
    BY <1>7 DEF ReadFile, files
  <2>3. /\ build'[c].at = After[g] /\ build'[c].from = build[c].from
        /\ \A h \in Files : build'[c].read[h] = IF h = g THEN content[g] ELSE build[c].read[h]
    BY <1>4, <1>7, <2>1 DEF Build, Reads
  <2>4. ShownAt(After[g]) = ShownAt(g) \union {g}
    BY DEF ShownAt, HasRead, After, Files
  <2>5. Busy(c)
    BY <1>7, <2>1 DEF Busy, Inside
  <2>. HIDE DEF f
  <2>6. CASE f = g
    BY <1>1, <1>4, <1>5, <1>7, <2>2, <2>3, <2>5, <2>6 DEF Follows, f
  <2>7. CASE f # g
    <3>1. f \in ShownAt(build'[c].at) => f \in ShownAt(build[c].at)
      BY <1>7, <2>1, <2>3, <2>4, <2>7
    <3>2. build'[c].read[f] = build[c].read[f]
      BY <1>4, <2>3, <2>7
    <3>. QED  BY <1>1, <1>5, <1>7, <2>2, <2>3, <2>5, <3>1, <3>2 DEF Follows, f
  <2>. QED  BY <2>6, <2>7
<1>8. CASE c = b /\ (StartLine(b) \/ EndLine(b))
  <2>1. /\ build'[c].at \in {"rest", "insert"} /\ build'[c].from = build[c].from
        /\ build'[c].read = build[c].read /\ build[c].at \in {"append", "rest"}
        /\ UNCHANGED <<call, content, now>>
    BY <1>4, <1>8 DEF StartLine, EndLine, Build, files
  <2>2. ShownAt(build[c].at) = Files
    BY <2>1 DEF ShownAt, HasRead
  <2>3. Busy(c)
    BY <2>1 DEF Busy, Inside
  <2>. QED  BY <1>1, <1>4, <1>5, <1>8, <2>1, <2>2, <2>3 DEF Follows
<1>. QED  BY <1>2, <1>3, <1>6, <1>7, <1>8 DEF Step

LEMMA RequestFollows ==
  ASSUME TypeInv, TypeInv', MovesOn, EffectInv, NEW d \in Callers, Request(d)
  PROVE  EffectInv'
<1>. SUFFICES ASSUME NEW c \in Callers PROVE Follows(c)'
  BY DEF EffectInv
<1>1. Follows(c)
  BY DEF EffectInv
<1>2. call \in [Callers -> Call] /\ build \in [Builds -> Build] /\ d \in Builds
  BY NoneBuilds DEF TypeInv, CallsOK, BuildsOK
<1>3. CASE c # d
  <2>1. call'[c] = call[c]
    BY <1>2, <1>3 DEF Request, Accept, Act, Truncate, Write, Ask, GiveUp
  <2>2. c \in Builds
    BY NoneBuilds
  <2>3. build' = build \/ build' = [build EXCEPT ![d].at = "lock"]
    BY DEF Request, Accept, Act, Truncate, Write, Ask, GiveUp
  <2>4. build'[c] = build[c]
    BY <1>2, <1>3, <2>2, <2>3
  <2>. QED  BY <1>1, <2>1, <2>4, StillFollows
<1>4. CASE c = d /\ ~ Write(d) /\ ~ Ask(d)
  <2>1. call'[c].at \in {"act", "truncate", "write", "idle"}
    BY <1>2, <1>4 DEF Request, Accept, Act, Truncate, GiveUp, NewCall, NoCall, Call
  <2>. QED  BY <2>1, NotAskingFollows
<1>. DEFINE f == FileOf(call[c].order)
<1>5. f \in Files /\ now \in Nat /\ call[c] \in Call
  BY CallTypes DEF TypeInv, WorldOK
<1>6. CASE c = d /\ Write(d)
  <2>1. /\ call'[c].at = "ask" /\ call'[c].wrote = now /\ call'[c].order = call[c].order
    BY <1>2, <1>6 DEF Write, Call
  <2>2. content' = [content EXCEPT ![f] = now]
    BY <1>6 DEF Write
  <2>3. content'[f] = now
    BY <1>5, <2>2 DEF TypeInv, WorldOK, Reads
  <2>. QED  BY <1>5, <2>1, <2>3 DEF Follows
<1>7. CASE c = d /\ Ask(d)
  <2>1. /\ call'[c].at = "wait" /\ call'[c].asked = now
        /\ call'[c].wrote = call[c].wrote /\ call'[c].order = call[c].order
        /\ call[c].at = "ask" /\ UNCHANGED <<now, content>>
    BY <1>2, <1>7 DEF Ask, Call, files
  <2>2. build'[c].at = "lock"
    BY <1>2, <1>7 DEF Ask, Build
  <2>3. ~ Busy(c)'
    BY <2>2 DEF Busy, Inside, Files
  <2>. QED  BY <1>1, <1>5, <2>1, <2>3 DEF Follows
<1>. QED  BY <1>3, <1>4, <1>6, <1>7

LEMMA EffectStep == EvidenceInv /\ EffectInv /\ [Next]_vars => EffectInv'
<1>. SUFFICES ASSUME EvidenceInv, EffectInv, [Next]_vars PROVE EffectInv'
  OBVIOUS
<1>1. TypeInv /\ TypeInv' /\ MovesOn
  BY TypeInvStep, TimeMovesOn DEF EvidenceInv
<1>2. CASE Tick \/ LaunchBuilder \/ Serve \/ PeriodicWakes \/ UNCHANGED vars
  <2>. SUFFICES ASSUME NEW c \in Callers PROVE Follows(c)'
    BY DEF EffectInv
  <2>1. call' = call
    BY <1>2 DEF Tick, LaunchBuilder, Serve, PeriodicWakes, vars
  <2>2. build'[c] = build[c]
    BY <1>1, <1>2, CallTypes DEF Tick, LaunchBuilder, Serve, PeriodicWakes, vars,
       TypeInv, BuildsOK
  <2>. QED  BY <1>1, <2>1, <2>2, StillFollows DEF EffectInv
<1>3. CASE BuilderDies
  <2>. SUFFICES ASSUME NEW c \in Callers PROVE Follows(c)'
    BY DEF EffectInv
  <2>1. CASE call[c].at = "wait"
    <3>1. call'[c].at = "idle"
      BY <1>3, <2>1 DEF BuilderDies, Waits, NoCall, NewCall
    <3>. QED  BY <3>1, NotAskingFollows
  <2>2. CASE call[c].at # "wait"
    <3>1. call'[c] = call[c]
      BY <1>3, <2>2 DEF BuilderDies, Waits
    <3>. QED  BY <1>1, <2>2, <3>1, StillFollows DEF EffectInv
  <2>. QED  BY <2>1, <2>2
<1>. QED  BY <1>1, <1>2, <1>3, BuildingFollows, RequestFollows DEF Next

(* Only the end of the build that a request has asked for answers it.       *)
LEMMA AnsweredByInsert ==
  ASSUME TypeInv, [Next]_vars, NEW c \in Callers, call[c].at = "wait",
         call'[c].at = "answered"
  PROVE  Insert(c) /\ call'[c].answer = Snapshot(c)
<1>1. call \in [Callers -> Call] /\ call'[c] # call[c]
  BY DEF TypeInv, CallsOK
<1>2. ASSUME NEW b \in Builds, Step(b) PROVE Insert(c) /\ call'[c].answer = Snapshot(c)
  <2>1. CASE Insert(b)
    <3>1. /\ call' = [call EXCEPT ![b] = NewCall("answered", {}, Snapshot(b))] /\ c = b
      BY <1>1, <2>1 DEF Insert
    <3>2. call'[c] = NewCall("answered", {}, Snapshot(c))
      BY <1>1, <3>1
    <3>. QED  BY <2>1, <3>1, <3>2 DEF NewCall
  <2>2. CASE Raise(b)
    <3>1. call' = [call EXCEPT ![b] = NoCall]
      BY <1>1, <2>2 DEF Raise
    <3>. QED  BY <1>1, <3>1 DEF NoCall, NewCall
  <2>. QED  BY <1>1, <1>2, <2>1, <2>2 DEF Step, Begin, ReadFile, StartLine, EndLine
<1>3. CASE BuilderDies
  BY <1>1, <1>3 DEF BuilderDies, NoCall, NewCall
<1>4. ASSUME NEW d \in Callers, Request(d) PROVE FALSE
  <2>1. c = d
    BY <1>1, <1>4 DEF Request, Accept, Act, Truncate, Write, Ask, GiveUp
  <2>. QED  BY <1>1, <1>4, <2>1 DEF Request, Accept, Act, Truncate, Write, Ask, GiveUp,
              NewCall, NoCall, Done, Call
<1>5. CASE Tick \/ LaunchBuilder \/ Serve \/ PeriodicWakes \/ UNCHANGED vars
  BY <1>1, <1>5 DEF Tick, LaunchBuilder, Serve, PeriodicWakes, vars
<1>. QED  BY <1>2, <1>3, <1>4, <1>5 DEF Next

(* The snapshot an action is answered with shows what the action wrote, and *)
(* its window ends after the action did: also when an earlier build of the  *)
(* same caller, or the periodic one, ends while it waits.                   *)
THEOREM AnswersAlwaysShowTheEffect == Spec => AnswerShowsTheEffect
<1>. DEFINE Answers(c) == call[c].at = "wait" /\ call'[c].at = "answered"
            Shows(c) == /\ call[c].asked <= call'[c].answer.from
                        /\ call[c].wrote <= call'[c].answer.read[FileOf(call[c].order)]
<1>1. ASSUME TypeInv, EffectInv, [Next]_vars, NEW c \in Callers, Answers(c) PROVE Shows(c)
  <2>1. Insert(c) /\ call'[c].answer = Snapshot(c)
    BY <1>1, AnsweredByInsert
  <2>2. build[c].at = "insert" /\ Busy(c)
    BY <2>1 DEF Insert, Busy, Inside
  <2>3. FileOf(call[c].order) \in ShownAt(build[c].at)
    BY <1>1, <2>2, CallTypes DEF ShownAt
  <2>4. call'[c].answer.from = build[c].from /\ call'[c].answer.read = build[c].read
    BY <2>1 DEF Snapshot
  <2>. QED  BY <1>1, <2>2, <2>3, <2>4 DEF EffectInv, Follows
<1>2. TypeInv /\ EffectInv /\ [Next]_vars => [\A c \in Callers : Answers(c) => Shows(c)]_vars
  BY <1>1
<1>3. ASSUME Init PROVE EffectInv
  <2>1. \A c \in Callers : call[c].at = "idle"
    BY <1>3 DEF Init, NoCall, NewCall
  <2>. QED  BY <2>1 DEF EffectInv, Follows
<1>4. Spec => [](TypeInv /\ EffectInv)
  BY <1>3, EffectStep, EvidenceAlways, PTL DEF Spec, EvidenceInv
<1>. QED  BY <1>2, <1>4, PTL DEF Spec, AnswerShowsTheEffect
===============================================================================

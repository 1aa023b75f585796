---------------------------- MODULE SnapshotBuilder ---------------------------
(***************************************************************************)
(* The snapshots (telemetry/snapshot_builder.py, snapshot_writer.py) and    *)
(* the gateway that acts on them (gateway/action_arbiter.py, executor.py).  *)
(*                                                                         *)
(* A snapshot joins what Prometheus holds of the last Window with three     *)
(* files that other processes write.  A periodic task and the requests of   *)
(* the gateway build snapshots under one lock; each is appended to          *)
(* snapshots.jsonl, inserted into a database and answered.  An action is    *)
(* accepted on a snapshot that can be found in snapshots.jsonl and is not   *)
(* older than MaxAge; it ends with a snapshot of its effect.                *)
(*                                                                         *)
(* Time is a clock that ticks; a file is the time of its last write.  A     *)
(* gateway request is reduced to what touches snapshots: containers it      *)
(* stops or starts, the file it rewrites, and the snapshot after it.        *)
(***************************************************************************)
EXTENDS Naturals, Sequences

CONSTANTS
  Nodes,        \* the UPF containers
  Callers,      \* threads of the gateway that serve an action
  periodic,     \* the periodic task of the builder
  Window,       \* how far back a sample may lie that a snapshot uses
  MaxAge,       \* action_timeout_seconds
  Faulty,       \* may Prometheus or the database fail?
  MaxTime,      \* bound: the clock
  MaxRequests,  \* bound: requests in a behaviour
  MaxKills      \* bound: deaths of the builder

VARIABLES
  now,       \* the clock
  content,   \* when each file was last written
  torn,      \* the files that cannot be read: truncated, or written over one another
  up,        \* the containers that run
  seen,      \* when Prometheus last had a sample of each container
  builder,   \* the process of the builder
  lock,      \* build_lock: its holder
  build,     \* the builds
  log,       \* the lines of snapshots.jsonl up to the first broken one
  tail,      \* what follows them
  table,     \* network_graph_snapshot
  call,      \* the requests
  requests, kills

ASSUME BuilderAssumption ==
  /\ periodic \notin Callers /\ "none" \notin Callers \union {periodic}
  /\ Window \in Nat /\ MaxAge \in Nat /\ MaxTime \in Nat /\ Faulty \in BOOLEAN
  /\ MaxRequests \in Nat /\ MaxKills \in Nat

files == <<content, torn>>
nodes == <<up, seen>>
store == <<log, tail>>
vars == <<now, files, nodes, builder, lock, build, store, table, call, requests, kills>>

Files == {"sessions", "allocations", "catalog"}
Builds == Callers \union {periodic}
Unread == [f \in Files |-> 0]

(* Before the first tick; no sample lies within Window of a later time.     *)
Start == Window + 1
Never == 0

(* A build reads the files in this order.                                   *)
After == [sessions |-> "allocations", allocations |-> "catalog", catalog |-> "append"]
Inside == Files \union {"append", "rest", "insert"}
Resting(at, from) == [at |-> at, from |-> from, whole |-> FALSE, read |-> Unread]
NoBuild == Resting("idle", Never)
Snapshot(b) == [from |-> build[b].from, read |-> build[b].read]

NewCall(at, order, answer) ==
  [at |-> at, order |-> order, wrote |-> 0, asked |-> 0, answer |-> answer]
NoAnswer == [from |-> Never, read |-> Unread]
NoCall == NewCall("idle", {}, NoAnswer)
Done == {"idle", "answered"}

(* An action on a slice stops or starts its UPFs and rewrites the catalog;  *)
(* a policy action touches no UPF and rewrites the allocations.             *)
FileOf(order) == IF order = {} THEN "allocations" ELSE "catalog"

(* The telemetry, and the file of the session tracker, may be left from an  *)
(* earlier bring-up.                                                        *)
Init ==
  /\ now = Start
  /\ content \in {Unread, [Unread EXCEPT !.sessions = Start]} /\ torn = {}
  /\ up = Nodes /\ seen \in [Nodes -> {Never, Start}]
  /\ builder = "down" /\ lock = "none"
  /\ build = [b \in Builds |-> NoBuild]
  /\ log = <<>> /\ tail = "clean" /\ table = {}
  /\ call = [c \in Callers |-> NoCall]
  /\ requests = 0 /\ kills = 0

-----------------------------------------------------------------------------
(***************************************************************************)
(* The surroundings.                                                       *)
(***************************************************************************)
(* A second passes.  cAdvisor may have reported the containers that run, and *)
(* the session tracker may have replaced its file, once each.               *)
Tick ==
  /\ now < MaxTime
  /\ now' = now + 1
  /\ seen' \in {seen, [n \in Nodes |-> IF n \in up THEN now' ELSE seen[n]]}
  /\ content' \in {content, [content EXCEPT !.sessions = now']}
  /\ UNCHANGED <<torn, up, builder, lock, build, store, table, call, requests, kills>>

-----------------------------------------------------------------------------
(***************************************************************************)
(* The builder.                                                            *)
(***************************************************************************)
LaunchBuilder ==
  /\ builder = "down"
  /\ builder' = "waiting"
  /\ UNCHANGED <<now, files, nodes, lock, build, store, table, call, requests, kills>>

(* Requests are served, and the periodic task begins to sleep, once there   *)
(* are sessions.                                                            *)
Serve ==
  /\ builder = "waiting" /\ content["sessions"] # 0
  /\ builder' = "serving"
  /\ build' = [build EXCEPT ![periodic].from = now]
  /\ UNCHANGED <<now, files, nodes, lock, store, table, call, requests, kills>>

PeriodicWakes ==
  /\ builder = "serving"
  /\ build[periodic].at = "idle" /\ build[periodic].from < now
  /\ build' = [build EXCEPT ![periodic].at = "lock"]
  /\ UNCHANGED <<now, files, nodes, builder, lock, store, table, call, requests, kills>>

(* Does the window that ends now hold a sample of every container?          *)
Sampled == \A n \in Nodes : now <= seen[n] + Window

(* Mutant: the lock does not exclude.                                       *)
BeginAnyway(b) ==
  /\ build[b].at = "lock"
  /\ lock' = b
  /\ build' = [build EXCEPT ![b] =
                 [at |-> "sessions", from |-> now, read |-> Unread,
                  whole |-> Sampled]]
  /\ UNCHANGED <<now, files, nodes, builder, store, table, call, requests, kills>>

(* The window ends when the lock is taken: a sample of a container that     *)
(* comes later is no part of it.                                            *)
Begin(b) ==
  /\ build[b].at = "lock" /\ lock = "none"
  /\ lock' = b
  /\ build' = [build EXCEPT ![b] =
                 [at |-> "sessions", from |-> now, read |-> Unread,
                  whole |-> Sampled]]
  /\ UNCHANGED <<now, files, nodes, builder, store, table, call, requests, kills>>

(* Mutant: the lock covers the reading only.                                *)
ReadAndRelease(b) ==
  \E f \in Files \ torn :
    /\ build[b].at = f
    /\ lock' = IF After[f] = "append" THEN "none" ELSE lock
    /\ build' = [build EXCEPT ![b].at = After[f], ![b].read[f] = content[f]]
    /\ UNCHANGED <<now, files, nodes, builder, store, table, call, requests, kills>>

ReadFile(b) ==
  \E f \in Files \ torn :
    /\ build[b].at = f
    /\ build' = [build EXCEPT ![b].at = After[f], ![b].read[f] = content[f]]
    /\ UNCHANGED <<now, files, nodes, builder, lock, store, table, call, requests, kills>>

(* A line that is started behind the half of another never can be read.     *)
StartLine(b) ==
  /\ build[b].at = "append" /\ build[b].whole
  /\ tail' = IF tail = "clean" THEN "half" ELSE "garbled"
  /\ build' = [build EXCEPT ![b].at = "rest"]
  /\ UNCHANGED <<now, files, nodes, builder, lock, log, table, call, requests, kills>>

(* Mutant: snapshots.jsonl is opened to be written anew.                    *)
EndOnlyLine(b) ==
  /\ build[b].at = "rest"
  /\ IF tail = "half"
       THEN log' = <<Snapshot(b)>> /\ tail' = "clean"
       ELSE UNCHANGED store
  /\ build' = [build EXCEPT ![b].at = "insert"]
  /\ UNCHANGED <<now, files, nodes, builder, lock, table, call, requests, kills>>

EndLine(b) ==
  /\ build[b].at = "rest"
  /\ IF tail = "half"
       THEN log' = Append(log, Snapshot(b)) /\ tail' = "clean"
       ELSE UNCHANGED store
  /\ build' = [build EXCEPT ![b].at = "insert"]
  /\ UNCHANGED <<now, files, nodes, builder, lock, table, call, requests, kills>>

(* Mutant: the lock is not released when the build raises.                  *)
LeaveLocked(b, at) ==
  /\ lock' = IF at = "ended" THEN lock ELSE "none"
  /\ build' = [build EXCEPT ![b] =
                 Resting(at, IF b = periodic THEN build[b].from ELSE Never)]

(* The end of a build: the lock is released; an exception ends the periodic *)
(* task for good.                                                           *)
Leave(b, at) ==
  /\ lock' = "none"
  /\ build' = [build EXCEPT ![b] =
                 Resting(at, IF b = periodic THEN build[b].from ELSE Never)]

Waits(b) == b \in Callers /\ call[b].at = "wait"

(* Mutant: everyone who waits is answered with the snapshot just built.     *)
InsertForAll(b) ==
  /\ build[b].at = "insert"
  /\ table' = table \union {Snapshot(b)}
  /\ Leave(b, "idle")
  /\ call' = [c \in Callers |-> IF Waits(c)
                THEN NewCall("answered", {}, Snapshot(b))
                ELSE call[c]]
  /\ UNCHANGED <<now, files, nodes, builder, store, requests, kills>>

Insert(b) ==
  /\ build[b].at = "insert"
  /\ table' = table \union {Snapshot(b)}
  /\ Leave(b, "idle")
  /\ call' = IF Waits(b)
               THEN [call EXCEPT ![b] = NewCall("answered", {}, Snapshot(b))]
               ELSE call
  /\ UNCHANGED <<now, files, nodes, builder, store, requests, kills>>

(* A query for a flow, a UE or a container may fail; one that finds nothing *)
(* of a flow or UE leaves a gap in the snapshot.                            *)
QueryFails(b) == build[b].at = "append" /\ Faulty

(* The use of a container is divided by its limit: without a sample there   *)
(* is nothing to divide.                                                    *)
NothingToDivide(b) == build[b].at = "append" /\ ~ build[b].whole

Raise(b) ==
  /\ \/ build[b].at \in torn
     \/ NothingToDivide(b)
     \/ QueryFails(b)
     \/ build[b].at = "insert" /\ Faulty
  /\ Leave(b, IF b = periodic THEN "ended" ELSE "idle")
  /\ call' = IF Waits(b) THEN [call EXCEPT ![b] = NoCall] ELSE call
  /\ UNCHANGED <<now, files, nodes, builder, store, table, requests, kills>>

(* A builder that dies in the middle of a line leaves its half.  It is not  *)
(* restarted but by the next bring-up.                                      *)
BuilderDies ==
  /\ kills < MaxKills /\ builder # "down"
  /\ kills' = kills + 1
  /\ builder' = "down" /\ lock' = "none"
  /\ build' = [b \in Builds |-> NoBuild]
  /\ call' = [c \in Callers |-> IF Waits(c) THEN NoCall ELSE call[c]]
  /\ UNCHANGED <<now, files, nodes, store, table, requests>>

-----------------------------------------------------------------------------
(***************************************************************************)
(* The gateway.                                                            *)
(***************************************************************************)
(* Slice actions share one lock.                                            *)
CatalogIsFree == \A c \in Callers : call[c].at \in Done \/ call[c].order = {}

(* Mutant: the age of the snapshot is not checked.                          *)
AnyAge(s) == s.from <= now

Recent(s) == now <= s.from + MaxAge

Accept(c, order) ==
  /\ requests < MaxRequests /\ call[c].at \in Done
  /\ order # {} => CatalogIsFree
  /\ order \subseteq up \/ order \intersect up = {}
  /\ \E i \in DOMAIN log : Recent(log[i])
  /\ requests' = requests + 1
  /\ call' = [call EXCEPT ![c] = NewCall("act", order, NoAnswer)]
  /\ UNCHANGED <<now, files, nodes, builder, lock, build, store, table, kills>>

(* The file is read, which fails when it is truncated or garbled, and the   *)
(* containers are changed.                                                  *)
Act(c) ==
  /\ call[c].at = "act" /\ FileOf(call[c].order) \notin torn
  /\ up' = (up \ call[c].order) \union (call[c].order \ up)
  /\ call' = [call EXCEPT ![c].at = "truncate"]
  /\ UNCHANGED <<now, files, seen, builder, lock, build, store, table, requests, kills>>

Truncate(c) ==
  /\ call[c].at = "truncate"
  /\ torn' = torn \union {FileOf(call[c].order)}
  /\ call' = [call EXCEPT ![c].at = "write"]
  /\ UNCHANGED <<now, content, nodes, builder, lock, build, store, table, requests, kills>>

(* Written over the text of another request, a shorter text keeps the end   *)
(* of it, and the file cannot be read.                                      *)
Write(c) ==
  LET f == FileOf(call[c].order) IN
  /\ call[c].at = "write"
  /\ content' = [content EXCEPT ![f] = now]
  /\ torn' \in {torn \ {f}, (torn \ {f}) \union ({f} \ torn)}
  /\ call' = [call EXCEPT ![c].at = "ask", ![c].wrote = now]
  /\ UNCHANGED <<now, nodes, builder, lock, build, store, table, requests, kills>>

Ask(c) ==
  /\ call[c].at = "ask" /\ builder = "serving" /\ build[c].at = "idle"
  /\ call' = [call EXCEPT ![c].at = "wait", ![c].asked = now]
  /\ build' = [build EXCEPT ![c].at = "lock"]
  /\ UNCHANGED <<now, files, nodes, builder, lock, store, table, requests, kills>>

(* A file that cannot be read, a builder that refuses, or a time-out: the build     *)
(* that was asked for goes on.                                              *)
GiveUp(c) ==
  /\ \/ call[c].at = "act" /\ FileOf(call[c].order) \in torn
     \/ call[c].at = "ask" /\ builder # "serving"
     \/ call[c].at = "wait" /\ now > call[c].asked + MaxAge
  /\ call' = [call EXCEPT ![c] = NoCall]
  /\ UNCHANGED <<now, files, nodes, builder, lock, build, store, table, requests, kills>>

-----------------------------------------------------------------------------
Step(b) ==
  \/ Begin(b) \/ ReadFile(b) \/ StartLine(b) \/ EndLine(b)
  \/ Insert(b) \/ Raise(b)

Request(c) ==
  \/ \E order \in SUBSET Nodes : Accept(c, order)
  \/ Act(c) \/ Truncate(c) \/ Write(c) \/ Ask(c) \/ GiveUp(c)

Next ==
  \/ Tick
  \/ LaunchBuilder \/ Serve \/ PeriodicWakes \/ BuilderDies
  \/ \E b \in Builds : Step(b)
  \/ \E c \in Callers : Request(c)

Spec == Init /\ [][Next]_vars

-----------------------------------------------------------------------------
(***************************************************************************)
(* Properties.                                                             *)
(***************************************************************************)
Reads == [Files -> Nat]
Snapshots == [from : Nat, read : Reads]
Build == [at : Inside \union {"idle", "lock", "ended"}, from : Nat, whole : BOOLEAN, read : Reads]
Call == [at : Done \union {"act", "truncate", "write", "ask", "wait"},
         order : SUBSET Nodes, wrote : Nat, asked : Nat, answer : Snapshots]

(* Every variable holds a value of its kind, and a build is under way       *)
(* exactly when it holds the lock.                                          *)
TypeOK ==
  /\ now \in Nat /\ content \in Reads /\ torn \subseteq Files
  /\ up \subseteq Nodes /\ seen \in [Nodes -> Nat]
  /\ builder \in {"down", "waiting", "serving"}
  /\ lock \in Builds \union {"none"}
  /\ build \in [Builds -> Build]
  /\ \A b \in Builds : build[b].at \in Inside <=> lock = b
  /\ log \in Seq(Snapshots) /\ tail \in {"clean", "half", "garbled"}
  /\ table \subseteq Snapshots
  /\ call \in [Callers -> Call]
  /\ requests \in Nat /\ kills \in Nat

(* A later snapshot in snapshots.jsonl never shows less: neither an earlier *)
(* window nor an earlier state of a file.                                   *)
SnapshotsAreInOrder ==
  \A i, j \in DOMAIN log : i < j =>
    /\ log[i].from <= log[j].from
    /\ \A f \in Files : log[i].read[f] <= log[j].read[f]

(* The snapshot an action is answered with shows what the action wrote, and *)
(* its window ends after the action did.                                    *)
AnswerShowsTheEffect ==
  [][\A c \in Callers : call[c].at = "wait" /\ call'[c].at = "answered" =>
       /\ call[c].asked <= call'[c].answer.from
       /\ call[c].wrote <= call'[c].answer.read[FileOf(call[c].order)]]_vars

(* As long as no builder has died, every snapshot that was answered or is   *)
(* in the database can be found by the gateway, whatever builds overlap.    *)
AnswersCanBeFound ==
  kills = 0 =>
    /\ tail # "garbled"
    /\ \A s \in table \union {call[c].answer : c \in {d \in Callers : call[d].at = "answered"}} :
         \E i \in DOMAIN log : log[i] = s

(* What the gateway could find it always can, also after a builder died in  *)
(* the middle of a line.                                                    *)
FoundStaysFound == [][\A i \in DOMAIN log : i \in DOMAIN log' /\ log'[i] = log[i]]_vars

(* No action is accepted unless every UPF was sampled within the window and *)
(* the age of a snapshot: what was stopped for longer stops all actions.    *)
AcceptedOnRecentEvidence ==
  [][\A c \in Callers : call[c].at # "act" /\ call'[c].at = "act" =>
       \A n \in Nodes : now <= seen[n] + Window + MaxAge]_vars
===============================================================================

----------------------------- MODULE SliceCatalog -----------------------------
(***************************************************************************)
(* The slices of one run and the UPF containers that carry them.            *)
(*                                                                         *)
(* Requests of the action gateway (gateway/api.py, gateway/executor.py,     *)
(* gateway/slice_manager.py) each run in a thread of their own and take a   *)
(* TargetLock (state/lock_store.py): a file that its holder creates and     *)
(* removes.  Slice actions take slice-catalog, actions on a container its   *)
(* own lock.  Beside them one launcher at a time                            *)
(* (orchestration/launcher.py) starts, resumes, stops or resets the run     *)
(* without a lock; which of these the run's phase admits is the subject of  *)
(* RunLifecycle.                                                            *)
(*                                                                         *)
(* A step is one docker call with the check of its result, one wait, one    *)
(* read, append, truncation or write of a catalog file.                     *)
(***************************************************************************)
EXTENDS SliceState, FiniteSets

CONSTANTS
  Upfs, UEs,
  Sessions,       \* the PDU sessions: records [ue, slice, upf]
  Requests,       \* threads of the gateway that serve a request
  Overlapping,    \* may the launcher run while requests are served?
  MaxRequests,    \* bound: requests accepted in a behaviour
  MaxLaunches,    \* bound: launcher commands in a behaviour
  MaxCrashes      \* bound: gateway deaths, killed launchers, host restarts

CatalogLock == "slice-catalog"

ASSUME SessionsAreBound ==
  Sessions \subseteq [ue : UEs, slice : Slices, upf : Upfs] /\ UEs # {}
(* validate_scenario: every slice has a session, no UPF serves two slices.  *)
ASSUME SlicesAreServed == \A s \in Slices : \E x \in Sessions : x.slice = s
ASSUME UpfsAreExclusive ==
  \A x, y \in Sessions : x.upf = y.upf => x.slice = y.slice
ASSUME LockNamesDiffer == CatalogLock \notin Upfs
ASSUME SwitchesAreBoolean == Overlapping \in BOOLEAN
ASSUME BoundsAreNatural ==
  MaxRequests \in Nat /\ MaxLaunches \in Nat /\ MaxCrashes \in Nat

VARIABLES
  catalog,   \* slice-state.json
  empty,     \* is slice-state.json truncated and not yet written?
  logged,    \* the last line of slice-state.jsonl
  locks,     \* the lock files that exist
  upf,       \* what docker says of each UPF container
  attached,  \* the sessions set up through the UPF process now running
  gateway,   \* does the gateway run?
  req, launch,
  faulty,    \* is this a host where docker calls and waits may fail?
  requests, launches, crashes

files == <<catalog, empty, logged>>
counters == <<requests, launches, crashes, faulty>>
vars == <<files, locks, upf, attached, gateway, req, launch, counters>>

-----------------------------------------------------------------------------
(* Mutant: the UPFs of every session of the slice's UEs.                    *)
UpfsOfItsUEs(s) ==
  {x.upf : x \in {y \in Sessions :
                    \E z \in Sessions : z.slice = s /\ z.ue = y.ue}}

(* slice_bindings: the UPFs of the slice's sessions.                        *)
UpfsOf(s) == {x.upf : x \in {y \in Sessions : y.slice = s}}

Through(u)  == {x \in Sessions : x.upf = u}
OfUE(e)     == {x \in Sessions : x.ue = e}
OfSlice(s)  == {x \in Sessions : x.slice = s}
Reachable   == {x \in Sessions : upf[x.upf] = "running"}

ContainerState == {"absent", "stopped", "running"}

SliceActions == {"create_slice", "start_slice", "stop_slice", "delete_slice"}
Kinds == SliceActions
  \union {"restart_container", "update_container_resources",
           "update_slice_resources"}

(* lifecycle: the phase an action requires and the phase it records.        *)
expected_phase == [create_slice |-> "deleted", start_slice |-> "stopped",
                   stop_slice |-> "running", delete_slice |-> "stopped"]
next_phase     == [create_slice |-> "stopped", start_slice |-> "running",
                   stop_slice |-> "stopped", delete_slice |-> "deleted"]

Restarts == {"restart", "restart_container"}
RequestSteps == {"idle", "check", "create_slice", "start_slice", "list", "restart",
                 "smf", "ues", "traffic", "stop_slice", "delete_slice", "advance",
                 "append", "truncate", "overwrite", "restart_container", "pings",
                 "resources", "update_resources", "receipt"}

(* A request: its next step, the lock it holds, what it asks for, what is   *)
(* left to do of the step and the catalog it is writing.                    *)
Idle == [at |-> "idle", kind |-> "none", lock |-> "none", slice |-> "none",
         todo |-> {}, rec |-> initialCatalog]

LaunchSteps == {"idle", "down", "halt", "core", "pings", "list", "reconcile",
                "telemetry"}
LaunchOps == {"start", "resume", "stop", "reset"}
AtRest == [at |-> "idle", op |-> "none", todo |-> {}, seen |-> InitialPhase]

Init ==
  /\ catalog = initialCatalog /\ empty = FALSE /\ logged = initialCatalog
  /\ locks = {}
  /\ upf = [u \in Upfs |-> "absent"] /\ attached = {}
  /\ gateway = FALSE
  /\ req = [p \in Requests |-> Idle] /\ launch = AtRest
  /\ faulty \in BOOLEAN
  /\ requests = 0 /\ launches = 0 /\ crashes = 0

Goto(p, s) == req' = [req EXCEPT ![p].at = s]

-----------------------------------------------------------------------------
(* A request: the lock is taken or the request refused, which changes       *)
(* nothing.                                                                 *)

(* Mutant: the lock file is opened without O_EXCL.                          *)
AcceptShared(p, name, r) ==
  /\ gateway /\ req[p].at = "idle"
  /\ Overlapping \/ launch.at = "idle"
  /\ requests < MaxRequests
  /\ requests' = requests + 1
  /\ locks' = locks \union {name}
  /\ req' = [req EXCEPT ![p] = r]
  /\ UNCHANGED <<files, upf, attached, gateway, launch, launches, crashes, faulty>>

Accept(p, name, r) ==
  /\ gateway /\ req[p].at = "idle"
  /\ Overlapping \/ launch.at = "idle"
  /\ name \notin locks
  /\ requests < MaxRequests
  /\ requests' = requests + 1
  /\ locks' = locks \union {name}
  /\ req' = [req EXCEPT ![p] = r]
  /\ UNCHANGED <<files, upf, attached, gateway, launch, launches, crashes, faulty>>

SliceLifecycle(p) ==
  \E kind \in SliceActions, s \in Slices :
    Accept(p, CatalogLock, [Idle EXCEPT !.at = "check", !.kind = kind,
                                        !.lock = CatalogLock, !.slice = s])

RestartRequest(p) ==
  \E u \in Upfs :
    Accept(p, u, [Idle EXCEPT !.at = "restart_container", !.lock = u,
                              !.kind = "restart_container", !.todo = {u}])

ResourceRequest(p) ==
  \E u \in Upfs :
    Accept(p, u, [Idle EXCEPT !.at = "update_resources", !.lock = u,
                              !.kind = "update_container_resources", !.todo = {u}])

SliceResourceRequest(p) ==
  \E s \in Slices :
    Accept(p, CatalogLock, [Idle EXCEPT !.at = "resources", !.lock = CatalogLock,
                                        !.kind = "update_slice_resources", !.slice = s])

(* The with block ends, by return or by exception.                          *)
Leave(p) ==
  /\ locks' = locks \ {req[p].lock}
  /\ req' = [req EXCEPT ![p] = Idle]

-----------------------------------------------------------------------------
(* SliceManager.lifecycle                                                   *)

(* Mutant: the phase is left to SliceStore.advance to check.                *)
CheckPhaseLater(p) ==
  /\ req[p].at = "check"
  /\ req' = [req EXCEPT ![p].at = req[p].kind, ![p].todo = UpfsOf(req[p].slice)]
  /\ UNCHANGED <<files, locks, upf, attached, gateway, launch, counters>>

CheckPhase(p) ==
  /\ req[p].at = "check"
  /\ IF ~empty /\ Phase(catalog, req[p].slice) = expected_phase[req[p].kind]
     THEN /\ req' = [req EXCEPT ![p].at = req[p].kind,
                                ![p].todo = UpfsOf(req[p].slice)]
          /\ UNCHANGED locks
     ELSE Leave(p)
  /\ UNCHANGED <<files, upf, attached, gateway, launch, counters>>

(* What a docker call makes of a container, for the containers it accepts;  *)
(* `docker compose rm -f` removes stopped containers only.                  *)
Limiting == [c \in {"stopped", "running"} |-> c]
Starting == [c \in {"stopped", "running"} |-> "running"]
Stopping == [c \in {"stopped", "running"} |-> "stopped"]
Creating == [absent |-> "stopped", stopped |-> "stopped", running |-> "running"]
Removing == [absent |-> "absent", stopped |-> "absent", running |-> "running"]

(* One docker call for one of the containers left; after the last of them   *)
(* the request goes on to step s.  A container that is (re)started or       *)
(* stopped loses the sessions it carried.                                   *)
EachUpf(p, here, s, outcome) ==
  /\ req[p].at = here
  /\ \E u \in req[p].todo :
       /\ upf[u] \in DOMAIN outcome
       /\ upf' = [upf EXCEPT ![u] = outcome[upf[u]]]
       /\ attached' = IF here \in Restarts \/ upf'[u] # upf[u]
                      THEN attached \ Through(u) ELSE attached
       /\ req' = [req EXCEPT ![p].todo = req[p].todo \ {u},
                             ![p].at = IF req[p].todo = {u} THEN s ELSE here]
  /\ UNCHANGED <<files, locks, gateway, launch, counters>>

CreateContainer(p) == EachUpf(p, "create_slice", "advance", Creating)
StartUpf(p)        == EachUpf(p, "start_slice", "list", Starting)
RestartUpf(p)      == EachUpf(p, "restart", "smf", Starting)
StopUpf(p)         == EachUpf(p, "stop_slice", "advance", Stopping)
RemoveContainer(p) == EachUpf(p, "delete_slice", "advance", Removing)

(* start_slice reads the catalog again to find the UPFs that are active.    *)
ListActive(p) ==
  /\ req[p].at = "list" /\ ~empty
  /\ req' = [req EXCEPT ![p].at = "restart", ![p].todo = UNION
       {UpfsOf(s) : s \in {t \in Slices : \/ Phase(catalog, t) = "running"
                                          \/ t = req[p].slice}}]
  /\ UNCHANGED <<files, locks, upf, attached, gateway, launch, counters>>

(* A new SMF knows no session.  The wait for PFCP counts lines of a log     *)
(* that outlives the restart and shows nothing.                             *)
(* Mutant: no UE is restarted.                                              *)
RestartSmfAlone(p) ==
  /\ req[p].at = "smf"
  /\ attached' = {}
  /\ Goto(p, "ues")
  /\ UNCHANGED <<files, locks, upf, gateway, launch, counters>>

RestartSmf(p) ==
  /\ req[p].at = "smf"
  /\ attached' = {}
  /\ req' = [req EXCEPT ![p].at = "ues", ![p].todo = UEs]
  /\ UNCHANGED <<files, locks, upf, gateway, launch, counters>>

(* A restarted UE sets up its sessions again where the UPF runs; the wait   *)
(* is for all of them, and times out if one is missing.                     *)
RestartUe(p) ==
  /\ req[p].at = "ues"
  /\ \E e \in req[p].todo :
       /\ attached' = (attached \ OfUE(e)) \union (OfUE(e) \intersect Reachable)
       /\ IF OfUE(e) \subseteq Reachable
          THEN /\ req' = [req EXCEPT
                    ![p].todo = req[p].todo \ {e},
                    ![p].at = IF req[p].todo = {e} THEN "traffic" ELSE "ues"]
               /\ UNCHANGED locks
          ELSE Leave(p)
  /\ UNCHANGED <<files, upf, gateway, launch, counters>>

TrafficOfSlice(p) ==
  /\ req[p].at = "traffic"
  /\ IF OfSlice(req[p].slice) \subseteq attached
     THEN Goto(p, "advance") /\ UNCHANGED locks
     ELSE Leave(p)
  /\ UNCHANGED <<files, upf, attached, gateway, launch, counters>>

-----------------------------------------------------------------------------
(* SliceStore.advance                                                       *)

Advance(p) ==
  LET s == req[p].slice  target == next_phase[req[p].kind] IN
  /\ req[p].at = "advance"
  /\ IF ~empty /\ CanMove(catalog, s, target)
     THEN /\ req' = [req EXCEPT ![p].at = "append",
                                ![p].rec = moved(catalog, s, target)]
          /\ UNCHANGED locks
     ELSE Leave(p)
  /\ UNCHANGED <<files, upf, attached, gateway, launch, counters>>

AppendLog(p) ==
  /\ req[p].at = "append"
  /\ logged' = req[p].rec
  /\ Goto(p, "truncate")
  /\ UNCHANGED <<catalog, empty, locks, upf, attached, gateway, launch, counters>>

Truncate(p) ==
  /\ req[p].at = "truncate"
  /\ empty' = TRUE
  /\ Goto(p, "overwrite")
  /\ UNCHANGED <<catalog, logged, locks, upf, attached, gateway, launch, counters>>

Overwrite(p) ==
  /\ req[p].at = "overwrite"
  /\ catalog' = req[p].rec /\ empty' = FALSE
  /\ Goto(p, "receipt")
  /\ UNCHANGED <<logged, locks, upf, attached, gateway, launch, counters>>

-----------------------------------------------------------------------------
(* restart_container: every flow must get through before it is verified.    *)

RestartContainer(p) == EachUpf(p, "restart_container", "pings", Starting)

Pings(p) ==
  /\ req[p].at = "pings"
  /\ \/ /\ Reachable = Sessions
        /\ attached' = Sessions
        /\ Goto(p, "receipt") /\ UNCHANGED locks
     \/ Leave(p) /\ UNCHANGED attached
  /\ UNCHANGED <<files, upf, gateway, launch, counters>>

(* SliceManager.resources and ActionExecutor.resource: the limits are read   *)
(* back from each container; what they are is data.                         *)
CheckNotDeleted(p) ==
  /\ req[p].at = "resources"
  /\ IF ~empty /\ Phase(catalog, req[p].slice) # "deleted"
     THEN /\ req' = [req EXCEPT ![p].at = "update_resources",
                                ![p].todo = UpfsOf(req[p].slice)]
          /\ UNCHANGED locks
     ELSE Leave(p)
  /\ UNCHANGED <<files, upf, attached, gateway, launch, counters>>

UpdateResources(p) == EachUpf(p, "update_resources", "receipt", Limiting)

(* The snapshot and the receipt, or the exception of either.                *)
Receipt(p) ==
  /\ req[p].at = "receipt"
  /\ Leave(p)
  /\ UNCHANGED <<files, upf, attached, gateway, launch, counters>>

(* A docker call or a wait raises.  A call that raises after it took effect *)
(* is the call followed by this step.  Limits may be refused, or be another *)
(* action's when they are read back: a container and its slice have locks   *)
(* of their own.                                                            *)
Impossible(p) ==
  \/ /\ req[p].at \in {"start_slice", "restart", "stop_slice", "restart_container"}
     /\ \E u \in req[p].todo : upf[u] = "absent"
  \/ req[p].at = "update_resources"

RaisingSteps == {"create_slice", "start_slice", "list", "restart", "smf", "ues",
                 "traffic", "stop_slice", "delete_slice", "advance",
                 "restart_container", "update_resources"}

(* Mutant: the lock is not removed when the action raises.                  *)
RaiseLocked(p) ==
  /\ req[p].at \in RaisingSteps
  /\ faulty \/ Impossible(p)
  /\ req' = [req EXCEPT ![p] = Idle]
  /\ UNCHANGED <<files, locks, upf, attached, gateway, launch, counters>>

Raise(p) ==
  /\ req[p].at \in RaisingSteps
  /\ faulty \/ Impossible(p)
  /\ Leave(p)
  /\ UNCHANGED <<files, upf, attached, gateway, launch, counters>>
-----------------------------------------------------------------------------
(***************************************************************************)
(* The launcher, as far as the slices see it.                               *)
(***************************************************************************)
Halted(c) == IF c = "running" THEN "stopped" ELSE c

NoRequests == [p \in Requests |-> Idle]

Launch(op) ==
  /\ launch.at = "idle"
  /\ Overlapping \/ req = NoRequests
  /\ launches < MaxLaunches
  /\ (op = "start") = (launches = 0)
  /\ launches' = launches + 1
  /\ launch' = [AtRest EXCEPT !.op = op, !.at = CASE op = "reset" -> "down"
                                                  [] op = "stop" -> "halt"
                                                  [] OTHER -> "core"]
  /\ UNCHANGED <<files, locks, upf, attached, gateway, req, requests, crashes, faulty>>

(* compose down and compose stop end the gateway, and what it was doing.    *)
ComposeDown ==
  /\ launch.at = "down"
  /\ upf' = [u \in Upfs |-> "absent"] /\ attached' = {}
  /\ gateway' = FALSE /\ req' = NoRequests
  /\ launch' = [launch EXCEPT !.at = "core"]
  /\ UNCHANGED <<files, locks, counters>>

ComposeStop ==
  /\ launch.at = "halt"
  /\ upf' = [u \in Upfs |-> Halted(upf[u])] /\ attached' = {}
  /\ gateway' = FALSE /\ req' = NoRequests
  /\ launch' = AtRest
  /\ UNCHANGED <<files, locks, counters>>

(* _bring_up starts every UPF, whatever the phase of its slice, and again   *)
(* with each gNB, UE and sidecar: they need the SMF, and it every UPF.      *)
ComposeUpCore ==
  /\ launch.at \in {"core", "pings"}
  /\ upf' = [u \in Upfs |-> "running"]
  /\ attached' = attached \intersect Reachable
  /\ launch' = [launch EXCEPT !.at = "pings"]
  /\ UNCHANGED <<files, locks, gateway, req, counters>>

(* The UEs and the pings of every flow.  A UE that compose_up starts sets up *)
(* its sessions; one that already runs is left alone, and whether sessions  *)
(* lost under it come back, so that a resume gets through, is free5GC's     *)
(* affair (LaunchRaises has the other outcome).                             *)
TrafficReady ==
  /\ launch.at = "pings"
  /\ Reachable = Sessions
  /\ attached' = Sessions
  /\ launch' = [launch EXCEPT !.at = "list"]
  /\ UNCHANGED <<files, locks, upf, gateway, req, counters>>

(* reconcile_initial: the UPFs of slices that are not running are stopped,  *)
(* those of deleted slices removed after that.                              *)
Inactive(seen) == {s \in Slices : seen[s] # "running"}
Deleted(seen)  == {s \in Slices : seen[s] = "deleted"}

(* Mutant: deleted slices are stopped but not removed.                      *)
CallsForStops(seen) ==
  {<<"stop", u>> : u \in UNION {UpfsOf(s) : s \in Inactive(seen)}}

CallsFor(seen) ==
  {<<"stop", u>> : u \in UNION {UpfsOf(s) : s \in Inactive(seen)}}
    \union {<<"rm", u>> : u \in UNION {UpfsOf(s) : s \in Deleted(seen)}}

ListSlices ==
  LET seen == [s \in Slices |-> Phase(catalog, s)] IN
  /\ launch.at = "list" /\ ~empty
  /\ launch' = [launch EXCEPT !.seen = seen, !.todo = CallsFor(seen),
                              !.at = "reconcile"]
  /\ UNCHANGED <<files, locks, upf, attached, gateway, req, counters>>

ReconcileUpf ==
  /\ launch.at = "reconcile"
  /\ \E u \in Upfs :
       \/ /\ <<"stop", u>> \in launch.todo /\ upf[u] # "absent"
          /\ upf' = [upf EXCEPT ![u] = "stopped"]
          /\ attached' = attached \ Through(u)
          /\ launch' = [launch EXCEPT !.todo = @ \ {<<"stop", u>>}]
       \/ /\ <<"rm", u>> \in launch.todo /\ <<"stop", u>> \notin launch.todo
          /\ upf' = [upf EXCEPT ![u] = Removing[upf[u]]]
          /\ launch' = [launch EXCEPT !.todo = @ \ {<<"rm", u>>}]
          /\ UNCHANGED attached
  /\ UNCHANGED <<files, locks, gateway, req, counters>>

Reconciled ==
  /\ launch.at = "reconcile" /\ launch.todo = {}
  /\ launch' = [launch EXCEPT !.at = "telemetry"]
  /\ UNCHANGED <<files, locks, upf, attached, gateway, req, counters>>

(* Mutant: a gateway that starts clears the locks.                          *)
TelemetryUpClearingLocks ==
  /\ launch.at = "telemetry"
  /\ gateway' = TRUE /\ locks' = {}
  /\ launch' = AtRest
  /\ UNCHANGED <<files, upf, attached, req, counters>>

TelemetryUp ==
  /\ launch.at = "telemetry"
  /\ gateway' = TRUE
  /\ launch' = AtRest
  /\ UNCHANGED <<files, locks, upf, attached, req, counters>>

(* A compose call or a wait raises; some of the containers of a compose     *)
(* call that fails may have changed.                                        *)
LaunchRaises ==
  /\ launch.at \notin {"idle", "down", "halt", "core"}
  /\ \/ faulty
     \/ launch.at = "pings" /\ Reachable # Sessions
     \/ launch.at = "pings" /\ launch.op = "resume" /\ attached # Sessions
     \/ launch.at = "list" /\ empty
     \/ \E u \in Upfs : <<"stop", u>> \in launch.todo /\ upf[u] = "absent"
  /\ launch' = AtRest
  /\ UNCHANGED <<files, locks, upf, attached, gateway, req, counters>>

ComposeRaises ==
  /\ faulty
  /\ launch.at \in {"down", "halt", "core", "pings"}
  /\ \E some \in SUBSET Upfs :
       upf' = [u \in Upfs |-> IF u \notin some THEN upf[u]
                 ELSE CASE launch.at \in {"core", "pings"} -> "running"
                        [] launch.at = "halt" -> Halted(upf[u])
                        [] launch.at = "down" -> "absent"]
  /\ attached' = {x \in attached : upf'[x.upf] = "running"}
  /\ \/ UNCHANGED <<gateway, req>>
     \/ launch.at \in {"down", "halt"} /\ gateway' = FALSE /\ req' = NoRequests
  /\ launch' = AtRest
  /\ UNCHANGED <<files, locks, counters>>

LaunchStep ==
  ComposeDown \/ ComposeStop \/ ComposeUpCore \/ TrafficReady \/ ListSlices
    \/ ReconcileUpf \/ Reconciled \/ TelemetryUp \/ LaunchRaises \/ ComposeRaises

-----------------------------------------------------------------------------
(* Crashes.  No lock file is removed and no container starts by itself.     *)

Crash == crashes < MaxCrashes /\ crashes' = crashes + 1

GatewayDies ==
  /\ Crash /\ gateway
  /\ gateway' = FALSE /\ req' = NoRequests
  /\ UNCHANGED <<files, locks, upf, attached, launch, requests, launches, faulty>>

LauncherKilled ==
  /\ Crash /\ launch.at # "idle"
  /\ launch' = AtRest
  /\ UNCHANGED <<files, locks, upf, attached, gateway, req, requests, launches, faulty>>

HostRestart ==
  /\ Crash
  /\ upf' = [u \in Upfs |-> Halted(upf[u])] /\ attached' = {}
  /\ gateway' = FALSE
  /\ req' = NoRequests /\ launch' = AtRest
  /\ UNCHANGED <<files, locks, requests, launches, faulty>>

Serve(p) ==
  \/ CheckPhase(p)
  \/ CreateContainer(p) \/ StartUpf(p) \/ RestartUpf(p) \/ StopUpf(p)
  \/ RemoveContainer(p)
  \/ ListActive(p) \/ RestartSmf(p) \/ RestartUe(p) \/ TrafficOfSlice(p)
  \/ Advance(p) \/ AppendLog(p) \/ Truncate(p) \/ Overwrite(p)
  \/ RestartContainer(p) \/ Pings(p)
  \/ CheckNotDeleted(p) \/ UpdateResources(p) \/ Receipt(p) \/ Raise(p)

Next ==
  \/ \E p \in Requests :
       \/ SliceLifecycle(p) \/ RestartRequest(p)
       \/ ResourceRequest(p) \/ SliceResourceRequest(p)
       \/ Serve(p)
  \/ \E op \in LaunchOps : Launch(op)
  \/ LaunchStep
  \/ GatewayDies \/ LauncherKilled \/ HostRestart

Spec == Init /\ [][Next]_vars

(* A request that is accepted is served to its end: every docker call and   *)
(* every wait has a deadline.                                               *)
FairSpec == Spec /\ \A p \in Requests : WF_vars(Serve(p))

-----------------------------------------------------------------------------
(***************************************************************************)
(* Properties.                                                             *)
(***************************************************************************)
UpfSteps == {"create_slice", "start_slice", "restart", "stop_slice",
             "delete_slice", "restart_container", "update_resources"}
LockNames == {CatalogLock} \union Upfs

Request == [at : RequestSteps, kind : Kinds \union {"none"},
            lock : LockNames \union {"none"}, slice : Slices \union {"none"},
            todo : SUBSET (Upfs \union UEs), rec : CatalogRecord]
Launching == [at : LaunchSteps, op : LaunchOps \union {"none"},
              todo : SUBSET ({"stop", "rm"} \X Upfs), seen : [Slices -> SlicePhase]]

(* Every variable holds a value of its kind, and a request at a step that   *)
(* goes through containers or UEs has some left.                            *)
TypeOK ==
  /\ catalog \in CatalogRecord /\ logged \in CatalogRecord /\ empty \in BOOLEAN
  /\ locks \subseteq LockNames
  /\ upf \in [Upfs -> ContainerState] /\ attached \subseteq Sessions
  /\ gateway \in BOOLEAN
  /\ req \in [Requests -> Request] /\ launch \in Launching
  /\ requests \in Nat /\ launches \in Nat /\ crashes \in Nat
  /\ faulty \in BOOLEAN
  /\ \A p \in Requests :
       /\ req[p].at \in UpfSteps => req[p].todo \in (SUBSET Upfs) \ {{}}
       /\ req[p].at = "ues" => req[p].todo \in (SUBSET UEs) \ {{}}

InCatalog(p) == req[p].lock = CatalogLock

(* Two slice actions are never under way at once, whatever the gateway      *)
(* dies in and however often it comes back.                                 *)
OneCatalogWriter ==
  \A p, q \in Requests : InCatalog(p) /\ InCatalog(q) => p = q

(* A catalog that nobody has locked is whole and is the last line of its    *)
(* history: a gateway that dies between the writes leaves the lock behind,  *)
(* and with it a catalog that no later action builds on.                    *)
UnlockedCatalogIsCurrent ==
  CatalogLock \notin locks => ~empty /\ catalog = logged

Promise == INSTANCE SlicePhases WITH catalog <- logged

(* The lines of slice-state.jsonl are one history of single moves along the *)
(* life cycle, each made from the line before it, through crashes and       *)
(* concurrent requests.                                                     *)
ImplementsSlicePhases == Promise!Spec

ContainerFor == [running |-> "running", stopped |-> "stopped", deleted |-> "absent"]

(* A bring-up that comes as far as telemetry has put every UPF into the     *)
(* state its slice's phase calls for, whatever failed actions, crashes and  *)
(* container restarts had made of it before.                                *)
ReconcileRestoresSlices ==
  launch.at = "telemetry" =>
    \A s \in Slices : \A u \in UpfsOf(s) : upf[u] = ContainerFor[Phase(catalog, s)]

(* Outside compose down, no UPF container of a slice recorded as running is *)
(* ever removed: not by an action that fails half way, nor by a bring-up    *)
(* that reconciles the slices.                                              *)
OnlyInactiveUpfsVanish ==
  [][\A s \in Slices : \A u \in UpfsOf(s) :
       upf[u] # "absent" /\ upf'[u] = "absent" =>
         Phase(catalog, s) # "running" \/ launch.at = "down"]_vars

(* Where nothing fails and nothing dies, the UPFs of a slice recorded as    *)
(* running run, unless a lifecycle action on that slice is under way.       *)
RunningSlicesAreUp ==
  ~faulty /\ crashes = 0 /\ gateway /\ launch.at = "idle" =>
    \A s \in Slices :
      /\ Phase(catalog, s) = "running"
      /\ \A p \in Requests : req[p].kind \in SliceActions => req[p].slice # s
      =>
        \A u \in UpfsOf(s) : upf[u] = "running"

(* A lock does not stay: whatever an action meets, its lock file goes, as   *)
(* long as nothing dies.                                                    *)
LocksAreReleased ==
  \A name \in LockNames : name \in locks ~> name \notin locks \/ crashes > 0

(* Where nothing fails and one request is served at a time, a start_slice   *)
(* that was admitted succeeds, also if another slice is stopped: it is to   *)
(* rebuild the active sessions.                                             *)
StartNeedsNoOtherSlice ==
  [][~faulty /\ crashes = 0 => \A p \in Requests :
       req[p].kind = "start_slice" /\ req'[p].at = "idle" =>
         req[p].at \in {"check", "receipt"}]_vars
===============================================================================

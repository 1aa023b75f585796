----------------------------- MODULE PolicyActions ----------------------------
(***************************************************************************)
(* Policy actions (ActionExecutor.policy in gateway/executor.py) and the    *)
(* evidence they are verified with.                                         *)
(*                                                                         *)
(* An action edits the subscriber document of its UE in free5GC, restarts   *)
(* the UE so that its sessions are set up under the new rules, waits until  *)
(* a snapshot shows the 5QI it asked for, and enters the flow into          *)
(* flow-allocations.json.  Its lock covers one flow; the document is shared *)
(* by the flows of a UE and the file by all of them.                        *)
(*                                                                         *)
(* What a snapshot shows of a session is what the session tracker           *)
(* (telemetry/session_tracker.py) wrote last.  The launcher provisions the  *)
(* subscribers and brings the UEs and the telemetry up.                     *)
(*                                                                         *)
(* A step is one HTTP call, one docker call with its wait, one snapshot, or *)
(* one read, truncation or write of a file.  Every flow has a PDU session   *)
(* of its own.                                                              *)
(***************************************************************************)
EXTENDS PolicyState

CONSTANTS
  Requests,       \* threads of the gateway that serve a policy action
  Overlapping,    \* may requests overlap each other and the launcher?
  Faulty,         \* may calls and waits fail?
  MaxRequests,    \* bound: requests accepted in a behaviour
  MaxLaunches,    \* bound: bring-ups and take-downs in a behaviour
  MaxCrashes      \* bound: gateway deaths and host restarts

VARIABLES
  rules,        \* the FlowRules and QosFlows of the subscriber documents
  session,      \* the rule each PDU session was set up with
  running,      \* the UE containers that run
  observed,     \* session-observations.json: the 5QI of each flow's session
  tracker,      \* the session tracker
  allocations,  \* flow-allocations.json
  receipts,     \* the policy in the last receipt of each flow
  locks,        \* the flows whose lock file exists
  gateway,      \* does the gateway run?
  req, launch,
  requests, launches, crashes

ASSUME SwitchesAreBoolean == Overlapping \in BOOLEAN /\ Faulty \in BOOLEAN
ASSUME BoundsAreNatural ==
  MaxRequests \in Nat /\ MaxLaunches \in Nat /\ MaxCrashes \in Nat

radio == <<session, running>>
records == <<allocations, receipts>>
evidence == <<observed, tracker>>
counters == <<requests, launches, crashes>>
vars == <<rules, radio, evidence, records, locks, gateway, req, launch, counters>>

(* A session that is not set up.                                            *)
Down == [five_qi |-> 0, mbr |-> 0]
NotObserved == 0

FlowsOf(us) == {f \in Flows : ueOf[f] \in us}
Siblings(f) == FlowsOf({ueOf[f]})
AllUp(fs) == \A f \in fs : session[f] # Down
NoRules == [f \in Flows |-> Declared]

Steps == {"idle", "get", "put", "readback", "restart", "pdu", "traffic", "watch",
          "list", "truncate", "write", "snapshot"}

(* A request: its next step, its flow and policy, and the document or file  *)
(* it has read.                                                             *)
Idle == [at |-> "idle", flow |-> "none", policy |-> Declared, copy |-> NoRules]
NoRequests == [p \in Requests |-> Idle]

AtRest == [at |-> "idle", todo |-> {}]

Init ==
  /\ rules = NoRules
  /\ session = [f \in Flows |-> Down] /\ running = {}
  /\ observed = [f \in Flows |-> NotObserved] /\ tracker = "off"
  /\ allocations = NoRules
  /\ receipts = NoRules
  /\ locks = {} /\ gateway = FALSE
  /\ req = NoRequests /\ launch = AtRest
  /\ requests = 0 /\ launches = 0 /\ crashes = 0

Goto(p, s) == req' = [req EXCEPT ![p].at = s]

-----------------------------------------------------------------------------
(* The snapshot an action refers to must show its flow completely; a lock   *)
(* that exists is a conflict.                                               *)
Accept(p, f, x) ==
  /\ gateway /\ req[p].at = "idle"
  /\ Overlapping \/ (req = NoRequests /\ launch.at = "idle")
  /\ observed[f] # NotObserved
  /\ f \notin locks
  /\ requests < MaxRequests
  /\ requests' = requests + 1
  /\ locks' = locks \union {f}
  /\ req' = [req EXCEPT ![p] = [Idle EXCEPT !.at = "get", !.flow = f, !.policy = x]]
  /\ UNCHANGED <<rules, radio, evidence, records, gateway, launch, launches,
                 crashes>>

(* The with block ends, by return or by exception.                          *)
Leave(p) ==
  /\ locks' = locks \ {req[p].flow}
  /\ req' = [req EXCEPT ![p] = Idle]

-----------------------------------------------------------------------------
(* SubscriberAdapter.update_policy: the whole document is read, edited and  *)
(* written; the read-back compares the rule of this flow only.              *)

(* Mutant: the document is put with the new rule only.                      *)
UpdatedOnly(copy, f, x) ==
  [g \in Flows |-> IF g = f THEN x ELSE IF g \in Siblings(f) THEN Declared ELSE rules[g]]

Updated(copy, f, x) ==
  [g \in Flows |-> IF g = f THEN x ELSE IF g \in Siblings(f) THEN copy[g] ELSE rules[g]]

GetSubscriber(p) ==
  /\ req[p].at = "get"
  /\ req' = [req EXCEPT ![p].at = "put", ![p].copy = rules]
  /\ UNCHANGED <<rules, radio, evidence, records, locks, gateway, launch, counters>>

PutSubscriber(p) ==
  /\ req[p].at = "put"
  /\ rules' = Updated(req[p].copy, req[p].flow, req[p].policy)
  /\ Goto(p, "readback")
  /\ UNCHANGED <<radio, evidence, records, locks, gateway, launch, counters>>

ReadBack(p) ==
  /\ req[p].at = "readback"
  /\ IF rules[req[p].flow] = req[p].policy
     THEN Goto(p, "restart") /\ UNCHANGED locks
     ELSE Leave(p)
  /\ UNCHANGED <<rules, radio, evidence, records, gateway, launch, counters>>

-----------------------------------------------------------------------------
(* ActionExecutor.policy: the UE restarts, and every flow of the scenario   *)
(* has to get through again.  The restart of the traffic sidecar in between *)
(* changes nothing that is kept here.                                       *)

(* Mutant: only the traffic sidecar is restarted.                           *)
RestartSidecar(p) ==
  /\ req[p].at = "restart"
  /\ Goto(p, "pdu")
  /\ UNCHANGED <<rules, radio, evidence, records, locks, gateway, launch, counters>>

RestartUe(p) ==
  LET f == req[p].flow IN
  /\ req[p].at = "restart"
  /\ session' = [g \in Flows |-> IF g \in Siblings(f) THEN Down ELSE session[g]]
  /\ running' = running \union {ueOf[f]}
  /\ Goto(p, "pdu")
  /\ UNCHANGED <<rules, evidence, records, locks, gateway, launch, counters>>

WaitForSessions(p, here, s, fs) ==
  /\ req[p].at = here /\ AllUp(fs)
  /\ Goto(p, s)
  /\ UNCHANGED <<rules, radio, evidence, records, locks, gateway, launch, counters>>

PduReady(p) == WaitForSessions(p, "pdu", "traffic", Siblings(req[p].flow))
TrafficReady(p) == WaitForSessions(p, "traffic", "watch", Flows)

(* PolicyWatchdog.wait: a snapshot cannot be built while                    *)
(* flow-allocations.json cannot be read, and only what verify_policy raises *)
(* is tried again.                                                          *)
Readable == allocations \notin Unreadable
Shown(p) == observed[req[p].flow] = req[p].policy.five_qi

Verify(p) ==
  /\ req[p].at = "watch" /\ Readable /\ Shown(p)
  /\ Goto(p, "list")
  /\ UNCHANGED <<rules, radio, evidence, records, locks, gateway, launch, counters>>

(* A tracker that still looks is in time for the deadline.                  *)
WatchdogExpires(p) ==
  /\ req[p].at = "watch"
  /\ ~Readable \/ (~Shown(p) /\ (tracker # "looking" \/ Faulty))
  /\ Leave(p)
  /\ UNCHANGED <<rules, radio, evidence, records, gateway, launch, counters>>

-----------------------------------------------------------------------------
(* FlowAllocationStore.update: one file for all flows, emptied before it is *)
(* written.  Who dies in between leaves nothing in it.                      *)

ListAllocations(p) ==
  /\ req[p].at = "list"
  /\ IF Readable
     THEN /\ req' = [req EXCEPT ![p].at = "truncate", ![p].copy = allocations]
          /\ UNCHANGED locks
     ELSE Leave(p)
  /\ UNCHANGED <<rules, radio, evidence, records, gateway, launch, counters>>

Truncate(p) ==
  /\ req[p].at = "truncate"
  /\ allocations' = Lost
  /\ Goto(p, "write")
  /\ UNCHANGED <<rules, radio, evidence, receipts, locks, gateway, launch, counters>>

(* Written over the text of another request, a shorter text keeps the end of *)
(* it, and the file cannot be read.                                         *)
WriteAllocations(p) ==
  /\ req[p].at = "write"
  /\ \/ allocations' = [req[p].copy EXCEPT ![req[p].flow] = req[p].policy]
     \/ allocations # Lost /\ allocations' = Garbled
  /\ Goto(p, "snapshot")
  /\ UNCHANGED <<rules, radio, evidence, receipts, locks, gateway, launch, counters>>

(* The second snapshot, which may find the file emptied or garbled by       *)
(* another request, and the receipt.                                        *)
Receipt(p) ==
  /\ req[p].at = "snapshot"
  /\ receipts' = IF Readable THEN [receipts EXCEPT ![req[p].flow] = req[p].policy]
                 ELSE receipts
  /\ Leave(p)
  /\ UNCHANGED <<rules, radio, evidence, allocations, gateway, launch, counters>>

(* A call or a wait raises.  One that raises after it took effect is the    *)
(* step followed by this one.                                               *)
Raise(p) ==
  /\ req[p].at \in Steps \ {"idle", "truncate", "write"}
  /\ Faulty
  /\ Leave(p)
  /\ UNCHANGED <<rules, radio, evidence, records, gateway, launch, counters>>

Serve(p) ==
  \/ GetSubscriber(p) \/ PutSubscriber(p) \/ ReadBack(p)
  \/ RestartUe(p) \/ PduReady(p) \/ TrafficReady(p)
  \/ Verify(p) \/ WatchdogExpires(p)
  \/ ListAllocations(p) \/ Truncate(p) \/ WriteAllocations(p) \/ Receipt(p)
  \/ Raise(p)

-----------------------------------------------------------------------------
(* free5GC and the UE set a session up under the rules of the document.     *)
Establish(f) ==
  /\ ueOf[f] \in running /\ session[f] = Down
  /\ session' = [session EXCEPT ![f] = rules[f]]
  /\ UNCHANGED <<rules, running, evidence, records, locks, gateway, req, launch,
                 counters>>

(* collect_sessions: what the logs tell of each session, as far as they     *)
(* tell it.  Once it has found everything the tracker waits for its end.    *)
(* Mutant: the QFI is taken for the 5QI.                                    *)
CollectQfi(seen) ==
  /\ tracker = "looking" /\ AllUp(Flows)
  /\ observed' = [f \in Flows |-> IF f \in seen THEN session[f].five_qi + 100
                                  ELSE NotObserved]
  /\ tracker' = IF seen = Flows THEN "done" ELSE "looking"
  /\ UNCHANGED <<rules, radio, records, locks, gateway, req, launch, counters>>

Collect(seen) ==
  /\ tracker = "looking" /\ AllUp(Flows)
  /\ observed' = [f \in Flows |-> IF f \in seen THEN session[f].five_qi ELSE NotObserved]
  /\ tracker' = IF seen = Flows THEN "done" ELSE "looking"
  /\ UNCHANGED <<rules, radio, records, locks, gateway, req, launch, counters>>

(* A session without its interface ends the tracker.                        *)
TrackerDies ==
  /\ tracker = "looking" /\ ~AllUp(Flows)
  /\ tracker' = "off"
  /\ UNCHANGED <<rules, radio, observed, records, locks, gateway, req, launch,
                 counters>>

-----------------------------------------------------------------------------
(***************************************************************************)
(* The launcher, as far as policies see it.                                 *)
(***************************************************************************)
NewLaunch ==
  /\ launch.at = "idle"
  /\ Overlapping \/ req = NoRequests
  /\ launches < MaxLaunches
  /\ launches' = launches + 1

BringUp ==
  /\ NewLaunch
  /\ launch' = [at |-> "provision", todo |-> UEs]
  /\ UNCHANGED <<rules, radio, evidence, records, locks, gateway, req, requests,
                 crashes>>

(* provision_subscribers: the declared document is put whatever is there.   *)
ProvisionUe ==
  /\ launch.at = "provision"
  /\ \E u \in launch.todo :
       /\ rules' = [f \in Flows |-> IF ueOf[f] = u THEN Declared ELSE rules[f]]
       /\ launch' = [launch EXCEPT !.todo = @ \ {u}]
  /\ UNCHANGED <<radio, evidence, records, locks, gateway, req, counters>>

(* After an error all of them are put again.                                *)
ProvisionAgain ==
  /\ launch.at = "provision" /\ Faulty
  /\ launch' = [launch EXCEPT !.todo = UEs]
  /\ UNCHANGED <<rules, radio, evidence, records, locks, gateway, req, counters>>

GnbsUp ==
  /\ launch.at = "provision" /\ launch.todo = {}
  /\ launch' = [at |-> "ues", todo |-> UEs]
  /\ UNCHANGED <<rules, radio, evidence, records, locks, gateway, req, counters>>

(* One UE after the other; compose up leaves one that runs alone.           *)
UeUp ==
  /\ launch.at = "ues" /\ AllUp(FlowsOf(UEs \ launch.todo))
  /\ \E u \in launch.todo :
       /\ running' = running \union {u}
       /\ launch' = [launch EXCEPT !.todo = @ \ {u}]
  /\ UNCHANGED <<rules, session, evidence, records, locks, gateway, req, counters>>

TelemetryUp ==
  /\ launch.at = "ues" /\ launch.todo = {} /\ AllUp(Flows)
  /\ tracker' = IF tracker = "off" THEN "looking" ELSE tracker
  /\ gateway' = TRUE
  /\ launch' = AtRest
  /\ UNCHANGED <<rules, radio, observed, records, locks, req, counters>>

LaunchRaises ==
  /\ launch.at # "idle" /\ Faulty
  /\ launch' = AtRest
  /\ UNCHANGED <<rules, radio, evidence, records, locks, gateway, req, counters>>

(* Every container stops; with it the requests, but not their locks.        *)
EverythingStops ==
  /\ session' = [f \in Flows |-> Down] /\ running' = {}
  /\ tracker' = "off"
  /\ gateway' = FALSE /\ req' = NoRequests
  /\ UNCHANGED <<observed, records, locks>>

ComposeStop ==
  /\ NewLaunch /\ EverythingStops
  /\ UNCHANGED <<rules, launch, requests, crashes>>

(* compose down of a reset removes the volume of the subscriber database.   *)
ComposeDown ==
  /\ NewLaunch /\ EverythingStops
  /\ rules' = NoRules
  /\ UNCHANGED <<launch, requests, crashes>>

-----------------------------------------------------------------------------
Crash == crashes < MaxCrashes /\ crashes' = crashes + 1

GatewayDies ==
  /\ Crash /\ gateway
  /\ gateway' = FALSE /\ req' = NoRequests
  /\ UNCHANGED <<rules, radio, evidence, records, locks, launch, requests, launches>>

HostRestart ==
  /\ Crash /\ EverythingStops
  /\ launch' = AtRest
  /\ UNCHANGED <<rules, requests, launches>>

Next ==
  \/ \E p \in Requests, f \in Flows, x \in Policies : Accept(p, f, x)
  \/ \E p \in Requests : Serve(p)
  \/ \E f \in Flows : Establish(f)
  \/ \E seen \in SUBSET Flows : Collect(seen)
  \/ TrackerDies
  \/ BringUp \/ ProvisionUe \/ ProvisionAgain \/ GnbsUp \/ UeUp \/ TelemetryUp
  \/ LaunchRaises
  \/ ComposeStop \/ ComposeDown
  \/ GatewayDies \/ HostRestart

Spec == Init /\ [][Next]_vars

-----------------------------------------------------------------------------
(***************************************************************************)
(* Properties.                                                             *)
(***************************************************************************)
QIs == {x.five_qi : x \in Rule}

Request == [at : Steps, flow : Flows \union {"none"}, policy : Rule, copy : Rules]

(* Every variable holds a value of its kind, and a request that is under    *)
(* way has a flow whose lock exists.                                        *)
TypeOK ==
  /\ rules \in Rules /\ receipts \in Rules
  /\ allocations \in Rules \union Unreadable
  /\ session \in [Flows -> Rule \union {Down}] /\ running \subseteq UEs
  /\ observed \in [Flows -> QIs \union {NotObserved}]
  /\ tracker \in {"off", "looking", "done"}
  /\ gateway \in BOOLEAN
  /\ locks \subseteq Flows
  /\ req \in [Requests -> Request]
  /\ \A p \in Requests : req[p].at # "idle" => req[p].flow \in locks
  /\ launch \in [at : {"idle", "provision", "ues"}, todo : SUBSET UEs]
  /\ requests \in Nat /\ launches \in Nat /\ crashes \in Nat

(* A receipt with status verified is true when it is written: the rule is   *)
(* in the subscriber document, the session was set up under it, and it is   *)
(* what the allocations say (tests/contract/test_actions.py:113, a target   *)
(* lock rejects a concurrent writer).                                       *)
ReceiptIsTrue ==
  [][\A p \in Requests :
       req[p].at = "snapshot" /\ receipts' # receipts /\ req'[p].at = "idle" =>
         LET f == req[p].flow IN
         /\ rules[f] = req[p].policy
         /\ session[f] = req[p].policy
         /\ allocations[f] = req[p].policy]_vars

(* What flow-allocations.json holds or its writer is about to put back.     *)
Known ==
  LET writers == {p \in Requests : req[p].at = "write"} IN
  IF writers = {} THEN allocations ELSE req[CHOOSE p \in writers : TRUE].copy

Promise == INSTANCE FlowPolicies WITH allocations <- Known

(* As long as requests and bring-ups do not overlap, the subscriber         *)
(* documents and the allocations change one flow at a time, and only what   *)
(* is in force is allocated, through faults.  The allocations are lost by   *)
(* nothing but a crash, which catches their file emptied and not yet        *)
(* written again; then they are lost for all flows and for good.            *)
ImplementsFlowPolicies == Promise!Spec

(* A policy action that has come as far as the watchdog, with the session   *)
(* set up as it asked, is not given up (scenario s4 is there to verify a    *)
(* change of policy).                                                       *)
WatchdogSeesTheSession ==
  [][\A p \in Requests :
       req[p].at = "watch" /\ session[req[p].flow] = req[p].policy =>
         req'[p].at # "idle"]_vars
===============================================================================

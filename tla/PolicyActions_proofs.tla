------------------------- MODULE PolicyActions_proofs -------------------------
(***************************************************************************)
(* Theorems about PolicyActions: type correctness for any overlap, and, for *)
(* requests and bring-ups that do not overlap, the truth of receipts and    *)
(* the refinement of FlowPolicies.                                          *)
(***************************************************************************)
EXTENDS PolicyActions, TLAPS

Working(p) == req[p].at # "idle"

(* What a request may hold, and no two requests hold one flow.              *)
RequestsOK ==
  /\ req \in [Requests -> Request]
  /\ locks \subseteq Flows
  /\ \A p \in Requests : Working(p) =>
       req[p].flow \in locks /\ req[p].policy \in Policies
  /\ \A p, q \in Requests :
       Working(p) /\ Working(q) /\ req[p].flow = req[q].flow => p = q

DocumentsOK ==
  /\ rules \in Rules /\ receipts \in Rules
  /\ allocations \in Rules \union Unreadable
  /\ session \in [Flows -> Rule \union {Down}] /\ running \subseteq UEs
  /\ observed \in [Flows -> QIs \union {NotObserved}]

SwitchesOK ==
  /\ tracker \in {"off", "looking", "done"}
  /\ gateway \in BOOLEAN
  /\ launch \in [at : {"idle", "provision", "ues"}, todo : SUBSET UEs]
  /\ requests \in Nat /\ launches \in Nat /\ crashes \in Nat

TypeInv == RequestsOK /\ DocumentsOK /\ SwitchesOK

LEMMA TypeInvImpliesTypeOK == TypeInv => TypeOK
  BY DEF TypeInv, RequestsOK, DocumentsOK, SwitchesOK, Working, TypeOK

-----------------------------------------------------------------------------
(* Rules of flows, and what is idle.                                        *)

LEMMA DeclaredIsARule == Declared \in Rule /\ NoRules \in Rules /\ Idle \in Request
  BY DEF Rule, Declared, NoRules, Rules, Idle, Request, Steps

LEMMA RulesHaveQIs ==
  ASSUME NEW f \in Flows, DocumentsOK, session[f] # Down
  PROVE  session[f] \in Rule /\ session[f].five_qi \in QIs
  BY DEF DocumentsOK, QIs

LEMMA NothingIsIdle ==
  ASSUME req' = NoRequests, locks' = locks, RequestsOK
  PROVE  RequestsOK'
  BY DeclaredIsARule DEF RequestsOK, NoRequests, Working, Idle

LEMMA RequestsKept ==
  ASSUME req' = req, locks' = locks, RequestsOK
  PROVE  RequestsOK'
  BY DEF RequestsOK, Working

LEMMA ReadableMeansRules ==
  ASSUME DocumentsOK, Readable
  PROVE  allocations \in Rules
  BY DEF DocumentsOK, Readable

(* No rule has the 5QI 0.                                                   *)
LEMMA RulesAreReadable == Rules \intersect Unreadable = {}
  <1>1. PICK f \in Flows : TRUE
    BY FlowsExist
  <1>2. Lost[f].five_qi = 0 /\ Garbled[f].five_qi = 0
    BY DEF Lost, Garbled
  <1>3. \A c \in Rules : c[f].five_qi # 0
    BY PoliciesAreRecords, DefaultIsA5QI DEF Rules, Rule, Declared
  <1> QED
    BY <1>2, <1>3 DEF Unreadable

-----------------------------------------------------------------------------
(* The three ways in which a step changes a request.                        *)

LEMMA MovingKeepsRequests ==
  ASSUME RequestsOK, NEW p \in Requests, Working(p), NEW r \in Request,
         r.flow = req[p].flow, r.policy = req[p].policy,
         req' = [req EXCEPT ![p] = r], locks' = locks
  PROVE  RequestsOK'
  <1>1. \A q \in Requests : req'[q] = IF q = p THEN r ELSE req[q]
    BY DEF RequestsOK
  <1>2. \A q \in Requests : Working(q)' => Working(q)
    BY <1>1 DEF Working
  <1>3. \A q \in Requests : req'[q].flow = req[q].flow /\ req'[q].policy = req[q].policy
    BY <1>1
  <1>4. req' \in [Requests -> Request]
    BY DEF RequestsOK
  <1> QED
    BY <1>2, <1>3, <1>4 DEF RequestsOK

LEMMA GotoIsAMove ==
  ASSUME RequestsOK, NEW p \in Requests, NEW s \in Steps, Goto(p, s)
  PROVE  \E r \in Request : /\ r.flow = req[p].flow /\ r.policy = req[p].policy
                            /\ r.at = s /\ r.copy = req[p].copy
                            /\ req' = [req EXCEPT ![p] = r]
  <1> DEFINE r == [req[p] EXCEPT !.at = s]
  <1>1. req[p] \in Request
    BY DEF RequestsOK
  <1>2. r \in Request /\ r.flow = req[p].flow /\ r.policy = req[p].policy
        /\ r.at = s /\ r.copy = req[p].copy
    BY <1>1 DEF Request
  <1>3. req' = [req EXCEPT ![p] = r]
    BY DEF Goto
  <1> QED
    BY <1>2, <1>3

LEMMA GotoKeepsRequests ==
  ASSUME RequestsOK, NEW p \in Requests, Working(p), NEW s \in Steps, Goto(p, s),
         locks' = locks
  PROVE  RequestsOK'
  BY GotoIsAMove, MovingKeepsRequests

LEMMA LeavingKeepsRequests ==
  ASSUME RequestsOK, NEW p \in Requests, Working(p), Leave(p)
  PROVE  RequestsOK'
  <1>1. \A q \in Requests : req'[q] = IF q = p THEN Idle ELSE req[q]
    BY DEF RequestsOK, Leave
  <1>2. req' \in [Requests -> Request]
    BY DeclaredIsARule DEF RequestsOK, Leave
  <1>3. \A q \in Requests : Working(q)' => q # p /\ Working(q) /\ req'[q] = req[q]
    BY <1>1 DEF Working, Idle
  <1>4. \A q \in Requests : Working(q)' => req'[q].flow \in locks'
    BY <1>3 DEF RequestsOK, Leave
  <1> QED
    BY <1>2, <1>3, <1>4 DEF RequestsOK, Leave

LEMMA AcceptingKeepsRequests ==
  ASSUME RequestsOK, NEW p \in Requests, NEW f \in Flows, NEW x \in Policies,
         Accept(p, f, x)
  PROVE  RequestsOK'
  <1> DEFINE r == [Idle EXCEPT !.at = "get", !.flow = f, !.policy = x]
  <1>1. r \in Request /\ r.flow = f /\ r.policy = x
    BY DeclaredIsARule DEF Idle, Request, Steps, Rule
  <1>2. req' = [req EXCEPT ![p] = r] /\ locks' = locks \union {f} /\ f \notin locks
    BY DEF Accept
  <1> HIDE DEF r
  <1>3. \A q \in Requests : req'[q] = IF q = p THEN r ELSE req[q]
    BY <1>2 DEF RequestsOK
  <1>4. req' \in [Requests -> Request]
    BY <1>1, <1>2 DEF RequestsOK
  <1>5. \A q \in Requests : Working(q)' /\ q # p => Working(q) /\ req'[q].flow # f
    BY <1>2, <1>3 DEF Working, RequestsOK
  <1> QED
    BY <1>1, <1>2, <1>3, <1>4, <1>5 DEF RequestsOK
-----------------------------------------------------------------------------
(* Every action keeps what requests are.                                    *)

LEMMA ReadingKeepsRequests ==
  ASSUME RequestsOK, NEW p \in Requests, Working(p), NEW s \in Steps, NEW c \in Rules,
         req' = [req EXCEPT ![p].at = s, ![p].copy = c], locks' = locks
  PROVE  RequestsOK'
  <1> DEFINE r == [req[p] EXCEPT !.at = s, !.copy = c]
  <1>1. req[p] \in Request
    BY DEF RequestsOK
  <1>2. r \in Request /\ r.flow = req[p].flow /\ r.policy = req[p].policy
    BY <1>1 DEF Request
  <1>3. req' = [req EXCEPT ![p] = r]
    OBVIOUS
  <1> QED
    BY <1>2, <1>3, MovingKeepsRequests

LEMMA ServingKeepsRequests ==
  ASSUME TypeInv, NEW p \in Requests, Serve(p)
  PROVE  RequestsOK'
  <1>1. Working(p) /\ RequestsOK /\ rules \in Rules /\ (Readable => allocations \in Rules)
    BY ReadableMeansRules DEF Working, TypeInv, DocumentsOK, Serve, GetSubscriber, PutSubscriber, ReadBack,
       RestartUe, PduReady, TrafficReady, WaitForSessions, Verify, WatchdogExpires,
       ListAllocations, Truncate, WriteAllocations, Receipt, Raise
  <1>2. {"put", "readback", "restart", "pdu", "traffic", "watch", "list", "truncate",
         "write", "snapshot"} \subseteq Steps
    BY DEF Steps
  <1>3. CASE GetSubscriber(p)
    BY <1>1, <1>2, <1>3, ReadingKeepsRequests DEF GetSubscriber
  <1>4. CASE ListAllocations(p)
    BY <1>1, <1>2, <1>4, ReadingKeepsRequests, LeavingKeepsRequests DEF ListAllocations
  <1>5. CASE PutSubscriber(p) \/ RestartUe(p) \/ PduReady(p) \/ TrafficReady(p)
    BY <1>1, <1>2, <1>5, GotoKeepsRequests
       DEF PutSubscriber, RestartUe, PduReady, TrafficReady, WaitForSessions
  <1>6. CASE Verify(p) \/ Truncate(p) \/ WriteAllocations(p)
    BY <1>1, <1>2, <1>6, GotoKeepsRequests DEF Verify, Truncate, WriteAllocations
  <1>7. CASE ReadBack(p)
    BY <1>1, <1>2, <1>7, GotoKeepsRequests, LeavingKeepsRequests DEF ReadBack
  <1>8. CASE WatchdogExpires(p) \/ Receipt(p) \/ Raise(p)
    BY <1>1, <1>8, LeavingKeepsRequests DEF WatchdogExpires, Receipt, Raise
  <1> QED
    BY <1>3, <1>4, <1>5, <1>6, <1>7, <1>8 DEF Serve

(* The steps of free5GC, the tracker and the launcher.                      *)
Environment ==
  \/ \E f \in Flows : Establish(f)
  \/ \E seen \in SUBSET Flows : Collect(seen)
  \/ TrackerDies
  \/ BringUp \/ ProvisionUe \/ ProvisionAgain \/ GnbsUp \/ UeUp \/ TelemetryUp
  \/ LaunchRaises

(* The steps that end every request.                                        *)
Stops == ComposeStop \/ ComposeDown \/ GatewayDies \/ HostRestart

LEMMA NextSplit ==
  Next <=> \/ \E p \in Requests, f \in Flows, x \in Policies : Accept(p, f, x)
           \/ \E p \in Requests : Serve(p)
           \/ Environment \/ Stops
  BY DEF Next, Environment, Stops

LEMMA EnvironmentLeavesRequests ==
  Environment => UNCHANGED <<req, locks, allocations, receipts, crashes>>
  BY DEF Environment, Establish, Collect, TrackerDies, BringUp, ProvisionUe,
     ProvisionAgain, GnbsUp, UeUp, TelemetryUp, LaunchRaises, records, counters

LEMMA StopsEndRequests == 
  Stops => req' = NoRequests /\ UNCHANGED <<locks, allocations, receipts>>
  BY DEF Stops, ComposeStop, ComposeDown, GatewayDies, HostRestart, EverythingStops, records

LEMMA StepKeepsRequests == TypeInv /\ [Next]_vars => RequestsOK'
  <1> SUFFICES ASSUME TypeInv, [Next]_vars PROVE RequestsOK'
    OBVIOUS
  <1>1. RequestsOK
    BY DEF TypeInv
  <1>2. ASSUME NEW p \in Requests, NEW f \in Flows, NEW x \in Policies, Accept(p, f, x)
        PROVE  RequestsOK'
    BY <1>1, <1>2, AcceptingKeepsRequests
  <1>3. ASSUME NEW p \in Requests, Serve(p) PROVE RequestsOK'
    BY <1>3, ServingKeepsRequests
  <1>4. CASE Environment
    BY <1>1, <1>4, EnvironmentLeavesRequests, RequestsKept
  <1>5. CASE Stops
    BY <1>1, <1>5, StopsEndRequests, NothingIsIdle
  <1>6. CASE UNCHANGED vars
    BY <1>1, <1>6, RequestsKept DEF vars
  <1> QED
    BY <1>2, <1>3, <1>4, <1>5, <1>6, NextSplit

-----------------------------------------------------------------------------
(* Every action keeps the documents.                                        *)

LEMMA UpdatedIsRules ==
  ASSUME NEW c \in Rules, NEW f \in Flows, NEW x \in Policies, rules \in Rules
  PROVE  Updated(c, f, x) \in Rules
  BY DEF Updated, Rules, Rule

LEMMA ServingKeepsDocuments ==
  ASSUME TypeInv, NEW p \in Requests, Serve(p)
  PROVE  DocumentsOK'
  <1>1. DocumentsOK /\ req[p] \in Request
    BY DEF TypeInv, RequestsOK
  <1>2. Working(p) => /\ req[p].flow \in Flows /\ req[p].policy \in Policies
                      /\ req[p].policy \in Rule /\ req[p].copy \in Rules
    BY <1>1 DEF TypeInv, RequestsOK, Request, Rule
  <1>3. CASE PutSubscriber(p)
    <2>1. rules' = Updated(req[p].copy, req[p].flow, req[p].policy)
          /\ UNCHANGED <<session, running, observed, allocations, receipts>> /\ Working(p)
      BY <1>3 DEF PutSubscriber, Working, radio, evidence, records
    <2>2. rules' \in Rules
      BY <1>1, <1>2, <2>1, UpdatedIsRules DEF DocumentsOK
    <2> QED
      BY <1>1, <2>1, <2>2 DEF DocumentsOK
  <1>4. CASE RestartUe(p)
    <2>1. /\ session' = [g \in Flows |-> IF g \in Siblings(req[p].flow)
                                         THEN Down ELSE session[g]]
          /\ running' = running \union {ueOf[req[p].flow]}
          /\ UNCHANGED <<rules, observed, allocations, receipts>> /\ Working(p)
      BY <1>4 DEF RestartUe, Working, evidence, records
    <2>2. ueOf[req[p].flow] \in UEs
      BY <1>2, <2>1, FlowsHaveUEs
    <2>3. session' \in [Flows -> Rule \union {Down}]
      BY <1>1, <2>1 DEF DocumentsOK
    <2> QED
      BY <1>1, <2>1, <2>2, <2>3 DEF DocumentsOK
  <1>5. CASE WriteAllocations(p)
    <2>1. /\ \/ allocations' = [req[p].copy EXCEPT ![req[p].flow] = req[p].policy]
             \/ allocations' = Garbled
          /\ UNCHANGED <<rules, session, running, observed, receipts>> /\ Working(p)
      BY <1>5 DEF WriteAllocations, Working, radio, evidence
    <2>2. allocations' \in Rules \union Unreadable
      BY <1>2, <2>1 DEF Rules, Unreadable
    <2> QED
      BY <1>1, <2>1, <2>2 DEF DocumentsOK
  <1>6. CASE Receipt(p)
    <2>1. /\ receipts' \in {receipts, [receipts EXCEPT ![req[p].flow] = req[p].policy]}
          /\ UNCHANGED <<rules, session, running, observed, allocations>> /\ Working(p)
      BY <1>6 DEF Receipt, Working, radio, evidence, records
    <2>2. receipts' \in Rules
      BY <1>1, <1>2, <2>1 DEF DocumentsOK, Rules
    <2> QED
      BY <1>1, <2>1, <2>2 DEF DocumentsOK
  <1>7. CASE \/ GetSubscriber(p) \/ ReadBack(p) \/ PduReady(p) \/ TrafficReady(p)
             \/ Verify(p) \/ WatchdogExpires(p) \/ ListAllocations(p) \/ Raise(p)
    <2>1. UNCHANGED <<rules, session, running, observed, allocations, receipts>>
      BY <1>7 DEF GetSubscriber, ReadBack, PduReady, TrafficReady, WaitForSessions,
         Verify, WatchdogExpires, ListAllocations, Raise, radio, evidence, records
    <2> QED
      BY <1>1, <2>1 DEF DocumentsOK
  <1>8. CASE Truncate(p)
    <2>1. allocations' = Lost /\ UNCHANGED <<rules, session, running, observed, receipts>>
      BY <1>8 DEF Truncate, radio, evidence
    <2> QED
      BY <1>1, <2>1 DEF DocumentsOK, Unreadable
  <1> QED
    BY <1>3, <1>4, <1>5, <1>6, <1>7, <1>8 DEF Serve

LEMMA EnvironmentKeepsDocuments ==
  ASSUME TypeInv, Environment
  PROVE  DocumentsOK'
  <1>1. DocumentsOK /\ Declared \in Rule
    BY DeclaredIsARule DEF TypeInv
  <1>2. ASSUME NEW f \in Flows, Establish(f) PROVE DocumentsOK'
    <2>1. session' = [session EXCEPT ![f] = rules[f]] /\ rules[f] \in Rule
      BY <1>1, <1>2 DEF Establish, DocumentsOK, Rules
    <2>2. UNCHANGED <<rules, running, observed, allocations, receipts>>
      BY <1>2 DEF Establish, evidence, records
    <2> QED
      BY <1>1, <2>1, <2>2 DEF DocumentsOK
  <1>3. ASSUME NEW seen \in SUBSET Flows, Collect(seen) PROVE DocumentsOK'
    <2>1. \A f \in Flows : session[f].five_qi \in QIs
      BY <1>1, <1>3, RulesHaveQIs DEF Collect, AllUp
    <2>2. observed' = [f \in Flows |-> IF f \in seen THEN session[f].five_qi
                                      ELSE NotObserved]
      BY <1>3 DEF Collect
    <2>3. observed' \in [Flows -> QIs \union {NotObserved}]
      BY <2>1, <2>2
    <2>4. UNCHANGED <<rules, session, running, allocations, receipts>>
      BY <1>3 DEF Collect, radio, records
    <2> QED
      BY <1>1, <2>3, <2>4 DEF DocumentsOK
  <1>4. CASE ProvisionUe
    <2>1. PICK u \in launch.todo :
            rules' = [f \in Flows |-> IF ueOf[f] = u THEN Declared ELSE rules[f]]
      BY <1>4 DEF ProvisionUe
    <2>2. rules' \in Rules
      BY <1>1, <2>1 DEF DocumentsOK, Rules
    <2>3. UNCHANGED <<session, running, observed, allocations, receipts>>
      BY <1>4 DEF ProvisionUe, radio, evidence, records
    <2> QED
      BY <1>1, <2>2, <2>3 DEF DocumentsOK
  <1>5. CASE UeUp
    <2>1. PICK u \in launch.todo : running' = running \union {u}
      BY <1>5 DEF UeUp
    <2>2. UNCHANGED <<rules, session, observed, allocations, receipts>>
      BY <1>5 DEF UeUp, evidence, records
    <2>3. u \in UEs
      BY DEF TypeInv, SwitchesOK
    <2> QED
      BY <1>1, <2>1, <2>2, <2>3 DEF DocumentsOK
  <1>6. CASE TrackerDies \/ BringUp \/ ProvisionAgain \/ GnbsUp \/ TelemetryUp
             \/ LaunchRaises
    <2>1. UNCHANGED <<rules, session, running, observed, allocations, receipts>>
      BY <1>6 DEF TrackerDies, BringUp, ProvisionAgain, GnbsUp, TelemetryUp, LaunchRaises,
         radio, evidence, records
    <2> QED
      BY <1>1, <2>1 DEF DocumentsOK
  <1> QED
    BY <1>2, <1>3, <1>4, <1>5, <1>6 DEF Environment

LEMMA StopsKeepDocuments ==
  ASSUME TypeInv, Stops
  PROVE  DocumentsOK'
  <1>1. DocumentsOK /\ NoRules \in Rules
    BY DeclaredIsARule DEF TypeInv
  <1>2. CASE GatewayDies
    <2>1. UNCHANGED <<rules, session, running, observed, allocations, receipts>>
      BY <1>2 DEF GatewayDies, radio, evidence, records
    <2> QED
      BY <1>1, <2>1 DEF DocumentsOK
  <1>3. CASE ComposeStop \/ ComposeDown \/ HostRestart
    <2>1. session' = [f \in Flows |-> Down] /\ running' = {}
          /\ UNCHANGED <<observed, allocations, receipts>>
      BY <1>3 DEF ComposeStop, ComposeDown, HostRestart, EverythingStops, records
    <2>2. rules' \in {rules, NoRules}
      BY <1>3 DEF ComposeStop, ComposeDown, HostRestart
    <2> QED
      BY <1>1, <2>1, <2>2 DEF DocumentsOK
  <1> QED
    BY <1>2, <1>3 DEF Stops

LEMMA StepKeepsDocuments == TypeInv /\ [Next]_vars => DocumentsOK'
  <1> SUFFICES ASSUME TypeInv, [Next]_vars PROVE DocumentsOK'
    OBVIOUS
  <1>1. ASSUME NEW p \in Requests, NEW f \in Flows, NEW x \in Policies, Accept(p, f, x)
        PROVE  DocumentsOK'
    <2>1. UNCHANGED <<rules, session, running, observed, allocations, receipts>>
      BY <1>1 DEF Accept, radio, evidence, records
    <2> QED
      BY <2>1 DEF TypeInv, DocumentsOK
  <1>2. CASE UNCHANGED vars
    BY <1>2 DEF vars, radio, evidence, records, TypeInv, DocumentsOK
  <1> QED
    BY <1>1, <1>2, NextSplit, ServingKeepsDocuments, EnvironmentKeepsDocuments,
       StopsKeepDocuments

-----------------------------------------------------------------------------
LEMMA StepKeepsSwitches == TypeInv /\ [Next]_vars => SwitchesOK'
  <1> SUFFICES ASSUME TypeInv, [Next]_vars PROVE SwitchesOK'
    OBVIOUS
  <1>1. SwitchesOK
    BY DEF TypeInv
  <1>2. ASSUME NEW p \in Requests, NEW f \in Flows, NEW x \in Policies, Accept(p, f, x)
        PROVE  SwitchesOK'
    BY <1>1, <1>2 DEF Accept, SwitchesOK, evidence, records
  <1>3. ASSUME NEW p \in Requests, Serve(p) PROVE SwitchesOK'
    <2>1. UNCHANGED <<tracker, gateway, launch, requests, launches, crashes>>
      BY <1>3 DEF Serve, GetSubscriber, PutSubscriber, ReadBack, RestartUe, PduReady,
         TrafficReady, WaitForSessions, Verify, WatchdogExpires, ListAllocations, Truncate,
         WriteAllocations, Receipt, Raise, evidence, counters
    <2> QED
      BY <1>1, <2>1 DEF SwitchesOK
  <1>4. CASE Environment
    <2>1. UNCHANGED <<requests, crashes>>
      BY <1>4 DEF Environment, Establish, Collect, TrackerDies, BringUp, ProvisionUe,
         ProvisionAgain, GnbsUp, UeUp, TelemetryUp, LaunchRaises, counters, records
    <2>2. launches' = launches \/ launches' = launches + 1
      BY <1>4 DEF Environment, Establish, Collect, TrackerDies, BringUp, ProvisionUe,
         ProvisionAgain, GnbsUp, UeUp, TelemetryUp, LaunchRaises, counters, NewLaunch
    <2>5. launches' \in Nat
      BY <1>1, <2>1, <2>2 DEF SwitchesOK
    <2>6. gateway' \in BOOLEAN
      BY <1>1, <1>4 DEF Environment, Establish, Collect, TrackerDies, BringUp, ProvisionUe,
         ProvisionAgain, GnbsUp, UeUp, TelemetryUp, LaunchRaises, SwitchesOK
    <2>3. tracker' \in {"off", "looking", "done"}
      BY <1>1, <1>4 DEF Environment, Establish, Collect, TrackerDies, BringUp, ProvisionUe,
         ProvisionAgain, GnbsUp, UeUp, TelemetryUp, LaunchRaises, evidence, SwitchesOK
    <2>4. launch' \in [at : {"idle", "provision", "ues"}, todo : SUBSET UEs]
      BY <1>1, <1>4 DEF Environment, Establish, Collect, TrackerDies, BringUp, ProvisionUe,
         ProvisionAgain, GnbsUp, UeUp, TelemetryUp, LaunchRaises, SwitchesOK, AtRest
    <2> QED
      BY <1>1, <2>1, <2>3, <2>4, <2>5, <2>6 DEF SwitchesOK
  <1>5. CASE Stops
    <2>1. gateway' = FALSE /\ requests' = requests
      BY <1>5 DEF Stops, ComposeStop, ComposeDown, GatewayDies, HostRestart,
         EverythingStops, records
    <2>2. launches' = launches \/ launches' = launches + 1
      BY <1>5 DEF Stops, ComposeStop, ComposeDown, GatewayDies, HostRestart, NewLaunch
    <2>3. crashes' = crashes \/ crashes' = crashes + 1
      BY <1>5 DEF Stops, ComposeStop, ComposeDown, GatewayDies, HostRestart, Crash
    <2>4. gateway' \in BOOLEAN
      BY <1>1, <2>1 DEF SwitchesOK
    <2>5. requests' \in Nat /\ launches' \in Nat /\ crashes' \in Nat
      BY <1>1, <2>1, <2>2, <2>3 DEF SwitchesOK
    <2>6. tracker' \in {"off", "looking", "done"}
      BY <1>1, <1>5 DEF Stops, ComposeStop, ComposeDown, GatewayDies, HostRestart,
         EverythingStops, evidence, SwitchesOK
    <2>7. launch' = launch \/ launch' = AtRest
      BY <1>5 DEF Stops, ComposeStop, ComposeDown, GatewayDies, HostRestart
    <2>8. launch' \in [at : {"idle", "provision", "ues"}, todo : SUBSET UEs]
      BY <1>1, <2>7 DEF SwitchesOK, AtRest
    <2> QED
      BY <2>4, <2>5, <2>6, <2>8 DEF SwitchesOK
  <1>6. CASE UNCHANGED vars
    BY <1>1, <1>6 DEF vars, evidence, records, counters, SwitchesOK
  <1> QED
    BY <1>2, <1>3, <1>4, <1>5, <1>6, NextSplit

LEMMA InitIsTyped == Init => TypeInv
  <1> SUFFICES ASSUME Init PROVE TypeInv
    OBVIOUS
  <1>1. RequestsOK
    BY DeclaredIsARule DEF Init, RequestsOK, NoRequests, Working, Idle
  <1>2. DocumentsOK
    BY DeclaredIsARule DEF Init, DocumentsOK, NotObserved
  <1>3. SwitchesOK
    BY DEF Init, SwitchesOK, AtRest
  <1> QED
    BY <1>1, <1>2, <1>3 DEF TypeInv

LEMMA TypeInvariant == Spec => []TypeInv
  <1>1. TypeInv /\ [Next]_vars => TypeInv'
    BY StepKeepsRequests, StepKeepsDocuments, StepKeepsSwitches DEF TypeInv
  <1> QED
    BY <1>1, InitIsTyped, PTL DEF Spec

(* Every variable holds a value of its kind, and a request under way has    *)
(* its lock file: for any flows, policies and requests, with any overlap,   *)
(* faults and crashes.                                                      *)
THEOREM PolicyTypeCorrect == Spec => []TypeOK
  BY TypeInvariant, TypeInvImpliesTypeOK, PTL
-----------------------------------------------------------------------------
(***************************************************************************)
(* One request at a time, and none beside a launcher.  What the request has *)
(* read is then still so, and what it has put into force stays in force.    *)
(***************************************************************************)
InForce == {"restart", "pdu", "traffic", "watch", "list", "truncate", "write", "snapshot"}
Restarted == InForce \ {"restart"}
Reconnected == Restarted \ {"pdu"}

Evidence(r) ==
  /\ r.at = "put" => r.copy = rules
  /\ r.at \in InForce => rules[r.flow] = r.policy
  /\ r.at \in Restarted => session[r.flow] \in {Down, r.policy}
  /\ r.at \in Reconnected => session[r.flow] # Down
  /\ r.at = "truncate" => r.copy = allocations
  /\ r.at = "write" => allocations = Lost
  /\ r.at = "snapshot" => allocations[r.flow] = r.policy

Alone ==
  /\ \A p, q \in Requests : Working(p) /\ Working(q) => p = q
  /\ \A p \in Requests : Working(p) => launch.at = "idle"

SerialInv == TypeInv /\ Alone /\ \A p \in Requests : Evidence(req[p])

LEMMA IdleNeedsNoEvidence ==
  ASSUME NEW r, r.at \in {"idle", "get", "readback"}
  PROVE  Evidence(r)
  BY DEF Evidence, InForce, Restarted, Reconnected

LEMMA PoliciesAreUp ==
  ASSUME NEW x \in Policies
  PROVE  x # Down /\ x \in Rule
  BY PoliciesAreRecords DEF Down, Rule

LEMMA GotoFields ==
  ASSUME RequestsOK, NEW p \in Requests, NEW s \in Steps, Goto(p, s)
  PROVE  /\ req'[p].at = s /\ req'[p].flow = req[p].flow
         /\ req'[p].policy = req[p].policy /\ req'[p].copy = req[p].copy
         /\ \A q \in Requests : q # p => req'[q] = req[q]
  <1>1. PICK r \in Request : /\ r.flow = req[p].flow /\ r.policy = req[p].policy
                             /\ r.at = s /\ r.copy = req[p].copy
                             /\ req' = [req EXCEPT ![p] = r]
    BY GotoIsAMove
  <1>2. req'[p] = r /\ \A q \in Requests : q # p => req'[q] = req[q]
    BY <1>1 DEF RequestsOK
  <1> QED
    BY <1>1, <1>2

LEMMA ReadingFields ==
  ASSUME RequestsOK, NEW p \in Requests, NEW s \in Steps, NEW c,
         req' = [req EXCEPT ![p].at = s, ![p].copy = c]
  PROVE  /\ req'[p].at = s /\ req'[p].flow = req[p].flow
         /\ req'[p].policy = req[p].policy /\ req'[p].copy = c
         /\ \A q \in Requests : q # p => req'[q] = req[q]
  <1> DEFINE r == [req[p] EXCEPT !.at = s, !.copy = c]
  <1>1. req[p] \in Request
    BY DEF RequestsOK
  <1>2. r.flow = req[p].flow /\ r.policy = req[p].policy /\ r.at = s /\ r.copy = c
    BY <1>1 DEF Request
  <1>3. req'[p] = r /\ \A q \in Requests : q # p => req'[q] = req[q]
    BY DEF RequestsOK
  <1> QED
    BY <1>2, <1>3

LEMMA LeavingFields ==
  ASSUME RequestsOK, NEW p \in Requests, Leave(p)
  PROVE  req'[p].at = "idle" /\ \A q \in Requests : q # p => req'[q] = req[q]
  <1>1. \A q \in Requests : req'[q] = IF q = p THEN Idle ELSE req[q]
    BY DEF RequestsOK, Leave
  <1> QED
    BY <1>1 DEF Idle

LEMMA ServingFields ==
  ASSUME TypeInv, NEW p \in Requests, Serve(p)
  PROVE  Working(p) /\ launch' = launch /\ \A q \in Requests : q # p => req'[q] = req[q]
  <1>1. Working(p) /\ launch' = launch /\ RequestsOK
    BY DEF Working, TypeInv, Serve, GetSubscriber, PutSubscriber, ReadBack,
       RestartUe, PduReady, TrafficReady, WaitForSessions, Verify, WatchdogExpires,
       ListAllocations, Truncate, WriteAllocations, Receipt, Raise
  <1>2. {"put", "readback", "restart", "pdu", "traffic", "watch", "list", "truncate",
         "write", "snapshot"} \subseteq Steps
    BY DEF Steps
  <1>3. CASE GetSubscriber(p)
    BY <1>1, <1>2, <1>3, ReadingFields DEF GetSubscriber
  <1>4. CASE ListAllocations(p)
    BY <1>1, <1>2, <1>4, ReadingFields, LeavingFields DEF ListAllocations
  <1>5. CASE PutSubscriber(p) \/ RestartUe(p) \/ PduReady(p) \/ TrafficReady(p)
    BY <1>1, <1>2, <1>5, GotoFields
       DEF PutSubscriber, RestartUe, PduReady, TrafficReady, WaitForSessions
  <1>6. CASE Verify(p) \/ Truncate(p) \/ WriteAllocations(p)
    BY <1>1, <1>2, <1>6, GotoFields DEF Verify, Truncate, WriteAllocations
  <1>7. CASE ReadBack(p)
    BY <1>1, <1>2, <1>7, GotoFields, LeavingFields DEF ReadBack
  <1>8. CASE WatchdogExpires(p) \/ Receipt(p) \/ Raise(p)
    BY <1>1, <1>8, LeavingFields DEF WatchdogExpires, Receipt, Raise
  <1> QED
    BY <1>1, <1>3, <1>4, <1>5, <1>6, <1>7, <1>8 DEF Serve

(* A request that read the document just now puts its own rule only.        *)
LEMMA PutChangesOneRule ==
  ASSUME SerialInv, NEW p \in Requests, PutSubscriber(p)
  PROVE  rules' = [rules EXCEPT ![req[p].flow] = req[p].policy]
  <1>1. rules' = Updated(req[p].copy, req[p].flow, req[p].policy) /\ req[p].at = "put"
    BY DEF PutSubscriber
  <1>2. req[p].copy = rules
    BY <1>1 DEF SerialInv, Evidence
  <1>3. rules \in [Flows -> Rule]
    BY DEF SerialInv, TypeInv, DocumentsOK, Rules
  <1> QED
    BY <1>1, <1>2, <1>3 DEF Updated

(* A request that writes finds the file as empty as it left it.             *)
LEMMA AloneWritesInPeace ==
  ASSUME NEW p \in Requests, Evidence(req[p]), WriteAllocations(p)
  PROVE  allocations' = [req[p].copy EXCEPT ![req[p].flow] = req[p].policy]
  BY DEF WriteAllocations, Evidence

LEMMA ServingKeepsEvidence ==
  ASSUME SerialInv, NEW p \in Requests, Serve(p)
  PROVE  Evidence(req[p])'
  <1> DEFINE f == req[p].flow
             x == req[p].policy
  <1>1. /\ RequestsOK /\ Working(p) /\ Evidence(req[p]) /\ f \in Flows /\ x \in Policies
    BY ServingFields DEF SerialInv, TypeInv, RequestsOK
  <1>2. x # Down
    BY <1>1, PoliciesAreUp
  <1>3. /\ rules \in [Flows -> Rule] /\ req[p].copy \in [Flows -> Rule]
        /\ session \in [Flows -> Rule \union {Down}]
    BY <1>1 DEF SerialInv, TypeInv, DocumentsOK, RequestsOK, Request, Rules
  <1>4. /\ InForce \subseteq Steps /\ Restarted \subseteq InForce
        /\ Reconnected \subseteq Restarted /\ {"put", "readback"} \subseteq Steps
    BY DEF InForce, Restarted, Reconnected, Steps
  <1>5. CASE GetSubscriber(p)
    <2>1. req'[p].at = "put" /\ req'[p].copy = rules /\ rules' = rules
      BY <1>1, <1>4, <1>5, ReadingFields DEF GetSubscriber
    <2> QED
      BY <2>1 DEF Evidence, InForce, Restarted, Reconnected
  <1>6. CASE PutSubscriber(p)
    <2>1. req'[p].at = "readback"
      BY <1>1, <1>4, <1>6, GotoFields DEF PutSubscriber
    <2> QED
      BY <2>1 DEF Evidence, InForce, Restarted, Reconnected
  <1>7. CASE ReadBack(p)
    <2>1. CASE rules[f] = x
      <3>1. "restart" \in Steps /\ Goto(p, "restart") /\ rules' = rules
        BY <1>7, <2>1 DEF ReadBack, Steps
      <3>2. /\ req'[p].at = "restart" /\ req'[p].flow = f /\ req'[p].policy = x
        BY <1>1, <3>1, GotoFields
      <3> QED
        BY <2>1, <3>1, <3>2 DEF Evidence, InForce, Restarted, Reconnected
    <2>2. CASE rules[f] # x
      <3>1. req'[p].at = "idle"
        BY <1>1, <1>7, <2>2, LeavingFields DEF ReadBack
      <3> QED
        BY <3>1 DEF Evidence, InForce, Restarted, Reconnected
    <2> QED
      BY <2>1, <2>2
  <1>8. CASE RestartUe(p)
    <2>1. "pdu" \in Steps /\ Goto(p, "pdu") /\ rules' = rules /\ req[p].at = "restart"
      BY <1>8 DEF RestartUe, Steps
    <2>2. req'[p].at = "pdu" /\ req'[p].flow = f /\ req'[p].policy = x
      BY <1>1, <2>1, GotoFields
    <2>3. rules[f] = x
      BY <1>1, <2>1 DEF Evidence, InForce
    <2>4. session'[f] = Down
      BY <1>1, <1>8 DEF RestartUe, Siblings, FlowsOf
    <2> QED
      BY <2>1, <2>2, <2>3, <2>4 DEF Evidence, InForce, Restarted, Reconnected
  <1>9. CASE PduReady(p)
    <2>1. /\ "traffic" \in Steps /\ Goto(p, "traffic") /\ UNCHANGED <<rules, session>>
          /\ req[p].at = "pdu" /\ AllUp(Siblings(f))
      BY <1>9 DEF PduReady, WaitForSessions, Steps, radio
    <2>2. req'[p].at = "traffic" /\ req'[p].flow = f /\ req'[p].policy = x
      BY <1>1, <2>1, GotoFields
    <2>3. rules[f] = x /\ session[f] \in {Down, x}
      BY <1>1, <2>1 DEF Evidence, InForce, Restarted
    <2>4. session[f] # Down
      BY <1>1, <2>1 DEF AllUp, Siblings, FlowsOf
    <2> QED
      BY <2>1, <2>2, <2>3, <2>4 DEF Evidence, InForce, Restarted, Reconnected
  <1>10. CASE TrafficReady(p) \/ Verify(p)
    <2>1. PICK s \in {"watch", "list"} :
            /\ s \in Steps /\ Goto(p, s) /\ UNCHANGED <<rules, session>>
            /\ req[p].at \in {"traffic", "watch"}
      BY <1>10 DEF TrafficReady, WaitForSessions, Verify, Steps, radio
    <2>2. req'[p].at = s /\ req'[p].flow = f /\ req'[p].policy = x
      BY <1>1, <2>1, GotoFields
    <2>3. rules[f] = x /\ session[f] \in {Down, x} /\ session[f] # Down
      BY <1>1, <2>1 DEF Evidence, InForce, Restarted, Reconnected
    <2> QED
      BY <2>1, <2>2, <2>3 DEF Evidence, InForce, Restarted, Reconnected
  <1>11. CASE ListAllocations(p)
    <2>1. CASE Readable
      <3>1. req[p] \in Request
        BY <1>1 DEF RequestsOK
      <3>2. req'[p] = [req[p] EXCEPT !.at = "truncate", !.copy = allocations]
        BY <1>1, <1>11, <2>1 DEF ListAllocations, RequestsOK
      <3>3. /\ req'[p].at = "truncate" /\ req'[p].flow = f /\ req'[p].policy = x
            /\ req'[p].copy = allocations
        BY <3>1, <3>2 DEF Request
      <3>4. req[p].at = "list" /\ UNCHANGED <<rules, session, allocations>>
        BY <1>11 DEF ListAllocations, radio, records
      <3>5. rules[f] = x /\ session[f] \in {Down, x} /\ session[f] # Down
        BY <1>1, <3>4 DEF Evidence, InForce, Restarted, Reconnected
      <3> QED
        BY <3>3, <3>4, <3>5 DEF Evidence, InForce, Restarted, Reconnected
    <2>2. CASE ~Readable
      <3>1. req'[p].at = "idle"
        BY <1>1, <1>11, <2>2, LeavingFields DEF ListAllocations
      <3> QED
        BY <3>1 DEF Evidence, InForce, Restarted, Reconnected
    <2> QED
      BY <2>1, <2>2
  <1>12. CASE Truncate(p)
    <2>1. /\ "write" \in Steps /\ Goto(p, "write") /\ req[p].at = "truncate"
          /\ UNCHANGED <<rules, session>> /\ allocations' = Lost
      BY <1>12 DEF Truncate, Steps, radio
    <2>2. req'[p].at = "write" /\ req'[p].flow = f /\ req'[p].policy = x
      BY <1>1, <2>1, GotoFields
    <2>3. rules[f] = x /\ session[f] \in {Down, x} /\ session[f] # Down
      BY <1>1, <2>1 DEF Evidence, InForce, Restarted, Reconnected
    <2> QED
      BY <2>1, <2>2, <2>3 DEF Evidence, InForce, Restarted, Reconnected, Lost
  <1>13. CASE WriteAllocations(p)
    <2>1. /\ "snapshot" \in Steps /\ Goto(p, "snapshot") /\ UNCHANGED <<rules, session>>
          /\ allocations' = [req[p].copy EXCEPT ![f] = x] /\ req[p].at = "write"
      BY <1>1, <1>13, AloneWritesInPeace
         DEF WriteAllocations, Steps, radio
    <2>2. req'[p].at = "snapshot" /\ req'[p].flow = f /\ req'[p].policy = x
      BY <1>1, <2>1, GotoFields
    <2>3. rules[f] = x /\ session[f] \in {Down, x} /\ session[f] # Down
      BY <1>1, <2>1 DEF Evidence, InForce, Restarted, Reconnected
    <2>4. allocations'[f] = x
      BY <1>1, <1>3, <2>1
    <2> QED
      BY <2>1, <2>2, <2>3, <2>4 DEF Evidence, InForce, Restarted, Reconnected
  <1>14. CASE WatchdogExpires(p) \/ Receipt(p) \/ Raise(p)
    <2>1. req'[p].at = "idle"
      BY <1>1, <1>14, LeavingFields DEF WatchdogExpires, Receipt, Raise
    <2> QED
      BY <2>1 DEF Evidence, InForce, Restarted, Reconnected
  <1> QED
    BY <1>5, <1>6, <1>7, <1>8, <1>9, <1>10, <1>11, <1>12, <1>13, <1>14 DEF Serve
LEMMA NoneWorkingIsSerial ==
  ASSUME \A p \in Requests : ~Working(p)
  PROVE  Alone /\ \A p \in Requests : Evidence(req[p])
  BY IdleNeedsNoEvidence DEF Alone, Working

LEMMA NoRequestsAreWorking ==
  ASSUME req = NoRequests, NEW p \in Requests
  PROVE  ~Working(p)
  BY DEF NoRequests, Idle, Working

LEMMA ServingStaysSerial ==
  ASSUME SerialInv, NEW p \in Requests, Serve(p)
  PROVE  Alone' /\ \A q \in Requests : Evidence(req[q])'
  <1>1. /\ Working(p) /\ launch' = launch /\ launch.at = "idle"
        /\ \A q \in Requests : q # p => req'[q] = req[q] /\ req[q].at = "idle"
    BY ServingFields DEF SerialInv, Alone, Working
  <1>2. \A q \in Requests : q # p => Evidence(req[q])'
    BY <1>1 DEF Evidence, InForce, Restarted, Reconnected
  <1> QED
    BY <1>1, <1>2, ServingKeepsEvidence DEF Alone, Working

LEMMA AcceptingStaysSerial ==
  ASSUME SerialInv, ~Overlapping, NEW p \in Requests, NEW f \in Flows, NEW x \in Policies,
         Accept(p, f, x)
  PROVE  Alone' /\ \A q \in Requests : Evidence(req[q])'
  <1>1. /\ req = NoRequests /\ launch.at = "idle" /\ launch' = launch
        /\ req' = [req EXCEPT ![p] = [Idle EXCEPT !.at = "get", !.flow = f, !.policy = x]]
    BY DEF Accept
  <1>2. req'[p].at = "get" /\ \A q \in Requests : q # p => req'[q].at = "idle"
    BY <1>1 DEF NoRequests, Idle
  <1>3. \A q \in Requests : Evidence(req[q])'
    BY <1>2 DEF Evidence, InForce, Restarted, Reconnected
  <1> QED
    BY <1>1, <1>2, <1>3 DEF Alone, Working

LEMMA EnvironmentStaysSerial ==
  ASSUME SerialInv, ~Overlapping, Environment
  PROVE  Alone' /\ \A q \in Requests : Evidence(req[q])'
  <1>1. req' = req
    BY EnvironmentLeavesRequests
  <1>2. ASSUME NEW f \in Flows, Establish(f)
        PROVE  Alone' /\ \A q \in Requests : Evidence(req[q])'
    <2>1. /\ session' = [session EXCEPT ![f] = rules[f]]
          /\ UNCHANGED <<rules, allocations, launch>>
      BY <1>2 DEF Establish, records
    <2>2. ASSUME NEW q \in Requests PROVE Evidence(req[q])'
      <3>1. Working(q) => req[q].policy \in Policies /\ req[q].policy # Down
        BY PoliciesAreUp DEF SerialInv, TypeInv, RequestsOK
      <3>2. \A g \in Flows : session'[g] = IF g = f THEN rules[f] ELSE session[g]
        BY <2>1 DEF SerialInv, TypeInv, DocumentsOK
      <3>3. Evidence(req[q])
        BY DEF SerialInv
      <3>4. Working(q) => req[q].flow \in Flows
        BY DEF SerialInv, TypeInv, RequestsOK
      <3> QED
        BY <1>1, <2>1, <3>1, <3>2, <3>3, <3>4
           DEF Evidence, Working, InForce, Restarted, Reconnected
    <2> QED
      BY <1>1, <2>1, <2>2 DEF SerialInv, Alone, Working
  <1>3. ASSUME NEW seen \in SUBSET Flows, Collect(seen)
        PROVE  Alone' /\ \A q \in Requests : Evidence(req[q])'
    BY <1>1, <1>3 DEF Collect, radio, records, SerialInv, Alone, Working, Evidence
  <1>4. CASE TrackerDies
    BY <1>1, <1>4 DEF TrackerDies, radio, records, SerialInv, Alone, Working, Evidence
  <1>5. CASE BringUp
    <2>1. req = NoRequests
      BY <1>5 DEF BringUp, NewLaunch
    <2>2. \A q \in Requests : ~Working(q)'
      BY <1>1, <2>1 DEF NoRequests, Idle, Working
    <2> QED
      BY <2>2 DEF Alone, Working, Evidence, InForce, Restarted, Reconnected
  <1>6. CASE ProvisionUe \/ ProvisionAgain \/ GnbsUp \/ UeUp \/ TelemetryUp \/ LaunchRaises
    <2>1. launch.at # "idle"
      BY <1>6 DEF ProvisionUe, ProvisionAgain, GnbsUp, UeUp, TelemetryUp, LaunchRaises
    <2>2. \A q \in Requests : ~Working(q)'
      BY <1>1, <2>1 DEF SerialInv, Alone, Working
    <2> QED
      BY <2>2 DEF Alone, Working, Evidence, InForce, Restarted, Reconnected
  <1> QED
    BY <1>2, <1>3, <1>4, <1>5, <1>6 DEF Environment

LEMMA SerialInvariant ==
  ASSUME ~Overlapping
  PROVE  Spec => []SerialInv
  <1>1. Init => SerialInv
    <2> SUFFICES ASSUME Init PROVE SerialInv
      OBVIOUS
    <2>1. TypeInv /\ req = NoRequests
      BY InitIsTyped DEF Init
    <2> QED
      BY <2>1, NoRequestsAreWorking, NoneWorkingIsSerial DEF SerialInv
  <1>2. SerialInv /\ [Next]_vars => SerialInv'
    <2> SUFFICES ASSUME SerialInv, [Next]_vars PROVE SerialInv'
      OBVIOUS
    <2>1. TypeInv'
      BY StepKeepsRequests, StepKeepsDocuments, StepKeepsSwitches DEF SerialInv, TypeInv
    <2>2. CASE Stops
      <3>1. \A q \in Requests : ~Working(q)'
        BY <2>2, StopsEndRequests DEF NoRequests, Idle, Working
      <3>2. Alone' /\ \A q \in Requests : Evidence(req[q])'
        BY <3>1 DEF Alone, Working, Evidence, InForce, Restarted, Reconnected
      <3> QED
        BY <2>1, <3>2 DEF SerialInv
    <2>3. CASE UNCHANGED vars
      BY <2>1, <2>3 DEF vars, radio, records, SerialInv, Alone, Working, Evidence
    <2> QED
      BY <2>1, <2>2, <2>3, NextSplit, AcceptingStaysSerial, ServingStaysSerial,
         EnvironmentStaysSerial DEF SerialInv
  <1> QED
    BY <1>1, <1>2, PTL DEF Spec
-----------------------------------------------------------------------------
(* A receipt with status verified is true when it is written: rule, session *)
(* and allocation are what the request asked for, as long as requests and   *)
(* bring-ups do not overlap, through faults and crashes.                    *)
THEOREM SerialReceiptsAreTrue ==
  ASSUME ~Overlapping
  PROVE  Spec => ReceiptIsTrue
  <1> DEFINE True(p) == /\ rules[req[p].flow] = req[p].policy
                        /\ session[req[p].flow] = req[p].policy
                        /\ allocations[req[p].flow] = req[p].policy
             Told == \A p \in Requests :
               req[p].at = "snapshot" /\ receipts' # receipts /\ req'[p].at = "idle" =>
                 True(p)
  <1>1. SerialInv => Told
    BY DEF SerialInv, Evidence, InForce, Restarted, Reconnected
  <1>2. SerialInv /\ [Next]_vars => [Told]_vars
    BY <1>1
  <1>3. [][Told]_vars => ReceiptIsTrue
    BY PTL DEF ReceiptIsTrue
  <1> QED
    BY <1>2, <1>3, SerialInvariant, PTL DEF Spec

(* What is known of the allocations while nobody writes, and while one does. *)
Held(r, a) ==
  LET writers == {p \in Requests : r[p].at = "write"} IN
  IF writers = {} THEN a ELSE r[CHOOSE p \in writers : TRUE].copy

LEMMA KnownIsHeld ==
  Known = Held(req, allocations) /\ Known' = Held(req', allocations')
  BY DEF Known, Held

LEMMA NobodyWrites ==
  ASSUME NEW r, NEW a, \A q \in Requests : r[q].at # "write"
  PROVE  Held(r, a) = a
  BY DEF Held

LEMMA OnlyOneToChoose ==
  ASSUME NEW S, NEW e \in S, \A d \in S : d = e
  PROVE  (CHOOSE d \in S : TRUE) = e
  OBVIOUS

LEMMA OneWrites ==
  ASSUME NEW r, NEW a, NEW p \in Requests, r[p].at = "write",
         \A q \in Requests : q # p => r[q].at # "write"
  PROVE  Held(r, a) = r[p].copy
  <1> DEFINE writers == {q \in Requests : r[q].at = "write"}
  <1>1. p \in writers /\ \A q \in writers : q = p
    OBVIOUS
  <1>2. (CHOOSE q \in writers : TRUE) = p
    BY <1>1, OnlyOneToChoose
  <1>3. Held(r, a) = IF writers = {} THEN a ELSE r[CHOOSE q \in writers : TRUE].copy
    BY DEF Held
  <1> QED
    BY <1>1, <1>2, <1>3

(* Only after a truncation is a request about to write.                     *)
LEMMA OnlyTruncationLeadsToWrite ==
  ASSUME TypeInv, NEW p \in Requests, Serve(p), ~Truncate(p)
  PROVE  req'[p].at # "write"
  <1>1. RequestsOK
    BY DEF TypeInv
  <1>2. {"put", "readback", "restart", "pdu", "traffic", "watch", "list", "truncate",
         "write", "snapshot"} \subseteq Steps
    BY DEF Steps
  <1>3. CASE GetSubscriber(p) \/ ListAllocations(p)
    BY <1>1, <1>2, <1>3, ReadingFields, LeavingFields DEF GetSubscriber, ListAllocations
  <1>4. CASE PutSubscriber(p) \/ RestartUe(p) \/ PduReady(p) \/ TrafficReady(p)
    BY <1>1, <1>2, <1>4, GotoFields
       DEF PutSubscriber, RestartUe, PduReady, TrafficReady, WaitForSessions
  <1>5. CASE Verify(p) \/ WriteAllocations(p)
    BY <1>1, <1>2, <1>5, GotoFields DEF Verify, WriteAllocations
  <1>6. CASE ReadBack(p)
    BY <1>1, <1>2, <1>6, GotoFields, LeavingFields DEF ReadBack
  <1>7. CASE WatchdogExpires(p) \/ Receipt(p) \/ Raise(p)
    BY <1>1, <1>7, LeavingFields DEF WatchdogExpires, Receipt, Raise
  <1> QED
    BY <1>3, <1>4, <1>5, <1>6, <1>7 DEF Serve

LEMMA NothingToWrite ==
  ASSUME NEW a
  PROVE  Held(NoRequests, a) = a
  BY NobodyWrites DEF NoRequests, Idle

(* The abstract state, of which the crashes are counted as they are.        *)
promised == <<rules, Known, crashes>>

LEMMA ServingIsPromised ==
  ASSUME SerialInv, NEW p \in Requests, Serve(p)
  PROVE  Promise!Next \/ UNCHANGED promised
  <1>1. /\ req[p].flow \in Flows /\ req[p].policy \in Policies /\ req[p].copy \in Rules
        /\ Evidence(req[p]) /\ RequestsOK /\ TypeInv /\ Working(p)
    BY ServingFields DEF SerialInv, TypeInv, RequestsOK, Request
  <1>2. \A q \in Requests : q # p => req[q].at # "write" /\ req'[q].at # "write"
    BY <1>1, ServingFields DEF SerialInv, Alone, Working
  <1>3. crashes' = crashes
    BY DEF Serve, GetSubscriber, PutSubscriber, ReadBack, RestartUe, PduReady,
       TrafficReady, WaitForSessions, Verify, WatchdogExpires, ListAllocations, Truncate,
       WriteAllocations, Receipt, Raise, counters
  <1>4. CASE Truncate(p)
    <2>1. /\ req[p].at = "truncate" /\ Goto(p, "write") /\ "write" \in Steps
          /\ rules' = rules /\ req[p].copy = allocations
      BY <1>1, <1>4 DEF Truncate, Steps, Evidence
    <2>2. req'[p].at = "write" /\ req'[p].copy = req[p].copy
      BY <1>1, <2>1, GotoFields
    <2>3. Known = allocations
      BY <1>2, <2>1, NobodyWrites, KnownIsHeld
    <2>4. Known' = req'[p].copy
      BY <1>2, <2>2, OneWrites, KnownIsHeld
    <2> QED
      BY <1>3, <2>1, <2>2, <2>3, <2>4 DEF promised
  <1>5. CASE WriteAllocations(p)
    <2>1. /\ req[p].at = "write" /\ rules' = rules
          /\ allocations' = [req[p].copy EXCEPT ![req[p].flow] = req[p].policy]
      BY <1>1, <1>5, AloneWritesInPeace DEF WriteAllocations
    <2>2. rules[req[p].flow] = req[p].policy
      BY <1>1, <2>1 DEF Evidence, InForce
    <2>3. Known = req[p].copy
      BY <1>2, <2>1, OneWrites, KnownIsHeld
    <2>4. Known' = allocations'
      <3>1. \A q \in Requests : req'[q].at # "write"
        BY <1>1, <1>2, <1>5, <2>1, OnlyTruncationLeadsToWrite DEF Truncate
      <3> QED
        BY <3>1, NobodyWrites, KnownIsHeld
    <2>5. Known # Promise!Lost
      BY <1>1, <2>3, RulesAreReadable DEF Unreadable, Lost, Promise!Lost
    <2>6. Promise!Allocate(req[p].flow)
      BY <1>3, <2>1, <2>2, <2>3, <2>4, <2>5 DEF Promise!Allocate
    <2> QED
      BY <1>1, <2>6 DEF Promise!Next
  <1>6. CASE ~Truncate(p) /\ ~WriteAllocations(p)
    <2>1. allocations' = allocations /\ req[p].at # "write"
      BY <1>6 DEF Serve, GetSubscriber, PutSubscriber, ReadBack, RestartUe, PduReady,
         TrafficReady, WaitForSessions, Verify, WatchdogExpires, ListAllocations,
         Receipt, Raise, records, Steps
    <2>2. Known = allocations /\ Known' = allocations'
      <3>1. \A q \in Requests : req[q].at # "write" /\ req'[q].at # "write"
        BY <1>1, <1>2, <1>6, <2>1, OnlyTruncationLeadsToWrite
      <3> QED
        BY <3>1, NobodyWrites, KnownIsHeld
    <2>3. CASE PutSubscriber(p)
      <3>1. Promise!Put(req[p].flow, req[p].policy)
        BY <1>3, <2>1, <2>2, <2>3, PutChangesOneRule DEF Promise!Put
      <3> QED
        BY <1>1, <3>1 DEF Promise!Next
    <2>4. CASE ~PutSubscriber(p)
      <3>1. rules' = rules
        BY <1>6, <2>4 DEF Serve, GetSubscriber, ReadBack, RestartUe, PduReady,
           TrafficReady, WaitForSessions, Verify, WatchdogExpires, ListAllocations,
           Receipt, Raise
      <3> QED
        BY <1>3, <2>1, <2>2, <3>1 DEF promised
    <2> QED
      BY <2>3, <2>4
  <1> QED
    BY <1>4, <1>5, <1>6

LEMMA EnvironmentIsPromised ==
  ASSUME SerialInv, Environment
  PROVE  Promise!Next \/ UNCHANGED promised
  <1>1. Known' = Known /\ crashes' = crashes
    BY EnvironmentLeavesRequests DEF Known
  <1>2. CASE ProvisionUe
    <2>1. PICK u \in launch.todo :
            rules' = [f \in Flows |-> IF ueOf[f] = u THEN Declared ELSE rules[f]]
      BY <1>2 DEF ProvisionUe
    <2>2. u \in UEs
      BY DEF SerialInv, TypeInv, SwitchesOK
    <2>3. Promise!Provision({u})
      BY <1>1, <2>1 DEF Promise!Provision, Promise!Declared, Declared
    <2> QED
      BY <2>2, <2>3 DEF Promise!Next
  <1>3. CASE ~ProvisionUe
    <2>1. rules' = rules
      BY <1>3 DEF Environment, Establish, Collect, TrackerDies, BringUp, ProvisionAgain,
         GnbsUp, UeUp, TelemetryUp, LaunchRaises
    <2> QED
      BY <1>1, <2>1 DEF promised
  <1> QED
    BY <1>2, <1>3

(* A gateway or a host that dies takes a write under way with it.           *)
LEMMA StoppingIsPromised ==
  ASSUME SerialInv, ~Overlapping, Stops
  PROVE  Promise!Next \/ UNCHANGED promised
  <1>1. Known' = allocations /\ allocations' = allocations
    BY StopsEndRequests, NothingToWrite, KnownIsHeld
  <1>2. CASE ComposeStop \/ ComposeDown
    <2>1. req = NoRequests /\ crashes' = crashes
      BY <1>2 DEF ComposeStop, ComposeDown, NewLaunch
    <2>2. Known' = Known
      BY <1>1, <2>1, NothingToWrite, KnownIsHeld
    <2>3. CASE ComposeStop
      BY <2>1, <2>2, <2>3 DEF ComposeStop, promised
    <2>4. CASE ComposeDown
      <3>1. Promise!Provision(UEs)
        BY <2>1, <2>2, <2>4, FlowsHaveUEs
           DEF ComposeDown, NoRules, Promise!Provision, Promise!Declared, Declared
      <3> QED
        BY <3>1 DEF Promise!Next
    <2> QED
      BY <1>2, <2>3, <2>4
  <1>3. CASE GatewayDies \/ HostRestart
    <2>1. crashes' = crashes + 1 /\ rules' = rules
      BY <1>3 DEF GatewayDies, HostRestart, Crash
    <2>2. allocations \in {Known, Lost}
      <3>1. CASE \A q \in Requests : req[q].at # "write"
        BY <3>1, NobodyWrites, KnownIsHeld
      <3>2. CASE \E q \in Requests : req[q].at = "write"
        BY <3>2 DEF SerialInv, Evidence
      <3> QED
        BY <3>1, <3>2
    <2>3. Promise!Crash
      BY <1>1, <2>1, <2>2 DEF Promise!Crash, Promise!Lost, Lost
    <2> QED
      BY <2>3 DEF Promise!Next
  <1> QED
    BY <1>2, <1>3 DEF Stops

(* Without overlap an action changes the rule and then the allocation of    *)
(* its own flow, and allocates only what is in force.  Nothing but a crash  *)
(* loses allocations, and it may lose them all.                             *)
THEOREM SerialRefinesFlowPolicies ==
  ASSUME ~Overlapping
  PROVE  Spec => ImplementsFlowPolicies
  <1>1. Init => Promise!Init
    BY NothingToWrite, KnownIsHeld DEF Init, Promise!Init, NoRules, Promise!Declared, Declared
  <1>2. SerialInv /\ [Next]_vars => [Promise!Next]_promised
    <2> SUFFICES ASSUME SerialInv, [Next]_vars PROVE Promise!Next \/ UNCHANGED promised
      OBVIOUS
    <2>1. ASSUME NEW p \in Requests, NEW f \in Flows, NEW x \in Policies, Accept(p, f, x)
          PROVE  UNCHANGED promised
      <3>1. /\ req = NoRequests /\ UNCHANGED <<rules, allocations, crashes>>
            /\ req' = [req EXCEPT ![p] = [Idle EXCEPT !.at = "get", !.flow = f, !.policy = x]]
        BY <2>1 DEF Accept, records
      <3>2. \A q \in Requests : req'[q].at # "write"
        BY <3>1 DEF NoRequests, Idle
      <3>3. Known = allocations /\ Known' = allocations'
        BY <3>1, <3>2, NothingToWrite, NobodyWrites, KnownIsHeld
      <3> QED
        BY <3>1, <3>3 DEF promised
    <2>2. CASE UNCHANGED vars
      BY <2>2 DEF vars, records, counters, promised, Known
    <2> QED
      BY <2>1, <2>2, NextSplit, ServingIsPromised, EnvironmentIsPromised,
         StoppingIsPromised
  <1> QED
    BY <1>1, <1>2, SerialInvariant, PTL DEF Spec, ImplementsFlowPolicies, Promise!Spec,
       promised
===============================================================================

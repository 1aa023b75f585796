---------------------------- MODULE TrafficSidecar ----------------------------
(***************************************************************************)
(* The traffic sidecar of one UE (traffic/exporter.py): a thread per flow   *)
(* that makes its traffic, a thread per flow that pings its destination,    *)
(* the children iperf3 and ping they read from, and the main thread that    *)
(* waits for the first exception.  They share the event stop and the gauge  *)
(* COMPAT_TRAFFIC_RUNNING.                                                  *)
(*                                                                         *)
(* A UE has at most one UDP flow here, whose loop is UdpFlow.  A thread     *)
(* that reads from a child waits for its next line without a deadline and   *)
(* looks at stop when it has one.                                           *)
(***************************************************************************)
EXTENDS UdpFlow

CONSTANTS
  Flows,      \* the flows of the scenario
  protocol,   \* "tcp", "udp" or "http" for each of them
  UEs,        \* the UEs of the scenario
  flowsOf     \* the flows of each of them

ASSUME ProtocolsAreKnown == protocol \in [Flows -> {"tcp", "udp", "http"}]
ASSUME OneUdpFlow ==
  \A f, g \in Flows : protocol[f] = "udp" /\ protocol[g] = "udp" => f = g
ASSUME FlowsAreFinite == IsFiniteSet(Flows)
(* load_profiles raises for a UE without flows.                             *)
ASSUME EveryUeHasAFlow == \A e \in UEs : flowsOf[e] \in (SUBSET Flows) \ {{}}

VARIABLES
  profiles,   \* the flows load_profiles selects for the UE of this sidecar
  worker,     \* the state of each thread of the pool
  child,      \* the process a thread reads from
  line,       \* has the process written a line that nobody has read?
  stop,       \* the event
  main,       \* the main thread
  errors,     \* COMPAT_STREAM_ERRORS
  compat      \* COMPAT_TRAFFIC_RUNNING

sidecarVars == <<profiles, worker, child, line, stop, main, errors, compat>>
vars == <<flowVars, sidecarVars>>

Workers == {"traffic", "ping"} \X Flows
Submitted == {"traffic", "ping"} \X profiles
Udp(w) == w[1] = "traffic" /\ protocol[w[2]] = "udp"
Reading(w) == w[1] = "ping" \/ protocol[w[2]] = "tcp"
ChildWorkers == {w \in Workers : Reading(w)}

Finished == {"done", "failed"}
Active == {"running", "ending", "raising"}
Failed == {w \in Submitted : worker[w] = "failed"}
Exited == {"ended", "raised"}

Init ==
  /\ FlowInit
  /\ \E e \in UEs : profiles = flowsOf[e]
  /\ worker = [w \in Workers |-> "queued"]
  /\ child = [w \in Workers |-> "none"] /\ line = [w \in Workers |-> FALSE]
  /\ stop = FALSE /\ main = "waiting" /\ errors = 0 /\ compat = FALSE

Becomes(w, s) == worker' = [worker EXCEPT ![w] = s]

(* The gauge all flows share; ping has one of its own.                      *)
Flag(w, value) == compat' = IF w[1] = "traffic" THEN value ELSE compat

-----------------------------------------------------------------------------
(* A thread starts: the child or the socket, then the gauges.               *)

Start(w) ==
  /\ w \in Submitted /\ worker[w] = "queued"
  /\ Becomes(w, "running") /\ Flag(w, TRUE)
  /\ child' = IF Reading(w) THEN [child EXCEPT ![w] = "running"] ELSE child
  /\ IF Udp(w) THEN Open ELSE UNCHANGED flowVars
  /\ UNCHANGED <<profiles, line, stop, main, errors>>

(* Popen, or setting up the socket, raises before any gauge is set.         *)
CannotStart(w) ==
  /\ w \in Submitted /\ worker[w] = "queued"
  /\ Becomes(w, "failed")
  /\ UNCHANGED <<flowVars, profiles, child, line, stop, main, errors, compat>>

-----------------------------------------------------------------------------
(* _traffic_worker and _ping_worker.                                        *)

ReadLine(w) ==
  /\ Reading(w) /\ worker[w] = "running" /\ line[w]
  /\ line' = [line EXCEPT ![w] = FALSE]
  /\ Becomes(w, IF stop THEN "ending" ELSE "running")
  /\ UNCHANGED <<flowVars, profiles, child, stop, main, errors, compat>>

(* The child has ended and is waited for; its exit code matters unless stop *)
(* is set.                                                                  *)
ReadEnd(w) ==
  /\ Reading(w) /\ worker[w] = "running" /\ ~line[w] /\ child[w] # "running"
  /\ Becomes(w, IF stop \/ child[w] = "ok" THEN "ending" ELSE "raising")
  /\ child' = [child EXCEPT ![w] = "none"]
  /\ UNCHANGED <<flowVars, profiles, line, stop, main, errors, compat>>

(* Mutant: the gauge is reset after the try and not in its finally.         *)
CleanUpIfWell(w) ==
  /\ worker[w] \in {"ending", "raising"}
  /\ IF worker[w] = "ending" THEN Flag(w, FALSE) ELSE UNCHANGED compat
  /\ \/ /\ child' = [child EXCEPT ![w] = "none"]
        /\ line' = [line EXCEPT ![w] = FALSE]
        /\ Becomes(w, IF worker[w] = "ending" THEN "done" ELSE "failed")
     \/ child[w] = "running" /\ UNCHANGED <<child, line>> /\ Becomes(w, "failed")
  /\ UNCHANGED <<flowVars, profiles, stop, main, errors>>

(* The finally: a child that still runs is terminated; if it does not end   *)
(* within five seconds, that is an exception.                               *)
CleanUp(w) ==
  /\ worker[w] \in {"ending", "raising"}
  /\ Flag(w, FALSE)
  /\ \/ /\ child' = [child EXCEPT ![w] = "none"]
        /\ line' = [line EXCEPT ![w] = FALSE]
        /\ Becomes(w, IF worker[w] = "ending" THEN "done" ELSE "failed")
     \/ child[w] = "running" /\ UNCHANGED <<child, line>> /\ Becomes(w, "failed")
  /\ UNCHANGED <<flowVars, profiles, stop, main, errors>>

(* The children, which no fairness is assumed of: ping writes nothing while *)
(* no reply comes.                                                          *)
ChildWrites(w) ==
  /\ child[w] = "running" /\ ~line[w]
  /\ line' = [line EXCEPT ![w] = TRUE]
  /\ UNCHANGED <<flowVars, profiles, worker, child, stop, main, errors, compat>>

ChildEnds(w) ==
  /\ child[w] = "running"
  /\ \E code \in {"ok", "bad"} : child' = [child EXCEPT ![w] = code]
  /\ UNCHANGED <<flowVars, profiles, worker, line, stop, main, errors, compat>>

-----------------------------------------------------------------------------
(* _udp_worker and _http_worker look at stop once per iteration, and every  *)
(* call they make has a deadline.  An HTTP request that succeeds changes    *)
(* nothing that is kept here.                                               *)

UdpStep(w) ==
  /\ Udp(w) /\ worker[w] = "running"
  /\ (~stop /\ Send) \/ FlowStep
  /\ UNCHANGED sidecarVars

UdpStops(w) ==
  /\ Udp(w) /\ worker[w] = "running" /\ stop
  /\ step = "send" /\ UNCHANGED sequence /\ Close
  /\ Becomes(w, "done") /\ Flag(w, FALSE)
  /\ UNCHANGED <<profiles, child, line, stop, main, errors>>

UdpRaises(w) ==
  /\ Udp(w) /\ worker[w] = "running"
  /\ stop => step # "send"
  /\ SocketRaises
  /\ Becomes(w, "failed") /\ Flag(w, FALSE)
  /\ UNCHANGED <<profiles, child, line, stop, main, errors>>

HttpStops(w) ==
  /\ ~Udp(w) /\ ~Reading(w) /\ worker[w] = "running" /\ stop
  /\ Becomes(w, "done") /\ Flag(w, FALSE)
  /\ UNCHANGED <<flowVars, profiles, child, line, stop, main, errors>>

HttpRaises(w) ==
  /\ ~Udp(w) /\ ~Reading(w) /\ worker[w] = "running"
  /\ Becomes(w, "failed") /\ Flag(w, FALSE)
  /\ UNCHANGED <<flowVars, profiles, child, line, stop, main, errors>>

-----------------------------------------------------------------------------
(* main                                                                     *)

(* SIGTERM or SIGINT.                                                       *)
Signal ==
  /\ main \notin Exited /\ ~stop
  /\ stop' = TRUE
  /\ UNCHANGED <<flowVars, profiles, worker, child, line, main, errors, compat>>

(* Mutant: the other threads are not told.                                  *)
FirstExceptionAlone ==
  /\ main = "waiting" /\ Failed # {}
  /\ errors' = errors + Cardinality(Failed)
  /\ main' = "draining"
  /\ UNCHANGED <<flowVars, profiles, worker, child, line, stop, compat>>

(* wait(futures, FIRST_EXCEPTION) finds one or more.                        *)
FirstException ==
  /\ main = "waiting" /\ Failed # {}
  /\ errors' = errors + Cardinality(Failed)
  /\ stop' = TRUE /\ main' = "draining"
  /\ UNCHANGED <<flowVars, profiles, worker, child, line, compat>>

AllFinished == \A w \in Submitted : worker[w] \in Finished

(* Mutant: FIRST_COMPLETED instead of FIRST_EXCEPTION.                      *)
EndAtFirstCompleted ==
  /\ main = "waiting" /\ Failed = {} /\ \E w \in Submitted : worker[w] = "done"
  /\ main' = "ended"
  /\ UNCHANGED <<flowVars, profiles, worker, child, line, stop, errors, compat>>

End ==
  /\ main = "waiting" /\ Failed = {} /\ AllFinished
  /\ main' = "ended"
  /\ UNCHANGED <<flowVars, profiles, worker, child, line, stop, errors, compat>>

RaiseFirst ==
  /\ main = "draining" /\ AllFinished
  /\ main' = "raised"
  /\ UNCHANGED <<flowVars, profiles, worker, child, line, stop, errors, compat>>

-----------------------------------------------------------------------------
(* What a thread does by itself.                                            *)
Work(w) ==
  \/ Start(w) \/ CannotStart(w) \/ ReadLine(w) \/ ReadEnd(w) \/ CleanUp(w)
  \/ UdpStep(w) \/ UdpStops(w) \/ HttpStops(w)

Main == FirstException \/ End \/ RaiseFirst

Next ==
  \/ \E w \in Workers : \/ Work(w) \/ UdpRaises(w) \/ HttpRaises(w)
                        \/ ChildWrites(w) \/ ChildEnds(w)
  \/ Main
  \/ Signal
  \/ Network /\ UNCHANGED sidecarVars

Spec == Init /\ [][Next]_vars

(* Threads that can go on do.  Time passes, so the oldest entry of          *)
(* sent_order does not go unexpired for ever.  Nothing is assumed of the    *)
(* network, the children or the operator.                                   *)
FairSpec ==
  /\ Spec
  /\ WF_vars(Main)
  /\ \A w \in Workers : WF_vars(Work(w))
  /\ SF_vars(ExpireHead /\ UNCHANGED sidecarVars)

-----------------------------------------------------------------------------
(***************************************************************************)
(* Properties.                                                             *)
(***************************************************************************)

(* Every variable holds a value of its kind, the loop of the UDP flow is    *)
(* open just while its thread runs, and a process belongs to a thread that  *)
(* has started.                                                             *)
TypeOK ==
  /\ FlowTypeOK
  /\ profiles \subseteq Flows
  /\ worker \in [Workers -> {"queued"} \union Active \union Finished]
  /\ child \in [Workers -> {"none", "running", "ok", "bad"}]
  /\ line \in [Workers -> BOOLEAN]
  /\ stop \in BOOLEAN /\ main \in {"waiting", "draining"} \union Exited
  /\ errors \in Nat /\ compat \in BOOLEAN
  /\ \A w \in Workers :
       /\ Udp(w) => (step # "closed") = (worker[w] = "running")
       /\ worker[w] = "queued" => child[w] = "none"

(* COMPAT_TRAFFIC_RUNNING does not claim traffic that no thread makes,      *)
(* however the threads of several flows start, fail and end.                *)
FlagMeansTraffic ==
  compat => \E f \in profiles : worker[<<"traffic", f>>] \in Active

(* If the sidecar ends without an error, no thread has failed or is still   *)
(* at work, and no process of theirs is left behind.                        *)
CleanExit ==
  main = "ended" =>
    \A w \in Submitted : worker[w] = "done" /\ child[w] # "running"

(* One failure, or one signal, ends the sidecar, provided that no child     *)
(* stays silent for ever: a thread waits for the next line of its child     *)
(* and does not see stop before it comes.                                   *)
StopEndsTheSidecar ==
  (\A w \in ChildWorkers : []<>(line[w] \/ child[w] # "running"))
    => ((stop \/ Failed # {}) ~> main \in Exited)
===============================================================================

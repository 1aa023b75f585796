------------------------- MODULE TrafficSidecar_proofs -------------------------
(***************************************************************************)
(* Theorems about TrafficSidecar: the accounting of the UDP flow for any    *)
(* number of datagrams, and what the shared gauge and a clean exit mean for *)
(* any flows.                                                               *)
(***************************************************************************)
EXTENDS TrafficSidecar, FiniteSetTheorems, TLAPS

-----------------------------------------------------------------------------
(* The UDP flow.                                                            *)

(* The steps of Next as the flow sees them.                                 *)
FlowAction ==
  \/ Open \/ Send \/ Receive \/ NoAnswer \/ ExpireHead \/ Report
  \/ SocketRaises \/ (UNCHANGED sequence /\ Close)
  \/ Echo \/ Lose \/ UNCHANGED flowVars

LEMMA NextIsAFlowAction == [Next]_vars => FlowAction
  <1> SUFFICES ASSUME [Next]_vars PROVE FlowAction
    OBVIOUS
  <1>1. CASE UNCHANGED vars
    BY <1>1 DEF vars, FlowAction
  <1>2. ASSUME NEW w \in Workers, Work(w)
        PROVE  FlowAction
    BY <1>2 DEF Work, FlowAction, Start, CannotStart, ReadLine, ReadEnd, CleanUp,
       UdpStep, UdpStops, HttpStops, FlowStep
  <1>3. ASSUME NEW w \in Workers, UdpRaises(w) \/ HttpRaises(w) \/ ChildWrites(w)
                                  \/ ChildEnds(w)
        PROVE  FlowAction
    BY <1>3 DEF FlowAction, UdpRaises, HttpRaises, ChildWrites, ChildEnds
  <1>4. CASE Main \/ Signal
    BY <1>4 DEF FlowAction, Main, FirstException, End, RaiseFirst, Signal
  <1>5. CASE Network
    BY <1>5 DEF FlowAction, Network
  <1> QED
    BY <1>1, <1>2, <1>3, <1>4, <1>5 DEF Next

(* Everything the worker knows of was sent.                                 *)
SentBefore ==
  /\ pending \subseteq 1 .. sequence
  /\ \A i \in DOMAIN sent_order : sent_order[i] <= sequence

FlowInv ==
  /\ FlowTypeOK /\ SentBefore
  /\ PacketsAreConserved /\ PendingWillExpire /\ WindowIsSinceLastReport

LEMMA PendingIsFinite ==
  ASSUME FlowTypeOK
  PROVE  IsFiniteSet(pending) /\ Cardinality(pending) \in Nat
  <1>1. IsFiniteSet(1 .. MaxSent)
    BY MaxSentIsNatural, FS_Interval
  <1> QED
    BY <1>1, FS_Subset, FS_CardinalityType DEF FlowTypeOK, Sequences

(* What is left of pending when one datagram leaves it.                     *)
LEMMA OneLess ==
  ASSUME FlowTypeOK, NEW d, d \in pending
  PROVE  /\ Cardinality(pending \ {d}) \in Nat
         /\ Cardinality(pending) = Cardinality(pending \ {d}) + 1
  <1>1. IsFiniteSet(pending) /\ Cardinality(pending) \in Nat
    BY PendingIsFinite
  <1>2. /\ IsFiniteSet(pending \ {d})
        /\ Cardinality(pending \ {d}) = Cardinality(pending) - 1
    BY <1>1, FS_RemoveElement
  <1>3. Cardinality(pending \ {d}) \in Nat
    BY <1>2, FS_CardinalityType
  <1> QED
    BY <1>1, <1>2, <1>3

LEMMA SendKeepsFlow ==
  ASSUME FlowInv, Send
  PROVE  FlowInv'
  <1> USE DEF FlowInv
  <1>1. CASE UNCHANGED <<sequence, pending, sent_order, sent, uplink>>
    BY <1>1 DEF Send, FlowTypeOK, SentBefore, PacketsAreConserved,
       PendingWillExpire, WindowIsSinceLastReport
  <1>2. CASE /\ sequence < MaxSent
             /\ sequence' = sequence + 1
             /\ pending' = pending \union {sequence'}
             /\ sent_order' = Append(sent_order, sequence')
             /\ sent' = sent + 1 /\ uplink' = uplink \union {sequence'}
    <2>1. sequence' \in Sequences /\ sequence' \notin pending
      BY <1>2, MaxSentIsNatural DEF FlowTypeOK, Sequences, SentBefore
    <2>2. /\ DOMAIN sent_order' = 1 .. Len(sent_order) + 1
          /\ Len(sent_order) \in Nat /\ DOMAIN sent_order = 1 .. Len(sent_order)
          /\ \A i \in 1 .. Len(sent_order) : sent_order'[i] = sent_order[i]
          /\ sent_order'[Len(sent_order) + 1] = sequence'
          /\ \A i \in DOMAIN sent_order : sent_order[i] \in Sequences
      BY <1>2, <2>1 DEF FlowTypeOK
    <2>3. FlowTypeOK'
      BY <1>2, <2>1, MaxSentIsNatural DEF Send, FlowTypeOK
    <2>4. SentBefore'
      <3>1. pending' \subseteq 1 .. sequence'
        BY <1>2 DEF SentBefore, FlowTypeOK
      <3>2. \A i \in DOMAIN sent_order' : sent_order'[i] <= sequence'
        BY <1>2, <2>2, MaxSentIsNatural DEF SentBefore, FlowTypeOK, Sequences
      <3> QED
        BY <3>1, <3>2 DEF SentBefore
    <2>5. PacketsAreConserved'
      <3>1. Cardinality(pending') = Cardinality(pending) + 1
        BY <1>2, <2>1, PendingIsFinite, FS_AddElement
      <3> QED
        BY <1>2, <3>1, PendingIsFinite DEF Send, PacketsAreConserved, FlowTypeOK
    <2>6. PendingWillExpire'
      <3>1. \A d \in pending' : \E i \in DOMAIN sent_order' : sent_order'[i] = d
        <4>1. ASSUME NEW d \in pending
              PROVE  \E i \in DOMAIN sent_order' : sent_order'[i] = d
          BY <2>2 DEF PendingWillExpire
        <4> QED
          BY <1>2, <2>2, <4>1
      <3>2. \A i, j \in DOMAIN sent_order' : i < j => sent_order'[i] < sent_order'[j]
        BY <1>2, <2>2, MaxSentIsNatural
           DEF SentBefore, PendingWillExpire, FlowTypeOK, Sequences
      <3> QED
        BY <3>1, <3>2 DEF PendingWillExpire
    <2>7. WindowIsSinceLastReport'
      BY DEF Send, WindowIsSinceLastReport
    <2> QED
      BY <2>3, <2>4, <2>5, <2>6, <2>7
  <1> QED
    BY <1>1, <1>2 DEF Send

LEMMA ReceiveKeepsFlow ==
  ASSUME FlowInv, Receive
  PROVE  FlowInv'
  <1> USE DEF FlowInv
  <1>1. PICK d \in downlink :
          /\ downlink' \in {downlink, downlink \ {d}}
          /\ pending' = pending \ {d}
          /\ \/ d \notin pending /\ UNCHANGED <<received, window>>
             \/ /\ d \in pending
                /\ received' = received + 1
                /\ window' = [window EXCEPT !.received = @ + 1]
    BY DEF Receive
  <1>2. FlowTypeOK'
    BY <1>1 DEF Receive, FlowTypeOK
  <1>3. SentBefore' /\ PendingWillExpire'
    BY <1>1 DEF Receive, SentBefore, PendingWillExpire
  <1>4. CASE d \in pending
    <2>1. PacketsAreConserved'
      BY <1>1, <1>4, OneLess DEF Receive, PacketsAreConserved, FlowTypeOK
    <2>2. /\ window'.received = window.received + 1 /\ window'.lost = window.lost
          /\ received' = received + 1 /\ UNCHANGED <<lost, reported>>
      BY <1>1, <1>4 DEF Receive, FlowTypeOK
    <2>3. WindowIsSinceLastReport'
      BY <2>2 DEF WindowIsSinceLastReport, FlowTypeOK
    <2> QED
      BY <1>2, <1>3, <2>1, <2>3
  <1>5. CASE d \notin pending
    <2>1. pending' = pending /\ UNCHANGED <<received, window, lost, sent, reported>>
      BY <1>1, <1>5 DEF Receive
    <2> QED
      BY <1>2, <1>3, <2>1 DEF PacketsAreConserved, WindowIsSinceLastReport
  <1> QED
    BY <1>4, <1>5

LEMMA ExpireKeepsFlow ==
  ASSUME FlowInv, ExpireHead
  PROVE  FlowInv'
  <1> USE DEF FlowInv
  <1> DEFINE h == Head(sent_order)
  <1>1. /\ Len(sent_order) \in Nat \ {0}
        /\ DOMAIN sent_order = 1 .. Len(sent_order)
        /\ h = sent_order[1]
        /\ sent_order' \in Seq(Sequences)
        /\ DOMAIN sent_order' = 1 .. Len(sent_order) - 1
        /\ \A i \in 1 .. Len(sent_order) - 1 : sent_order'[i] = sent_order[i + 1]
    BY DEF ExpireHead, FlowTypeOK
  <1>2. FlowTypeOK'
    <2>1. window' \in [received : Nat, lost : Nat] /\ lost' \in Nat
      BY DEF ExpireHead, FlowTypeOK
    <2>2. pending' \subseteq Sequences /\ sent_order' \in Seq(Sequences)
      BY <1>1 DEF ExpireHead, FlowTypeOK
    <2>3. UNCHANGED <<step, sequence, sent, received, reported, network>>
      BY DEF ExpireHead
    <2> QED
      BY <2>1, <2>2, <2>3 DEF FlowTypeOK, network
  <1>3. SentBefore'
    BY <1>1 DEF ExpireHead, SentBefore
  <1>4. PendingWillExpire'
    <2>1. ASSUME NEW d \in pending'
          PROVE  \E i \in DOMAIN sent_order' : sent_order'[i] = d
      <3>1. d \in pending /\ d # h
        BY <2>1 DEF ExpireHead
      <3>2. PICK i \in DOMAIN sent_order : sent_order[i] = d
        BY <3>1 DEF PendingWillExpire
      <3>3. i # 1 /\ i - 1 \in DOMAIN sent_order'
        BY <1>1, <3>1, <3>2
      <3> QED
        BY <1>1, <3>2, <3>3
    <2>2. ASSUME NEW i \in DOMAIN sent_order', NEW j \in DOMAIN sent_order', i < j
          PROVE  sent_order'[i] < sent_order'[j]
      <3>1. /\ i + 1 \in DOMAIN sent_order /\ j + 1 \in DOMAIN sent_order /\ i + 1 < j + 1
            /\ sent_order'[i] = sent_order[i + 1] /\ sent_order'[j] = sent_order[j + 1]
        BY <1>1, <2>2
      <3> QED
        BY <3>1 DEF PendingWillExpire
    <2> QED
      BY <2>1, <2>2 DEF PendingWillExpire
  <1>5. CASE h \in pending
    <2>1. /\ lost' = lost + 1 /\ window' = [window EXCEPT !.lost = @ + 1]
          /\ pending' = pending \ {h} /\ UNCHANGED <<sent, received, reported>>
      BY <1>5 DEF ExpireHead
    <2>2. PacketsAreConserved'
      <3>1. /\ Cardinality(pending \ {h}) \in Nat
            /\ Cardinality(pending) = Cardinality(pending \ {h}) + 1
        BY <1>5, OneLess
      <3> HIDE DEF h
      <3> QED
        BY <2>1, <3>1 DEF PacketsAreConserved, FlowTypeOK
    <2>3. window'.lost = window.lost + 1 /\ window'.received = window.received
      BY <2>1 DEF FlowTypeOK
    <2>4. WindowIsSinceLastReport'
      BY <2>1, <2>3 DEF WindowIsSinceLastReport, FlowTypeOK
    <2> QED
      BY <1>2, <1>3, <1>4, <2>2, <2>4
  <1>6. CASE h \notin pending
    <2>1. pending' = pending /\ UNCHANGED <<received, window, lost, sent, reported>>
      BY <1>6 DEF ExpireHead
    <2> QED
      BY <1>2, <1>3, <1>4, <2>1 DEF PacketsAreConserved, WindowIsSinceLastReport
  <1> QED
    BY <1>5, <1>6

(* The other steps leave alone what was sent and what became of it.         *)
LEMMA OthersKeepFlow ==
  ASSUME FlowInv,
         \/ Open \/ NoAnswer \/ Report \/ SocketRaises \/ (UNCHANGED sequence /\ Close)
         \/ Echo \/ Lose \/ UNCHANGED flowVars
  PROVE  FlowInv'
  <1> USE DEF FlowInv
  <1>1. UNCHANGED <<pending, sent_order, totals>>
    BY DEF Open, NoAnswer, Report, SocketRaises, Close, Echo, Lose, flowVars
  <1>2. sequence' \in {sequence, sequence + 1} /\ sequence' \in 0 .. MaxSent
    BY MaxSentIsNatural DEF Open, NoAnswer, Report, SocketRaises, Close, Echo, Lose, flowVars,
       FlowTypeOK
  <1>3. /\ uplink' \subseteq Sequences /\ downlink' \subseteq Sequences
        /\ step' \in {"closed", "send", "select", "expire"}
    BY DEF Open, NoAnswer, Report, SocketRaises, Close, Echo, Lose, flowVars, FlowTypeOK,
       network
  <1>4. \/ UNCHANGED <<window, reported>>
        \/ reported' = [received |-> received, lost |-> lost] /\ window' = Nothing
    BY DEF Open, NoAnswer, Report, SocketRaises, Close, Echo, Lose, flowVars
  <1>5. FlowTypeOK'
    BY <1>1, <1>2, <1>3, <1>4 DEF FlowTypeOK, totals, Nothing
  <1>6. SentBefore'
    BY <1>1, <1>2, MaxSentIsNatural DEF SentBefore, FlowTypeOK, Sequences
  <1>7. PacketsAreConserved' /\ PendingWillExpire'
    BY <1>1 DEF PacketsAreConserved, PendingWillExpire, totals
  <1>8. WindowIsSinceLastReport'
    BY <1>1, <1>4 DEF WindowIsSinceLastReport, totals, Nothing, FlowTypeOK
  <1> QED
    BY <1>5, <1>6, <1>7, <1>8

LEMMA FlowInvHolds == Spec => []FlowInv
  <1>1. ASSUME Init PROVE FlowInv
    <2>1. Cardinality({}) = 0
      BY FS_EmptySet
    <2> QED
      BY <1>1, <2>1, MaxSentIsNatural DEF Init, FlowInit, FlowInv, FlowTypeOK, SentBefore,
         PacketsAreConserved, PendingWillExpire, WindowIsSinceLastReport, Nothing, Sequences
  <1>2. FlowInv /\ [Next]_vars => FlowInv'
    BY NextIsAFlowAction, SendKeepsFlow, ReceiveKeepsFlow, ExpireKeepsFlow, OthersKeepFlow
       DEF FlowAction
  <1> QED
    BY <1>1, <1>2, PTL DEF Spec

(* Whatever the network does, every datagram sent is counted as answered,   *)
(* counted as lost or still waited for, only one of these, and in only one  *)
(* report.                                                                  *)
THEOREM PacketsAlwaysAccounted == Spec => []EveryPacketIsAccounted
  BY FlowInvHolds, PTL DEF FlowInv, EveryPacketIsAccounted

(* Every datagram still waited for is in sent_order, which is in the order  *)
(* of sending.                                                              *)
THEOREM PendingAlwaysExpires == Spec => []PendingWillExpire
  BY FlowInvHolds, PTL DEF FlowInv

-----------------------------------------------------------------------------
(* The sidecar.                                                             *)

ThreadStates == {"queued"} \union Active \union Finished
ProcessStates == {"none", "running", "ok", "bad"}

SidecarTypes ==
  /\ profiles \subseteq Flows
  /\ worker \in [Workers -> ThreadStates]
  /\ child \in [Workers -> ProcessStates]
  /\ line \in [Workers -> BOOLEAN]
  /\ stop \in BOOLEAN /\ main \in {"waiting", "draining"} \union Exited
  /\ errors \in Nat /\ compat \in BOOLEAN

(* A thread that has not started, one that has ended well and one that      *)
(* needs no process has none.                                               *)
HasProcessIfAny(w, s, c) ==
  (s \in {"queued", "done"} \/ ~Reading(w)) => c = "none"

ProcessesAreOwned == \A w \in Workers : HasProcessIfAny(w, worker[w], child[w])

LoopIsOpen == \A w \in Workers : Udp(w) => (step # "closed" <=> worker[w] = "running")

SidecarInv ==
  SidecarTypes /\ ProcessesAreOwned /\ LoopIsOpen /\ FlagMeansTraffic /\ CleanExit

(* What one thread, or its process, may do to the rest of the sidecar.      *)
Moves(w, s, c) ==
  /\ worker' = [worker EXCEPT ![w] = s]
  /\ child' = [child EXCEPT ![w] = c]
  /\ line' \in [Workers -> BOOLEAN]
  /\ UNCHANGED <<profiles, stop, main, errors>>
  /\ HasProcessIfAny(w, s, c)
  /\ worker[w] = "done" => s = "done"
  /\ IF Udp(w) THEN step' # "closed" <=> s = "running" ELSE UNCHANGED step
  /\ compat' \in BOOLEAN
  /\ compat' => \/ w \in Submitted /\ w[1] = "traffic" /\ s \in Active
                \/ /\ compat
                   /\ w[1] = "traffic" /\ worker[w] \in Active => s \in Active

ThreadAction(w) ==
  Work(w) \/ UdpRaises(w) \/ HttpRaises(w) \/ ChildWrites(w) \/ ChildEnds(w)

LEMMA Kinds ==
  ASSUME NEW w \in Workers
  PROVE  /\ w[1] \in {"traffic", "ping"} /\ w[2] \in Flows
         /\ Udp(w) => ~Reading(w)
  BY DEF Workers, Udp, Reading

LEMMA ThreadMoves ==
  ASSUME SidecarInv, NEW w \in Workers, ThreadAction(w)
  PROVE  \E s \in ThreadStates, c \in ProcessStates : Moves(w, s, c)
  <1> USE DEF SidecarInv, SidecarTypes, ThreadStates, ProcessStates, Active, Finished
  <1>1. /\ worker[w] \in ThreadStates /\ child[w] \in ProcessStates
        /\ worker = [worker EXCEPT ![w] = worker[w]]
        /\ child = [child EXCEPT ![w] = child[w]]
        /\ HasProcessIfAny(w, worker[w], child[w])
        /\ Udp(w) => (step # "closed" <=> worker[w] = "running")
    BY DEF ProcessesAreOwned, LoopIsOpen
  <1>2. CASE Start(w)
    <2>1. Moves(w, "running", IF Reading(w) THEN "running" ELSE child[w])
      BY <1>1, <1>2, Kinds DEF Start, Becomes, Flag, Moves, HasProcessIfAny, Open, flowVars
    <2> QED
      BY <1>1, <2>1
  <1>3. CASE CannotStart(w)
    <2>1. Moves(w, "failed", child[w])
      BY <1>1, <1>3, Kinds DEF CannotStart, Becomes, Moves, HasProcessIfAny, flowVars
    <2> QED
      BY <1>1, <2>1
  <1>4. CASE ReadLine(w)
    <2>1. Moves(w, IF stop THEN "ending" ELSE "running", child[w])
      BY <1>1, <1>4, Kinds DEF ReadLine, Becomes, Moves, HasProcessIfAny, flowVars
    <2> QED
      BY <1>1, <2>1
  <1>5. CASE ReadEnd(w)
    <2>1. Moves(w, IF stop \/ child[w] = "ok" THEN "ending" ELSE "raising", "none")
      BY <1>1, <1>5, Kinds DEF ReadEnd, Becomes, Moves, HasProcessIfAny, flowVars
    <2> QED
      BY <1>1, <2>1
  <1>6. CASE CleanUp(w)
    <2>1. CASE child' = [child EXCEPT ![w] = "none"]
               /\ line' = [line EXCEPT ![w] = FALSE]
               /\ Becomes(w, IF worker[w] = "ending" THEN "done" ELSE "failed")
      <3>1. Moves(w, IF worker[w] = "ending" THEN "done" ELSE "failed", "none")
        BY <1>1, <1>6, <2>1, Kinds
           DEF CleanUp, Becomes, Flag, Moves, HasProcessIfAny, flowVars
      <3> QED
        BY <3>1
    <2>2. CASE UNCHANGED <<child, line>> /\ Becomes(w, "failed") /\ child[w] = "running"
      <3>1. Moves(w, "failed", child[w])
        BY <1>1, <1>6, <2>2, Kinds
           DEF CleanUp, Becomes, Flag, Moves, HasProcessIfAny, flowVars
      <3> QED
        BY <1>1, <3>1
    <2> QED
      BY <1>6, <2>1, <2>2 DEF CleanUp
  <1>7. CASE UdpStep(w)
    <2>1. step' # "closed"
      BY <1>7, <1>1 DEF UdpStep, Send, FlowStep, Receive, NoAnswer, ExpireHead, Report
    <2>2. Moves(w, worker[w], child[w])
      BY <1>1, <1>7, <2>1, Kinds DEF UdpStep, sidecarVars, Moves
    <2> QED
      BY <1>1, <2>2
  <1>8. CASE UdpStops(w) \/ HttpStops(w)
    <2>1. Moves(w, "done", child[w])
      BY <1>1, <1>8, Kinds
         DEF UdpStops, HttpStops, Close, Becomes, Flag, Moves, HasProcessIfAny, flowVars
    <2> QED
      BY <1>1, <2>1
  <1>9. CASE UdpRaises(w) \/ HttpRaises(w)
    <2>1. Moves(w, "failed", child[w])
      BY <1>1, <1>9, Kinds
         DEF UdpRaises, HttpRaises, SocketRaises, Close, Becomes, Flag, Moves,
             HasProcessIfAny, flowVars
    <2> QED
      BY <1>1, <2>1
  <1>10. CASE ChildWrites(w)
    <2>1. Moves(w, worker[w], child[w])
      BY <1>1, <1>10, Kinds DEF ChildWrites, Moves, flowVars
    <2> QED
      BY <1>1, <2>1
  <1>11. CASE ChildEnds(w)
    <2>1. PICK code \in {"ok", "bad"} : child' = [child EXCEPT ![w] = code]
      BY <1>11 DEF ChildEnds
    <2>2. Moves(w, worker[w], code)
      BY <1>1, <1>11, <2>1, Kinds DEF ChildEnds, Moves, HasProcessIfAny, flowVars
    <2> QED
      BY <1>1, <2>2
  <1> QED
    BY <1>2, <1>3, <1>4, <1>5, <1>6, <1>7, <1>8, <1>9, <1>10, <1>11
       DEF ThreadAction, Work

LEMMA MoveKeepsSidecar ==
  ASSUME SidecarInv, NEW w \in Workers, NEW s \in ThreadStates, NEW c \in ProcessStates,
         Moves(w, s, c)
  PROVE  SidecarInv'
  <1>1. /\ worker'[w] = s /\ child'[w] = c
        /\ \A v \in Workers : v # w => worker'[v] = worker[v] /\ child'[v] = child[v]
        /\ UNCHANGED <<profiles, stop, main, errors>>
    BY DEF Moves, SidecarInv, SidecarTypes
  <1>2. SidecarTypes'
    BY <1>1 DEF Moves, SidecarInv, SidecarTypes
  <1>3. ProcessesAreOwned'
    <2>1. \A v \in Workers : HasProcessIfAny(v, worker'[v], child'[v])
      BY <1>1 DEF Moves, SidecarInv, ProcessesAreOwned
    <2> QED
      BY <2>1 DEF ProcessesAreOwned, HasProcessIfAny, Reading
  <1>4. LoopIsOpen'
    <2>1. ASSUME NEW v \in Workers, Udp(v)
          PROVE  step' # "closed" <=> worker'[v] = "running"
      <3>1. CASE v = w
        BY <1>1, <2>1, <3>1 DEF Moves
      <3>2. CASE v # w
        <4>1. ~Udp(w)
          BY <2>1, <3>2, OneUdpFlow DEF Udp, Workers
        <4> QED
          BY <1>1, <2>1, <3>2, <4>1 DEF Moves, SidecarInv, LoopIsOpen
      <3> QED
        BY <3>1, <3>2
    <2> QED
      BY <2>1 DEF LoopIsOpen, Udp
  <1>5. FlagMeansTraffic'
    <2>1. SUFFICES ASSUME compat'
                   PROVE  \E f \in profiles' : worker'[<<"traffic", f>>] \in Active
      BY DEF FlagMeansTraffic, Active
    <2>2. CASE w \in Submitted /\ w[1] = "traffic" /\ s \in Active
      <3>1. w[2] \in profiles /\ w = <<"traffic", w[2]>>
        BY <2>2 DEF Submitted
      <3> QED
        BY <1>1, <2>2, <3>1
    <2>3. CASE compat /\ (w[1] = "traffic" /\ worker[w] \in Active => s \in Active)
      <3>1. PICK f \in profiles : worker[<<"traffic", f>>] \in Active
        BY <2>3 DEF SidecarInv, FlagMeansTraffic
      <3>2. <<"traffic", f>> \in Workers
        BY <3>1 DEF SidecarInv, SidecarTypes, Workers
      <3>3. CASE w = <<"traffic", f>>
        BY <1>1, <2>3, <3>1, <3>3
      <3>4. CASE w # <<"traffic", f>>
        BY <1>1, <3>1, <3>2, <3>4
      <3> QED
        BY <3>3, <3>4
    <2> QED
      BY <2>1, <2>2, <2>3 DEF Moves
  <1>6. CleanExit'
    <2>1. SUFFICES ASSUME main = "ended", NEW v \in Submitted
                   PROVE  worker'[v] = "done" /\ child'[v] # "running"
      BY <1>1 DEF CleanExit, Submitted
    <2>2. /\ v \in Workers
          /\ worker[v] = "done" /\ child[v] # "running"
      BY <2>1 DEF SidecarInv, SidecarTypes, CleanExit, Submitted, Workers
    <2> QED
      BY <1>1, <2>2 DEF Moves, HasProcessIfAny
  <1> QED
    BY <1>2, <1>3, <1>4, <1>5, <1>6 DEF SidecarInv

LEMMA FailedIsCounted ==
  ASSUME SidecarTypes
  PROVE  Cardinality(Failed) \in Nat
  <1>1. IsFiniteSet({"traffic", "ping"})
    <2>1. IsFiniteSet({"traffic"})
      BY FS_Singleton
    <2>2. IsFiniteSet({"traffic"} \cup {"ping"})
      BY <2>1, FS_AddElement
    <2>3. {"traffic", "ping"} = {"traffic"} \cup {"ping"}
      OBVIOUS
    <2> QED
      BY <2>2, <2>3
  <1>2. IsFiniteSet(profiles)
    BY FlowsAreFinite, FS_Subset DEF SidecarTypes
  <1>3. IsFiniteSet(Submitted)
    BY <1>1, <1>2, FS_Product DEF Submitted
  <1> QED
    BY <1>3, FS_Subset, FS_CardinalityType DEF Failed

LEMMA MainKeepsSidecar ==
  ASSUME SidecarInv, Main \/ Signal
  PROVE  SidecarInv'
  <1>1. UNCHANGED <<step, profiles, worker, child, line, compat>>
    BY DEF Main, FirstException, End, RaiseFirst, Signal, flowVars
  <1>2. SidecarTypes'
    <2>1. errors' \in Nat
      <3>1. CASE FirstException
        BY <3>1, FailedIsCounted DEF SidecarInv, SidecarTypes, FirstException
      <3>2. CASE End \/ RaiseFirst \/ Signal
        BY <3>2 DEF SidecarInv, SidecarTypes, End, RaiseFirst, Signal
      <3> QED
        BY <3>1, <3>2 DEF Main
    <2>2. stop' \in BOOLEAN /\ main' \in {"waiting", "draining"} \union Exited
      BY DEF SidecarInv, SidecarTypes, Main, FirstException, End, RaiseFirst, Signal, Exited
    <2> QED
      BY <1>1, <2>1, <2>2 DEF SidecarInv, SidecarTypes
  <1>3. ProcessesAreOwned' /\ LoopIsOpen' /\ FlagMeansTraffic'
    BY <1>1 DEF SidecarInv, ProcessesAreOwned, HasProcessIfAny, Reading, LoopIsOpen, Udp,
       FlagMeansTraffic, Active
  <1>4. CleanExit'
    <2>1. CASE End
      <3>1. ASSUME NEW v \in Submitted
            PROVE  worker[v] = "done" /\ child[v] # "running"
        <4>1. v \in Workers
          BY DEF SidecarInv, SidecarTypes, Submitted, Workers
        <4>2. worker[v] = "done"
          BY <2>1 DEF End, AllFinished, Finished, Failed
        <4> QED
          BY <4>1, <4>2 DEF SidecarInv, ProcessesAreOwned, HasProcessIfAny
      <3> QED
        BY <1>1, <3>1 DEF CleanExit, Submitted
    <2>2. CASE FirstException \/ RaiseFirst
      BY <2>2 DEF FirstException, RaiseFirst, CleanExit
    <2>3. CASE Signal
      BY <1>1, <2>3 DEF Signal, SidecarInv, CleanExit, Submitted
    <2> QED
      BY <2>1, <2>2, <2>3 DEF Main
  <1> QED
    BY <1>2, <1>3, <1>4 DEF SidecarInv

LEMMA SidecarInvHolds == Spec => []SidecarInv
  <1>1. ASSUME Init PROVE SidecarInv
    <2>1. profiles \subseteq Flows
      BY <1>1, EveryUeHasAFlow DEF Init
    <2> QED
      BY <1>1, <2>1 DEF Init, FlowInit, SidecarInv, SidecarTypes, ProcessesAreOwned,
         HasProcessIfAny, LoopIsOpen, FlagMeansTraffic, CleanExit, ThreadStates,
         ProcessStates
  <1>2. SidecarInv /\ [Next]_vars => SidecarInv'
    <2> SUFFICES ASSUME SidecarInv, [Next]_vars PROVE SidecarInv'
      OBVIOUS
    <2>1. ASSUME NEW w \in Workers, ThreadAction(w) PROVE SidecarInv'
      BY <2>1, ThreadMoves, MoveKeepsSidecar
    <2>2. CASE Main \/ Signal
      BY <2>2, MainKeepsSidecar
    <2>3. CASE UNCHANGED <<step, sidecarVars>>
      BY <2>3 DEF sidecarVars, SidecarInv, SidecarTypes, ProcessesAreOwned,
         HasProcessIfAny, Reading, LoopIsOpen, Udp, FlagMeansTraffic, Active, CleanExit,
         Submitted, Exited
    <2>4. CASE Network /\ UNCHANGED sidecarVars
      BY <2>3, <2>4 DEF Network, Echo, Lose
    <2>5. CASE UNCHANGED vars
      BY <2>3, <2>5 DEF vars, flowVars
    <2> QED
      BY <2>1, <2>2, <2>4, <2>5 DEF Next, ThreadAction
  <1> QED
    BY <1>1, <1>2, PTL DEF Spec

(* Type correctness for any flows: the loop of the UDP flow is open just    *)
(* while its thread runs.                                                   *)
THEOREM SidecarTypeCorrect == Spec => []TypeOK
  <1>1. FlowInv /\ SidecarInv => TypeOK
    <2> SUFFICES ASSUME FlowInv, SidecarInv PROVE TypeOK
      OBVIOUS
    <2>1. \A w \in Workers : Udp(w) => (step # "closed") = (worker[w] = "running")
      BY DEF SidecarInv, LoopIsOpen
    <2>2. \A w \in Workers : worker[w] = "queued" => child[w] = "none"
      BY DEF SidecarInv, ProcessesAreOwned, HasProcessIfAny
    <2> QED
      BY <2>1, <2>2 DEF FlowInv, SidecarInv, SidecarTypes, ThreadStates, ProcessStates,
         TypeOK
  <1> QED
    BY <1>1, FlowInvHolds, SidecarInvHolds, PTL

(* The gauge all flows share never claims traffic that no thread makes.     *)
THEOREM FlagAlwaysMeansTraffic == Spec => []FlagMeansTraffic
  BY SidecarInvHolds, PTL DEF SidecarInv

(* A sidecar that ends without an error has had no failure, and leaves no   *)
(* thread and no process behind.                                            *)
THEOREM ExitIsAlwaysClean == Spec => []CleanExit
  BY SidecarInvHolds, PTL DEF SidecarInv
===============================================================================

-------------------------------- MODULE UdpFlow --------------------------------
(***************************************************************************)
(* The packet accounting of one UDP flow: the loop of _udp_worker           *)
(* (traffic/exporter.py), the echo thread of the application server         *)
(* (traffic/app_server.py), and between them a network that may lose,       *)
(* duplicate, reorder and delay datagrams.                                  *)
(*                                                                         *)
(* Times are left out: whether a datagram is due, whether the oldest entry  *)
(* of sent_order has expired and whether a second has passed since the last *)
(* report may each be answered either way whenever the loop asks, which     *)
(* allows for a thread that is late at any point.  When the worker starts   *)
(* and how it ends is the subject of TrafficSidecar.                        *)
(***************************************************************************)
EXTENDS Naturals, Sequences, FiniteSets

CONSTANT MaxSent   \* bound: datagrams sent

ASSUME MaxSentIsNatural == MaxSent \in Nat

VARIABLES
  step,         \* the step of the loop that comes next, "closed" outside it
  sequence, pending, sent_order,
  sent, received, lost,   \* UDP_SENT, UDP_RECEIVED, COMPAT_UDP_LOST
  window,       \* received_window and lost_window
  reported,     \* the totals at the last report, kept for the property only
  uplink,       \* datagrams on their way to the server
  downlink      \* answers on their way back or in the socket's buffer

totals == <<sent, received, lost>>
network == <<uplink, downlink>>
flowVars == <<step, sequence, pending, sent_order, totals, window, reported,
              network>>

Sequences == 1 .. MaxSent
Nothing == [received |-> 0, lost |-> 0]

FlowInit ==
  /\ step = "closed"
  /\ sequence = 0 /\ pending = {} /\ sent_order = << >>
  /\ sent = 0 /\ received = 0 /\ lost = 0
  /\ window = Nothing /\ reported = Nothing
  /\ uplink = {} /\ downlink = {}

Open ==
  /\ step = "closed" /\ sequence = 0
  /\ step' = "send"
  /\ UNCHANGED <<sequence, pending, sent_order, totals, window, reported, network>>

(* Mutant: the loop goes on.                                                *)
LeaveOpen ==
  UNCHANGED <<step, pending, sent_order, totals, window, reported, network>>

(* The finally: what is pending then stays so.                              *)
Close ==
  /\ step' = "closed"
  /\ UNCHANGED <<pending, sent_order, totals, window, reported, network>>

-----------------------------------------------------------------------------
(* One iteration: a datagram if one is due, at most one answer, the expired *)
(* head of sent_order as long as there is one, and perhaps a report.        *)

(* Mutant: the datagram is not entered into sent_order.                     *)
SendUnordered ==
  /\ step = "send" /\ step' = "select"
  /\ \/ /\ sequence < MaxSent
        /\ sequence' = sequence + 1
        /\ pending' = pending \union {sequence'}
        /\ sent' = sent + 1 /\ uplink' = uplink \union {sequence'}
     \/ UNCHANGED <<sequence, pending, sent, uplink>>
  /\ UNCHANGED <<sent_order, received, lost, window, reported, downlink>>

Send ==
  /\ step = "send" /\ step' = "select"
  /\ \/ /\ sequence < MaxSent
        /\ sequence' = sequence + 1
        /\ pending' = pending \union {sequence'}
        /\ sent_order' = Append(sent_order, sequence')
        /\ sent' = sent + 1 /\ uplink' = uplink \union {sequence'}
     \/ UNCHANGED <<sequence, pending, sent_order, sent, uplink>>
  /\ UNCHANGED <<received, lost, window, reported, downlink>>

(* Mutant: an answer counts whether or not its datagram is still pending.   *)
ReceiveUnchecked ==
  /\ step = "select" /\ step' = "expire"
  /\ \E d \in downlink :
       /\ downlink' \in {downlink, downlink \ {d}}
       /\ pending' = pending \ {d}
       /\ received' = received + 1 /\ window' = [window EXCEPT !.received = @ + 1]
  /\ UNCHANGED <<sequence, sent_order, sent, lost, reported, uplink>>

(* Of a datagram that the network has duplicated, on its way there or back, *)
(* another copy stays behind.                                               *)
Receive ==
  /\ step = "select" /\ step' = "expire"
  /\ \E d \in downlink :
       /\ downlink' \in {downlink, downlink \ {d}}
       /\ pending' = pending \ {d}
       /\ \/ d \notin pending /\ UNCHANGED <<received, window>>
          \/ /\ d \in pending
             /\ received' = received + 1
             /\ window' = [window EXCEPT !.received = @ + 1]
  /\ UNCHANGED <<sequence, sent_order, sent, lost, reported, uplink>>

NoAnswer ==
  /\ step = "select" /\ step' = "expire"
  /\ UNCHANGED <<sequence, pending, sent_order, totals, window, reported, network>>

(* Mutant: an expired datagram is counted but stays pending.                *)
ExpireHeadOnly ==
  /\ step = "expire" /\ sent_order # << >>
  /\ sent_order' = Tail(sent_order)
  /\ \/ Head(sent_order) \notin pending /\ UNCHANGED <<lost, window>>
     \/ /\ Head(sent_order) \in pending
        /\ lost' = lost + 1 /\ window' = [window EXCEPT !.lost = @ + 1]
  /\ UNCHANGED <<step, sequence, pending, sent, received, reported, network>>

ExpireHead ==
  /\ step = "expire" /\ sent_order # << >>
  /\ sent_order' = Tail(sent_order)
  /\ pending' = pending \ {Head(sent_order)}
  /\ \/ Head(sent_order) \notin pending /\ UNCHANGED <<lost, window>>
     \/ /\ Head(sent_order) \in pending
        /\ lost' = lost + 1 /\ window' = [window EXCEPT !.lost = @ + 1]
  /\ UNCHANGED <<step, sequence, sent, received, reported, network>>

(* Mutant: lost_window is not reset.                                        *)
ReportKeepingLost ==
  /\ step = "expire" /\ step' = "send"
  /\ \/ UNCHANGED <<window, reported>>
     \/ /\ reported' = [received |-> received, lost |-> lost]
        /\ window' = [window EXCEPT !.received = 0]
  /\ UNCHANGED <<sequence, pending, sent_order, totals, network>>

Report ==
  /\ step = "expire" /\ step' = "send"
  /\ \/ UNCHANGED <<window, reported>>
     \/ /\ reported' = [received |-> received, lost |-> lost]
        /\ window' = Nothing
  /\ UNCHANGED <<sequence, pending, sent_order, totals, network>>

FlowStep == Receive \/ NoAnswer \/ ExpireHead \/ Report

(* send or recv raises, the answer of a host that does not listen included. *)
SocketRaises ==
  /\ step \in {"send", "select"}
  /\ \/ step = "send" /\ sequence < MaxSent /\ sequence' = sequence + 1
     \/ step = "select" /\ UNCHANGED sequence
  /\ Close

-----------------------------------------------------------------------------
(* echo_udp and the network.                                                *)

Echo ==
  /\ \E d \in uplink :
       /\ uplink' = uplink \ {d}
       /\ downlink' = downlink \union {d}
  /\ UNCHANGED <<step, sequence, pending, sent_order, totals, window, reported>>

Lose ==
  /\ \/ \E d \in uplink : uplink' = uplink \ {d} /\ UNCHANGED downlink
     \/ \E d \in downlink : downlink' = downlink \ {d} /\ UNCHANGED uplink
  /\ UNCHANGED <<step, sequence, pending, sent_order, totals, window, reported>>

Network == Echo \/ Lose

-----------------------------------------------------------------------------
(***************************************************************************)
(* Properties.                                                             *)
(***************************************************************************)
FlowTypeOK ==
  /\ step \in {"closed", "send", "select", "expire"}
  /\ sequence \in 0 .. MaxSent
  /\ pending \subseteq Sequences /\ sent_order \in Seq(Sequences)
  /\ sent \in Nat /\ received \in Nat /\ lost \in Nat
  /\ window \in [received : Nat, lost : Nat]
  /\ reported \in [received : Nat, lost : Nat]
  /\ uplink \subseteq Sequences /\ downlink \subseteq Sequences

(* No datagram is counted twice or forgotten, whatever the network loses,   *)
(* duplicates, reorders or delivers after it was given up: those sent are   *)
(* those answered, those lost and those still waited for, and those         *)
(* resolved are in the reports sent or, once, in the window of the next.    *)
PacketsAreConserved == sent = received + lost + Cardinality(pending)

WindowIsSinceLastReport ==
  /\ received = reported.received + window.received
  /\ lost = reported.lost + window.lost

EveryPacketIsAccounted == PacketsAreConserved /\ WindowIsSinceLastReport

(* Looking at the head of sent_order suffices: each datagram still waited   *)
(* for is in it, and it is in the order in which they were sent.            *)
PendingWillExpire ==
  /\ \A d \in pending : \E i \in DOMAIN sent_order : sent_order[i] = d
  /\ \A i, j \in DOMAIN sent_order : i < j => sent_order[i] < sent_order[j]

(* A datagram does not stay pending while the worker runs.                  *)
EveryPacketIsResolved ==
  \A d \in Sequences : d \in pending ~> (d \notin pending \/ step = "closed")
===============================================================================

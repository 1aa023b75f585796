--------------------------- MODULE ScenarioRendering ---------------------------
(***************************************************************************)
(* From a scenario file to what a run is made of: load_scenario, then       *)
(* build_topology, then the subscriber documents, the traffic profiles and  *)
(* the slice catalog of render_run.  The validator looks items up in        *)
(* dictionaries, the renderers walk the lists.                              *)
(*                                                                         *)
(* An author edits the file before it is loaded.                            *)
(***************************************************************************)
EXTENDS ScenarioValidation

CONSTANTS
  Files,      \* the scenarios an author begins with
  Variants,   \* what may be put into a field: list -> field -> set of values
  MaxEdits    \* bound: edits in a behaviour

ASSUME MaxEditsIsNatural == MaxEdits \in Nat

VARIABLES
  scenario,
  outcome,    \* what has become of it
  edits

vars == <<scenario, outcome, edits>>

Outcomes == {"edited", "rejected", "accepted", "compiled", "rendered", "raised"}

-----------------------------------------------------------------------------
(* build_topology                                                           *)

Sessions(sc) == UNION {Range(ue.sessions) : ue \in Range(sc.ues)}
FlowsOf(sc, ue) == {f \in Range(sc.flows) : f.ue_id = ue.id}

(* No lookup of build_topology fails.                                       *)
LookupsSucceed(sc) ==
  /\ \A x \in Sessions(sc) : \E u \in Range(sc.upfs) : u.dnn = x.dnn
  /\ \A ue \in Range(sc.ues) : \A f \in FlowsOf(sc, ue) :
       /\ f.session_id \in Ids(ue.sessions)
       /\ f.service_instance_id \in Ids(sc.services)

(* The edges of a flow, in one record.                                      *)
Edges(sc, ue, f) ==
  LET session == Item(ue.sessions, f.session_id)
  IN [flow |-> f.id, originates |-> ue.id, carries |-> session.slice_id,
      traverses |-> UpfFor(Range(sc.upfs), session),
      terminates_at |-> Item(sc.services, f.service_instance_id)]

Topology(sc) ==
  UNION {{Edges(sc, ue, f) : f \in FlowsOf(sc, ue)} : ue \in Range(sc.ues)}

(* slice_bindings: the UPFs of a slice.                                     *)
Bindings(sc, s) ==
  {UpfFor(Range(sc.upfs), x) : x \in {y \in UNION {Range(ue.sessions) : ue \in Items(sc.ues)} :
                                        y.slice_id = s}}

-----------------------------------------------------------------------------
(* What a UE asks for, and what the core grants it.  A template takes the    *)
(* first item with an id.                                                   *)

Position(list, id) ==
  CHOOSE i \in DOMAIN list :
    list[i].id = id /\ \A j \in DOMAIN list \ {i} : list[j].id = id => i < j

Grant(snssai, dnn) == [snssai |-> snssai, dnn |-> dnn]

(* The PDU session in the UE's own configuration.                           *)
Request(sc, x) == Grant(sc.slices[Position(sc.slices, x.slice_id)].snssai, x.dnn)

(* The subscriber documents: SmfSelectionSubscriptionData is keyed by the   *)
(* S-NSSAI of the slice; the slices of a UE come in the order of their      *)
(* first sessions.                                                          *)
Snssai(sc, s) == Item(sc.slices, s).snssai
First(ue, s) ==
  CHOOSE i \in DOMAIN ue.sessions :
    /\ ue.sessions[i].slice_id = s
    /\ \A j \in DOMAIN ue.sessions : ue.sessions[j].slice_id = s => i <= j

(* Mutant: the last entry of a slice replaces its others.                   *)
SelectionOfLastSession(sc, ue) ==
  {Grant(Snssai(sc, x.slice_id), x.dnn) :
     x \in {ue.sessions[i] : i \in {j \in DOMAIN ue.sessions :
              \A k \in DOMAIN ue.sessions :
                ue.sessions[k].slice_id = ue.sessions[j].slice_id => k <= j}}}

SmfSelection(sc, ue) ==
  {Grant(Snssai(sc, x.slice_id), x.dnn) :
     x \in {y \in Range(ue.sessions) :
              \A z \in Range(ue.sessions) :
                z.slice_id # y.slice_id /\ Snssai(sc, z.slice_id) = Snssai(sc, y.slice_id) =>
                  First(ue, z.slice_id) < First(ue, y.slice_id)}}

(* The SMF's configuration: what it grants, and the UPFs it may take, which  *)
(* are keyed by their ids.                                                  *)
Served(sc, s, dnn) == \E x \in Sessions(sc) : x.dnn = dnn /\ x.slice_id = s.id

SnssaiInfos(sc) ==
  UNION {{Grant(s.snssai, x.dnn) : x \in {y \in Sessions(sc) : y.slice_id = s.id}} :
           s \in Range(sc.slices)}

UpNode(sc, u) ==
  [id |-> u.id, dnn |-> u.dnn,
   snssais |-> {s.snssai : s \in {t \in Range(sc.slices) : Served(sc, t, u.dnn)}}]
UpNodes(sc) == {UpNode(sc, u) : u \in Items(sc.upfs)}

-----------------------------------------------------------------------------
(* No lookup of the renderers fails: of a slice, of a UPF's site, of the     *)
(* link a route goes by, of a UE's gNB, of a container's limits.            *)
SlicesKnown(sc) == \A x \in Sessions(sc) : x.slice_id \in Ids(sc.slices)

RoutesKnown(sc) ==
  /\ \A u \in Range(sc.upfs) :
       /\ u.site_id \in Ids(sc.sites)
       /\ Item(sc.sites, u.site_id).type = "cloud" => Len(sc.links) > 0
  /\ \A s \in Range(sc.services) : s.network = "cloud-app-net" => Len(sc.links) > 0

GnbsKnown(sc) == \A ue \in Range(sc.ues) : ue.serving_gnb \in Ids(sc.gnbs)

LimitsKnown(sc) ==
  \A x \in Range(sc.upfs) \union Range(sc.gnbs) \union Range(sc.ues) :
    x.container \in DOMAIN sc.containers

(* The compose file is merged from fragments, each with services of its own  *)
(* and of the scenario's.  The images differ, so that a name in two         *)
(* fragments is a conflict; within one the last service of a name is kept.  *)
CoreServices ==
  {"mongodb", "free5gc-nrf", "free5gc-ausf", "free5gc-nssf", "free5gc-pcf", "free5gc-udm",
   "free5gc-udr", "free5gc-nef", "free5gc-amf", "free5gc-smf", "free5gc-webui",
   "free5gc-chf"}
TelemetryServices ==
  {"prometheus", "cadvisor", "grafana", "ran-exporter", "session-tracker",
   "snapshot-builder", "action-gateway"}

Names(sc, owners) == {c.name : c \in {d \in Containers(sc) : d.of \in owners}}

Fragments(sc) ==
  <<CoreServices \union Names(sc, {"upf"}), Names(sc, {"gnb", "ue", "sidecar"}),
    Names(sc, {"service", "link"}), TelemetryServices>>

FragmentsMerge(sc) ==
  LET fragments == Fragments(sc) IN
  \A i, j \in DOMAIN fragments : i # j => fragments[i] \intersect fragments[j] = {}

Renders(sc) ==
  /\ SlicesKnown(sc) /\ RoutesKnown(sc) /\ GnbsKnown(sc) /\ LimitsKnown(sc)
  /\ FragmentsMerge(sc)

(* render_traffic_profiles: the interface a flow leaves by, the number of   *)
(* its session, and where it goes.                                          *)
(* Mutant: sessions are numbered within their slice.                        *)
ProfileBySlice(sc, f) ==
  LET sessions == Item(sc.ues, f.ue_id).sessions
      p == Position(sessions, f.session_id)
      same == SelectSeq(SubSeq(sessions, 1, p), LAMBDA x : x.slice_id = sessions[p].slice_id)
  IN [interface |-> Len(same), destination_ip |-> Item(sc.services, f.service_instance_id).ip]

Profile(sc, f) ==
  [interface |-> Position(Item(sc.ues, f.ue_id).sessions, f.session_id),
   destination_ip |-> Item(sc.services, f.service_instance_id).ip]

-----------------------------------------------------------------------------
(* The author.                                                              *)

Edit(list, i, field) ==
  \E value \in Variants[list][field] \ {scenario[list][i][field]} :
    scenario' = [scenario EXCEPT ![list][i][field] = value]

Drop(list, i) ==
  scenario' = [scenario EXCEPT ![list] = SubSeq(@, 1, i - 1) \o SubSeq(@, i + 1, Len(@))]

DropFromPlan(c) ==
  scenario' = [scenario EXCEPT !.containers =
                 RestrictDomain(@, LAMBDA other : other # c)]

Author ==
  /\ outcome \in {"edited", "rejected"} /\ edits < MaxEdits
  /\ edits' = edits + 1
  /\ outcome' = "edited"
  /\ \/ \E list \in DOMAIN Variants : \E i \in DOMAIN scenario[list] :
          \/ \E field \in DOMAIN Variants[list] : Edit(list, i, field)
          \/ Drop(list, i)
     \/ \E c \in DOMAIN scenario.containers : DropFromPlan(c)

-----------------------------------------------------------------------------
(* render_run, as far as the scenario decides what it does.                 *)

Load ==
  /\ outcome = "edited"
  /\ outcome' = IF WellFormed(scenario) /\ Accepted(scenario)
                 THEN "accepted" ELSE "rejected"
  /\ UNCHANGED <<scenario, edits>>

Compile ==
  /\ outcome = "accepted"
  /\ outcome' = IF LookupsSucceed(scenario) THEN "compiled" ELSE "raised"
  /\ UNCHANGED <<scenario, edits>>

Render ==
  /\ outcome = "compiled"
  /\ outcome' = IF Renders(scenario) THEN "rendered" ELSE "raised"
  /\ UNCHANGED <<scenario, edits>>

Init ==
  /\ scenario \in Files /\ outcome = "edited" /\ edits = 0

Next == Author \/ Load \/ Compile \/ Render

Spec == Init /\ [][Next]_vars

-----------------------------------------------------------------------------
(***************************************************************************)
(* Properties.                                                             *)
(***************************************************************************)
Passed == outcome \in {"accepted", "compiled", "rendered", "raised"}

(* An outcome is one of these, and a scenario that was accepted declares    *)
(* flows, and a session for each UE.                                        *)
TypeOK ==
  /\ outcome \in Outcomes /\ edits \in 0 .. MaxEdits
  /\ Passed =>
       Len(scenario.flows) > 0 /\ \A ue \in Range(scenario.ues) : Len(ue.sessions) > 0

(* No slice, site, gNB, UE, service or UPF is declared twice, which the     *)
(* validator means to check and does not.                                   *)
IdsDiffer ==
  \A list \in {"slices", "sites", "gnbs", "ues", "services", "upfs"} :
    IsInjective(Column(scenario[list], "id"))

(* No container of the scenario is named like one of the testbed's own,     *)
(* which the validator does not look at.                                    *)
NamesFree ==
  \A c \in Containers(scenario) : c.name \notin CoreServices \union TelemetryServices

(* Rendering fails on an accepted scenario only if an id is declared twice  *)
(* or a container is named like one of the testbed's own: otherwise all     *)
(* that the renderers look up has been seen by the validator, and the       *)
(* fragments of the compose file merge.                                     *)
AcceptedScenariosRender == outcome = "raised" => ~IdsDiffer \/ ~NamesFree

(* What the slice lifecycle rests on (SliceCatalog): every slice is bound   *)
(* to a UPF, and no UPF to two slices.                                      *)
SlicesHaveTheirUpfs ==
  Passed /\ IdsDiffer =>
    \A s \in Ids(scenario.slices) :
      /\ Bindings(scenario, s) # {}
      /\ \A t \in Ids(scenario.slices) \ {s} :
           Bindings(scenario, s) \cap Bindings(scenario, t) = {}

(* A flow's packets find their way: they leave by the interface of a        *)
(* session of the UPF the topology names, whose N6 network is the one of    *)
(* the service or is joined to it by the one link.                          *)
FlowsReachTheirServices ==
  outcome = "rendered" /\ IdsDiffer =>
    \A edge \in Topology(scenario) : \A f \in Range(scenario.flows) :
      f.id = edge.flow =>
        LET profile == Profile(scenario, f)
            session == Item(scenario.ues, edge.originates).sessions[profile.interface]
            n6 == N6Of(scenario, edge.traverses)
        IN /\ session.dnn = edge.traverses.dnn
           /\ profile.destination_ip = edge.terminates_at.ip
           /\ \/ edge.terminates_at.network = n6
              \/ /\ n6 = "cloud-n6-net" /\ edge.terminates_at.network = "cloud-app-net"
                 /\ Len(scenario.links) = 1

(* What a UE asks for each of its sessions the core knows to grant, in three *)
(* files: the subscriber's document, the SMF's configuration, and there by  *)
(* the one UPF the topology names.  Unless two slices have the same S-NSSAI, *)
(* which nothing checks.                                                    *)
SessionsAreGranted ==
  outcome = "rendered" /\ IdsDiffer /\ IsInjective(Column(scenario.slices, "snssai")) =>
    \A ue \in Range(scenario.ues) : \A x \in Range(ue.sessions) :
      LET request == Request(scenario, x)
          takers == {n \in UpNodes(scenario) :
                       n.dnn = request.dnn /\ request.snssai \in n.snssais}
      IN /\ request \in SmfSelection(scenario, ue)
         /\ request \in SnssaiInfos(scenario)
         /\ {n.id : n \in takers} = {UpfFor(Range(scenario.upfs), x).id}

(* No address is rendered twice, and none belongs to a second network or to *)
(* an address pool of UEs.                                                  *)
AddressesAreUnambiguous ==
  Passed /\ IdsDiffer =>
    LET all == InterfacesOf(scenario, Range(scenario.upfs), Range(scenario.gnbs),
                            Range(scenario.services), Range(scenario.links))
    IN \A i \in all :
         /\ \A j \in all : i.ip = j.ip => i = j
         /\ \A n \in AllNetworks(scenario) :
              n.cidr[1] <= i.ip /\ i.ip <= n.cidr[2] => n.of = "docker" /\ n.id = i.net
===============================================================================

----------------------- MODULE ScenarioRendering_proofs -----------------------
(***************************************************************************)
(* Theorems about ScenarioRendering, for any scenarios and any edits: what  *)
(* the validator accepts the renderers can render, and the slice lifecycle  *)
(* can rest on.                                                             *)
(***************************************************************************)
EXTENDS ScenarioRendering, TLAPS

-----------------------------------------------------------------------------
(* Lists and the dictionaries made of them.                                 *)

Distinct(list) == IsInjective(Column(list, "id"))

(* An item whose id is its own is the one the dictionary keeps.             *)
LEMMA ItemIsTheOne ==
  ASSUME NEW list, Distinct(list), NEW i \in DOMAIN list
  PROVE  Item(list, list[i].id) = list[i]
  <1>1. \A j \in DOMAIN list : list[j].id = list[i].id => j = i
    BY DEF Distinct, IsInjective, Column
  <1>2. \A k \in DOMAIN list :
          (/\ list[k].id = list[i].id
           /\ \A j \in DOMAIN list \ {k} : list[j].id = list[i].id => j < k)
            <=> k = i
    BY <1>1
  <1> QED
    BY <1>2 DEF Item

LEMMA ItemsAreTheList ==
  ASSUME NEW list, Distinct(list)
  PROVE  Items(list) = Range(list)
  <1>1. \A i \in DOMAIN list : Item(list, list[i].id) = list[i]
    BY ItemIsTheOne
  <1> QED
    BY <1>1 DEF Items, Ids, Range

LEMMA IdIsInIds ==
  ASSUME NEW list, NEW x \in Range(list)
  PROVE  x.id \in Ids(list)
  BY DEF Range, Ids

LEMMA ItemOfMember ==
  ASSUME NEW list, Distinct(list), NEW x \in Range(list)
  PROVE  Item(list, x.id) = x
  <1>1. PICK i \in DOMAIN list : x = list[i]
    BY DEF Range
  <1> QED
    BY <1>1, ItemIsTheOne

-----------------------------------------------------------------------------
(* What has been accepted stays so, and what raises had a lookup that fails. *)
RenderingInv ==
  /\ outcome \in Outcomes /\ edits \in 0 .. MaxEdits
  /\ Passed => WellFormed(scenario) /\ Accepted(scenario)
  /\ outcome = "raised" => ~(LookupsSucceed(scenario) /\ Renders(scenario))

LEMMA RenderingInvHolds == Spec => []RenderingInv
  <1>1. Init => RenderingInv
    BY MaxEditsIsNatural DEF Init, RenderingInv, Passed, Outcomes
  <1>2. RenderingInv /\ [Next]_vars => RenderingInv'
    <2> SUFFICES ASSUME RenderingInv, [Next]_vars PROVE RenderingInv'
      OBVIOUS
    <2>1. CASE Author
      BY <2>1, MaxEditsIsNatural DEF Author, RenderingInv, Passed, Outcomes
    <2>2. CASE Load
      BY <2>2 DEF Load, RenderingInv, Passed, Outcomes
    <2>3. CASE Compile
      BY <2>3 DEF Compile, RenderingInv, Passed, Outcomes
    <2>4. CASE Render
      BY <2>4 DEF Render, RenderingInv, Passed, Outcomes
    <2>5. CASE UNCHANGED vars
      BY <2>5 DEF vars, RenderingInv, Passed
    <2> QED
      BY <2>1, <2>2, <2>3, <2>4, <2>5 DEF Next
  <1> QED
    BY <1>1, <1>2, PTL DEF Spec

(* An outcome is one of the known ones, and an accepted scenario declares   *)
(* flows, and a session for each UE.                                        *)
THEOREM RenderingTypeCorrect == Spec => []TypeOK
  <1>1. WellFormed(scenario) =>
          Len(scenario.flows) > 0 /\ \A ue \in Range(scenario.ues) : Len(ue.sessions) > 0
    BY DEF WellFormed, NothingEmpty
  <1>2. RenderingInv => TypeOK
    BY <1>1 DEF RenderingInv, TypeOK
  <1> QED
    BY <1>2, RenderingInvHolds, PTL

-----------------------------------------------------------------------------
(* Distinct ids, list by list.                                              *)
LEMMA ListsDistinct ==
  ASSUME IdsDiffer
  PROVE  /\ Distinct(scenario.slices) /\ Distinct(scenario.sites) /\ Distinct(scenario.ues)
         /\ Distinct(scenario.services) /\ Distinct(scenario.upfs) /\ Distinct(scenario.gnbs)
  BY DEF IdsDiffer, Distinct

(* A UPF or a service in the cloud has the link.                            *)
LEMMA CloudHasItsLink ==
  ASSUME IdsDiffer, Accepted(scenario),
         NEW x \in Items(scenario.upfs) \union Items(scenario.services),
         Item(scenario.sites, x.site_id).type = "cloud"
  PROVE  Len(scenario.links) = 1
  <1>1. x.site_id \in Ids(scenario.sites)
    BY DEF Accepted, SitesKnown
  <1>2. PICK s \in Range(scenario.sites) : s.id = x.site_id
    BY <1>1 DEF Ids, Range
  <1>3. Item(scenario.sites, x.site_id) = s
    BY <1>2, ListsDistinct, ItemOfMember
  <1>4. x.site_id \in {t.id : t \in {u \in Range(scenario.sites) : u.type = "cloud"}}
    BY <1>2, <1>3
  <1> QED
    BY <1>4 DEF Accepted, LinkIfCloud

(* A site that is not at the edge is in the cloud, and then there is the    *)
(* link.                                                                    *)
LEMMA LinkIsThere ==
  ASSUME IdsDiffer, WellFormed(scenario), Accepted(scenario),
         NEW x \in Items(scenario.services), ~AtEdge(scenario, x)
  PROVE  Len(scenario.links) = 1
  <1>1. x.site_id \in Ids(scenario.sites)
    BY DEF Accepted, SitesKnown
  <1>2. PICK s \in Range(scenario.sites) : s.id = x.site_id
    BY <1>1 DEF Ids, Range
  <1>3. Item(scenario.sites, x.site_id) = s
    BY <1>2, ListsDistinct, ItemOfMember
  <1>4. SiteTypesKnown(scenario)
    BY DEF WellFormed
  <1>5. s.type \in {"edge", "cloud"}
    BY <1>2, <1>4 DEF SiteTypesKnown
  <1>6. s.type # "edge"
    BY <1>2, <1>3 DEF AtEdge
  <1> QED
    BY <1>3, <1>5, <1>6, CloudHasItsLink

(* The services of the testbed itself are in two fragments.                 *)
LEMMA OwnServicesApart == CoreServices \intersect TelemetryServices = {}
  BY DEF CoreServices, TelemetryServices

(* Containers of two owners have two names.                                 *)
LEMMA OwnersNamesApart ==
  ASSUME Accepted(scenario), NEW S, NEW T, S \intersect T = {}
  PROVE  Names(scenario, S) \intersect Names(scenario, T) = {}
  <1>1. \A c, d \in Containers(scenario) : c.name = d.name => c = d
    BY DEF Accepted, NamesDiffer
  <1> QED
    BY <1>1 DEF Names

LEMMA AcceptedFragmentsMerge ==
  ASSUME NamesFree, Accepted(scenario)
  PROVE  FragmentsMerge(scenario)
  <1> DEFINE upfs == Names(scenario, {"upf"})
             oai == Names(scenario, {"gnb", "ue", "sidecar"})
             mec == Names(scenario, {"service", "link"})
  <1>1. upfs \intersect oai = {} /\ upfs \intersect mec = {} /\ oai \intersect mec = {}
    <2>1. {"upf"} \intersect {"gnb", "ue", "sidecar"} = {}
      OBVIOUS
    <2>2. {"upf"} \intersect {"service", "link"} = {}
      OBVIOUS
    <2>3. {"gnb", "ue", "sidecar"} \intersect {"service", "link"} = {}
      OBVIOUS
    <2> QED
      BY <2>1, <2>2, <2>3, OwnersNamesApart
  <1>2. \A n \in upfs \union oai \union mec : n \notin CoreServices \union TelemetryServices
    BY DEF NamesFree, Names
  <1>3. Fragments(scenario) = <<CoreServices \union upfs, oai, mec, TelemetryServices>>
    BY DEF Fragments
  <1> HIDE DEF upfs, oai, mec
  <1>4. /\ (CoreServices \union upfs) \intersect oai = {}
        /\ (CoreServices \union upfs) \intersect mec = {}
        /\ (CoreServices \union upfs) \intersect TelemetryServices = {}
        /\ oai \intersect mec = {} /\ oai \intersect TelemetryServices = {}
        /\ mec \intersect TelemetryServices = {}
    BY <1>1, <1>2, OwnServicesApart
  <1>5. \A i, j \in 1 .. 4 :
          i # j => Fragments(scenario)[i] \intersect Fragments(scenario)[j] = {}
    BY <1>3, <1>4
  <1>6. DOMAIN Fragments(scenario) = 1 .. 4
    BY <1>3
  <1> QED
    BY <1>5, <1>6 DEF FragmentsMerge

LEMMA AcceptedLookupsSucceed ==
  ASSUME IdsDiffer, NamesFree, WellFormed(scenario), Accepted(scenario)
  PROVE  LookupsSucceed(scenario) /\ Renders(scenario)
  <1>1. Items(scenario.ues) = Range(scenario.ues)
    BY ListsDistinct, ItemsAreTheList
  <1>2. Items(scenario.upfs) = Range(scenario.upfs)
    BY ListsDistinct, ItemsAreTheList
  <1>3. \A x \in Sessions(scenario) :
          x.slice_id \in Ids(scenario.slices) /\ \E u \in Range(scenario.upfs) : u.dnn = x.dnn
    <2>1. \A ue \in Range(scenario.ues) : \A x \in Range(ue.sessions) :
            x.slice_id \in Ids(scenario.slices) /\ \E u \in Range(scenario.upfs) : u.dnn = x.dnn
      BY <1>1, <1>2 DEF Accepted, SessionsResolve
    <2> QED
      BY <2>1 DEF Sessions
  <1>4. ASSUME NEW ue \in Range(scenario.ues), NEW f \in FlowsOf(scenario, ue)
        PROVE  /\ f.session_id \in Ids(ue.sessions)
               /\ f.service_instance_id \in Ids(scenario.services)
    <2>1. f \in Range(scenario.flows) /\ f.ue_id = ue.id
      BY DEF FlowsOf
    <2>2. Item(scenario.ues, f.ue_id) = ue
      BY <2>1, ListsDistinct, ItemOfMember
    <2> QED
      BY <2>1, <2>2 DEF Accepted, FlowsResolve
  <1>5. RoutesKnown(scenario)
    <2>1. ASSUME NEW u \in Range(scenario.upfs)
          PROVE  /\ u.site_id \in Ids(scenario.sites)
                 /\ Item(scenario.sites, u.site_id).type = "cloud" => Len(scenario.links) = 1
      BY <1>2, CloudHasItsLink DEF Accepted, SitesKnown
    <2>2. ASSUME NEW s \in Range(scenario.services), s.network = "cloud-app-net"
          PROVE  Len(scenario.links) = 1
      <3>1. s \in Items(scenario.services)
        BY ListsDistinct, ItemsAreTheList
      <3>2. ~AtEdge(scenario, s)
        BY <2>2, <3>1 DEF Accepted, ServicesFit
      <3> QED
        BY <3>1, <3>2, LinkIsThere
    <2> QED
      BY <2>1, <2>2 DEF RoutesKnown
  <1>6. GnbsKnown(scenario)
    BY <1>1 DEF Accepted, SessionsResolve, GnbsKnown
  <1>7. LimitsKnown(scenario)
    <2>1. Items(scenario.gnbs) = Range(scenario.gnbs)
      BY ListsDistinct, ItemsAreTheList
    <2>2. \A x \in Range(scenario.upfs) \union Range(scenario.gnbs) \union Range(scenario.ues) :
            x.container \in DOMAIN scenario.containers
      BY <1>1, <1>2, <2>1 DEF Accepted, PlanComplete
    <2> QED
      BY <2>2 DEF LimitsKnown
  <1> QED
    BY <1>3, <1>4, <1>5, <1>6, <1>7, AcceptedFragmentsMerge
       DEF LookupsSucceed, SlicesKnown, Renders

(* For any scenario: rendering what was accepted fails only if an id is     *)
(* declared twice or a container is named like one of the testbed's own.    *)
THEOREM AcceptedAlwaysRenders == Spec => []AcceptedScenariosRender
  <1>1. RenderingInv => AcceptedScenariosRender
    BY AcceptedLookupsSucceed DEF RenderingInv, AcceptedScenariosRender, Passed
  <1> QED
    BY <1>1, RenderingInvHolds, PTL

-----------------------------------------------------------------------------
(* A session's UPF has the session's DNN.                                   *)
LEMMA UpfForFits ==
  ASSUME NEW upfs, NEW x, \E u \in upfs : u.dnn = x.dnn
  PROVE  UpfFor(upfs, x) \in upfs /\ UpfFor(upfs, x).dnn = x.dnn
  BY DEF UpfFor

(* The two assumptions SliceCatalog makes of its constants, for any         *)
(* accepted scenario without duplicates.                                    *)
THEOREM SlicesAlwaysHaveTheirUpfs == Spec => []SlicesHaveTheirUpfs
  <1>1. ASSUME RenderingInv, Passed, IdsDiffer
        PROVE  \A s \in Ids(scenario.slices) :
                 /\ Bindings(scenario, s) # {}
                 /\ \A t \in Ids(scenario.slices) \ {s} :
                      Bindings(scenario, s) \cap Bindings(scenario, t) = {}
    <2> DEFINE upfs == Range(scenario.upfs)
               OfSlice(s) == {y \in UNION {Range(ue.sessions) : ue \in Items(scenario.ues)} :
                                y.slice_id = s}
    <2>1. Accepted(scenario)
      BY <1>1 DEF RenderingInv
    <2>2. Items(scenario.upfs) = upfs
      BY <1>1, ListsDistinct, ItemsAreTheList
    <2>3. ASSUME NEW s, NEW x \in OfSlice(s)
          PROVE  UpfFor(upfs, x).dnn = x.dnn
      <3>1. \E u \in upfs : u.dnn = x.dnn
        BY <2>1, <2>2 DEF Accepted, SessionsResolve
      <3> QED
        BY <3>1, UpfForFits
    <2>4. ASSUME NEW s \in Ids(scenario.slices)
          PROVE  OfSlice(s) # {}
      BY <2>1 DEF Accepted, SlicesExclusive
    <2>5. ASSUME NEW s, NEW t, NEW x \in OfSlice(s), NEW y \in OfSlice(t), x.dnn = y.dnn
          PROVE  s = t
      BY <2>1, <2>5 DEF Accepted, SlicesExclusive
    <2>6. \A s : Bindings(scenario, s) = {UpfFor(upfs, x) : x \in OfSlice(s)}
      BY DEF Bindings
    <2> HIDE DEF upfs, OfSlice
    <2>7. ASSUME NEW s \in Ids(scenario.slices), NEW t \in Ids(scenario.slices) \ {s},
                 NEW u \in Bindings(scenario, s) \cap Bindings(scenario, t)
          PROVE  FALSE
      <3>1. PICK x \in OfSlice(s) : u = UpfFor(upfs, x)
        BY <2>6, <2>7
      <3>2. PICK y \in OfSlice(t) : u = UpfFor(upfs, y)
        BY <2>6, <2>7
      <3>3. x.dnn = y.dnn
        BY <3>1, <3>2, <2>3
      <3> QED
        BY <3>3, <2>5, <2>7
    <2> QED
      BY <2>4, <2>6, <2>7
  <1> QED
    BY <1>1, RenderingInvHolds, PTL DEF SlicesHaveTheirUpfs

-----------------------------------------------------------------------------
(* The interface of a session whose id is its own.                          *)
LEMMA PositionIsItsOwn ==
  ASSUME NEW list, Distinct(list), NEW id \in Ids(list)
  PROVE  list[Position(list, id)] = Item(list, id)
  <1>1. PICK i \in DOMAIN list : list[i].id = id
    BY DEF Ids
  <1>2. \A j \in DOMAIN list : list[j].id = id => j = i
    BY <1>1 DEF Distinct, IsInjective, Column
  <1>3. \A k \in DOMAIN list :
          (/\ list[k].id = id
           /\ \A j \in DOMAIN list \ {k} : list[j].id = id => k < j)
            <=> k = i
    BY <1>1, <1>2
  <1>4. Position(list, id) = i
    BY <1>3 DEF Position
  <1> QED
    BY <1>1, <1>4, ItemIsTheOne

(* Where the packets of any flow of any accepted scenario without           *)
(* duplicates go.                                                           *)
THEOREM FlowsAlwaysReachTheirServices == Spec => []FlowsReachTheirServices
  <1>1. ASSUME RenderingInv, outcome = "rendered", IdsDiffer,
               NEW ue \in Range(scenario.ues), NEW g \in FlowsOf(scenario, ue),
               NEW f \in Range(scenario.flows), f.id = g.id
        PROVE  LET edge == Edges(scenario, ue, g)
                   profile == Profile(scenario, f)
                   session == Item(scenario.ues, edge.originates).sessions[profile.interface]
                   n6 == N6Of(scenario, edge.traverses)
               IN /\ session.dnn = edge.traverses.dnn
                  /\ profile.destination_ip = edge.terminates_at.ip
                  /\ \/ edge.terminates_at.network = n6
                     \/ /\ n6 = "cloud-n6-net"
                        /\ edge.terminates_at.network = "cloud-app-net"
                        /\ Len(scenario.links) = 1
    <2> DEFINE upfs == Range(scenario.upfs)
               session == Item(ue.sessions, f.session_id)
               upf == UpfFor(upfs, session)
               service == Item(scenario.services, f.service_instance_id)
    <2>1. WellFormed(scenario) /\ Accepted(scenario)
      BY <1>1 DEF RenderingInv, Passed
    <2>2. f = g /\ f.ue_id = ue.id
      <3>1. IsInjective(Column(scenario.flows, "id"))
        BY <2>1 DEF Accepted, NamesDiffer
      <3>2. g \in Range(scenario.flows) /\ g.ue_id = ue.id
        BY DEF FlowsOf
      <3>3. PICK i \in DOMAIN scenario.flows : f = scenario.flows[i]
        BY DEF Range
      <3>4. PICK j \in DOMAIN scenario.flows : g = scenario.flows[j]
        BY <3>2 DEF Range
      <3> QED
        BY <1>1, <3>1, <3>2, <3>3, <3>4 DEF IsInjective, Column
    <2>3. Items(scenario.upfs) = upfs /\ Items(scenario.ues) = Range(scenario.ues)
      BY <1>1, ListsDistinct, ItemsAreTheList
    <2>4. Item(scenario.ues, ue.id) = ue
      BY <1>1, ListsDistinct, ItemOfMember
    <2>5. /\ f.session_id \in Ids(ue.sessions)
          /\ upf.site_id = service.site_id
          /\ f.service_instance_id \in Ids(scenario.services)
      BY <2>1, <2>2, <2>3, <2>4 DEF Accepted, FlowsResolve
    <2>6. Distinct(ue.sessions)
      BY <2>1, <2>3 DEF Accepted, SessionsResolve, Distinct
    <2>7. ue.sessions[Position(ue.sessions, f.session_id)] = session
      BY <2>5, <2>6, PositionIsItsOwn
    <2>8. upf \in upfs /\ upf.dnn = session.dnn
      <3>1. PICK i \in DOMAIN ue.sessions : ue.sessions[i].id = f.session_id
        BY <2>5 DEF Ids
      <3>2. session = ue.sessions[i]
        BY <2>6, <3>1, ItemIsTheOne
      <3>3. session \in Range(ue.sessions)
        BY <3>2 DEF Range
      <3>4. \E u \in upfs : u.dnn = session.dnn
        BY <2>1, <2>3, <3>3 DEF Accepted, SessionsResolve
      <3> QED
        BY <3>4, UpfForFits
    <2>9. service \in Items(scenario.services)
      BY <2>5 DEF Items
    <2>10. AtEdge(scenario, upf) <=> AtEdge(scenario, service)
      BY <2>5 DEF AtEdge
    <2>11. service.network = IF AtEdge(scenario, service) THEN "edge-n6-net" ELSE "cloud-app-net"
      BY <2>1, <2>9 DEF Accepted, ServicesFit
    <2>12. ~AtEdge(scenario, service) => Len(scenario.links) = 1
      BY <1>1, <2>1, <2>9, LinkIsThere
    <2>13. \/ service.network = N6Of(scenario, upf)
           \/ /\ N6Of(scenario, upf) = "cloud-n6-net" /\ service.network = "cloud-app-net"
              /\ Len(scenario.links) = 1
      BY <2>10, <2>11, <2>12 DEF N6Of
    <2>14. /\ Edges(scenario, ue, g).originates = ue.id
           /\ Edges(scenario, ue, g).traverses = upf
           /\ Edges(scenario, ue, g).terminates_at = service
      BY <2>2 DEF Edges
    <2>15. /\ Profile(scenario, f).interface = Position(ue.sessions, f.session_id)
           /\ Profile(scenario, f).destination_ip = service.ip
      BY <2>2, <2>4 DEF Profile
    <2> HIDE DEF upfs, session, upf, service
    <2> QED
      BY <2>4, <2>7, <2>8, <2>13, <2>14, <2>15
  <1>2. RenderingInv => FlowsReachTheirServices
    <2> SUFFICES ASSUME RenderingInv, outcome = "rendered", IdsDiffer,
                        NEW edge \in Topology(scenario),
                        NEW f \in Range(scenario.flows), f.id = edge.flow
                 PROVE  LET profile == Profile(scenario, f)
                            session == Item(scenario.ues, edge.originates).sessions[profile.interface]
                            n6 == N6Of(scenario, edge.traverses)
                        IN /\ session.dnn = edge.traverses.dnn
                           /\ profile.destination_ip = edge.terminates_at.ip
                           /\ \/ edge.terminates_at.network = n6
                              \/ /\ n6 = "cloud-n6-net"
                                 /\ edge.terminates_at.network = "cloud-app-net"
                                 /\ Len(scenario.links) = 1
      BY DEF FlowsReachTheirServices
    <2>1. PICK ue \in Range(scenario.ues) :
            \E g \in FlowsOf(scenario, ue) : edge = Edges(scenario, ue, g)
      BY DEF Topology
    <2>2. PICK g \in FlowsOf(scenario, ue) : edge = Edges(scenario, ue, g)
      BY <2>1
    <2>3. edge.flow = g.id
      BY <2>2 DEF Edges
    <2> QED
      BY <1>1, <2>2, <2>3
  <1> QED
    BY <1>2, RenderingInvHolds, PTL

-----------------------------------------------------------------------------
(* What a UE asks for, in the terms of the dictionaries.                    *)
LEMMA RequestOfSlice ==
  ASSUME IdsDiffer, NEW x, x.slice_id \in Ids(scenario.slices)
  PROVE  Request(scenario, x) = Grant(Snssai(scenario, x.slice_id), x.dnn)
  BY ListsDistinct, PositionIsItsOwn DEF Request, Snssai

(* An id of a list is that of the item its dictionary holds.                *)
LEMMA ItemIsInTheList ==
  ASSUME NEW list, Distinct(list), NEW id \in Ids(list)
  PROVE  Item(list, id) \in Range(list) /\ Item(list, id).id = id
  <1>1. PICK i \in DOMAIN list : list[i].id = id
    BY DEF Ids
  <1> QED
    BY <1>1, ItemIsTheOne DEF Range

(* Where S-NSSAIs differ, no slice replaces another in the subscriber's     *)
(* document.                                                                *)
LEMMA SelectionKeepsSessions ==
  ASSUME IdsDiffer, IsInjective(Column(scenario.slices, "snssai")),
         NEW ue, \A z \in Range(ue.sessions) : z.slice_id \in Ids(scenario.slices),
         NEW x \in Range(ue.sessions)
  PROVE  Grant(Snssai(scenario, x.slice_id), x.dnn) \in SmfSelection(scenario, ue)
  <1>1. ASSUME NEW z \in Range(ue.sessions),
               Snssai(scenario, z.slice_id) = Snssai(scenario, x.slice_id)
        PROVE  z.slice_id = x.slice_id
    <2>1. PICK i \in DOMAIN scenario.slices : Item(scenario.slices, z.slice_id) = scenario.slices[i]
      BY ListsDistinct, ItemIsInTheList DEF Range
    <2>2. PICK j \in DOMAIN scenario.slices : Item(scenario.slices, x.slice_id) = scenario.slices[j]
      BY ListsDistinct, ItemIsInTheList DEF Range
    <2>3. i = j
      BY <1>1, <2>1, <2>2 DEF Snssai, IsInjective, Column
    <2> QED
      BY <2>1, <2>2, <2>3, ListsDistinct, ItemIsInTheList
  <1> QED
    BY <1>1 DEF SmfSelection

(* The SMF may take one UPF for a session: that of the session's DNN.       *)
LEMMA OneUpfTakesIt ==
  ASSUME IdsDiffer, IsInjective(Column(scenario.upfs, "dnn")),
         NEW x \in Sessions(scenario), x.slice_id \in Ids(scenario.slices),
         \E u \in Range(scenario.upfs) : u.dnn = x.dnn
  PROVE  {n.id : n \in {m \in UpNodes(scenario) :
                          m.dnn = x.dnn /\ Snssai(scenario, x.slice_id) \in m.snssais}}
           = {UpfFor(Range(scenario.upfs), x).id}
  <1> DEFINE upf == UpfFor(Range(scenario.upfs), x)
             s == Item(scenario.slices, x.slice_id)
             takers == {m \in UpNodes(scenario) :
                          m.dnn = x.dnn /\ Snssai(scenario, x.slice_id) \in m.snssais}
  <1>1. upf \in Range(scenario.upfs) /\ upf.dnn = x.dnn
    BY UpfForFits
  <1>2. Items(scenario.upfs) = Range(scenario.upfs)
    BY ListsDistinct, ItemsAreTheList
  <1>3. \A u \in Range(scenario.upfs) : u.dnn = x.dnn => u = upf
    BY <1>1 DEF Range, IsInjective, Column
  <1>4. s \in Range(scenario.slices) /\ s.id = x.slice_id
    BY ListsDistinct, ItemIsInTheList
  <1>5. \A u : /\ UpNode(scenario, u).id = u.id
               /\ UpNode(scenario, u).dnn = u.dnn
               /\ UpNode(scenario, u).snssais
                    = {t.snssai : t \in {v \in Range(scenario.slices) : Served(scenario, v, u.dnn)}}
    BY DEF UpNode
  <1>6. Served(scenario, s, upf.dnn)
    BY <1>1, <1>4 DEF Served
  <1>7. UpNode(scenario, upf) \in takers
    <2>1. s.snssai \in UpNode(scenario, upf).snssais
      BY <1>4, <1>5, <1>6
    <2>2. UpNode(scenario, upf) \in UpNodes(scenario)
      BY <1>1, <1>2 DEF UpNodes
    <2> QED
      BY <1>1, <1>5, <2>1, <2>2 DEF Snssai
  <1>8. ASSUME NEW n \in takers PROVE n.id = upf.id
    <2>1. PICK u \in Range(scenario.upfs) : n = UpNode(scenario, u)
      BY <1>2 DEF UpNodes
    <2> QED
      BY <1>3, <1>5, <2>1
  <1>9. UpNode(scenario, upf).id = upf.id
    BY <1>5
  <1> HIDE DEF takers, upf
  <1>10. {n.id : n \in takers} = {upf.id}
    BY <1>7, <1>8, <1>9
  <1> QED
    BY <1>10 DEF takers, upf

(* For any accepted scenario without duplicates: what a UE asks for each of *)
(* its sessions is granted by the subscriber's document, by the SMF, and    *)
(* there by the one UPF the topology names.                                 *)
THEOREM SessionsAreAlwaysGranted == Spec => []SessionsAreGranted
  <1>1. ASSUME RenderingInv, outcome = "rendered", IdsDiffer,
               IsInjective(Column(scenario.slices, "snssai")),
               NEW ue \in Range(scenario.ues), NEW x \in Range(ue.sessions)
        PROVE  LET request == Request(scenario, x)
                   takers == {n \in UpNodes(scenario) :
                                n.dnn = request.dnn /\ request.snssai \in n.snssais}
               IN /\ request \in SmfSelection(scenario, ue)
                  /\ request \in SnssaiInfos(scenario)
                  /\ {n.id : n \in takers} = {UpfFor(Range(scenario.upfs), x).id}
    <2> DEFINE snssai == Snssai(scenario, x.slice_id)
    <2>1. Accepted(scenario)
      BY <1>1 DEF RenderingInv, Passed
    <2>2. Items(scenario.upfs) = Range(scenario.upfs) /\ Items(scenario.ues) = Range(scenario.ues)
      BY <1>1, ListsDistinct, ItemsAreTheList
    <2>3. \A z \in Range(ue.sessions) :
            z.slice_id \in Ids(scenario.slices) /\ \E u \in Range(scenario.upfs) : u.dnn = z.dnn
      BY <2>1, <2>2 DEF Accepted, SessionsResolve
    <2>4. x \in Sessions(scenario)
      BY DEF Sessions
    <2>5. Request(scenario, x) = Grant(snssai, x.dnn)
      BY <1>1, <2>3, RequestOfSlice
    <2>6. Grant(snssai, x.dnn).snssai = snssai /\ Grant(snssai, x.dnn).dnn = x.dnn
      BY DEF Grant
    <2>7. Grant(snssai, x.dnn) \in SmfSelection(scenario, ue)
      BY <1>1, <2>3, SelectionKeepsSessions
    <2>8. Grant(snssai, x.dnn) \in SnssaiInfos(scenario)
      <3> DEFINE s == Item(scenario.slices, x.slice_id)
      <3>1. s \in Range(scenario.slices) /\ s.id = x.slice_id
        BY <1>1, <2>3, ListsDistinct, ItemIsInTheList
      <3>2. snssai = s.snssai
        BY DEF Snssai
      <3> HIDE DEF s, snssai
      <3> QED
        BY <2>4, <3>1, <3>2 DEF SnssaiInfos
    <2>9. {n.id : n \in {m \in UpNodes(scenario) : m.dnn = x.dnn /\ snssai \in m.snssais}}
            = {UpfFor(Range(scenario.upfs), x).id}
      BY <1>1, <2>1, <2>3, <2>4, OneUpfTakesIt DEF Accepted, NamesDiffer
    <2> HIDE DEF snssai
    <2> QED
      BY <2>5, <2>6, <2>7, <2>8, <2>9
  <1>2. RenderingInv => SessionsAreGranted
    BY <1>1 DEF SessionsAreGranted
  <1> QED
    BY <1>2, RenderingInvHolds, PTL

-----------------------------------------------------------------------------
(* The addresses of an accepted scenario.                                   *)
LEMMA InterfacesAreTyped ==
  ASSUME IdsDiffer, WellFormed(scenario), Accepted(scenario), NEW i \in Interfaces(scenario)
  PROVE  i.ip \in Nat /\ i.net \in Networks
  <1>1. /\ Items(scenario.upfs) = Range(scenario.upfs)
        /\ Items(scenario.gnbs) = Range(scenario.gnbs)
        /\ Items(scenario.services) = Range(scenario.services)
    BY ListsDistinct, ItemsAreTheList
  <1>2. AddressesParse(scenario)
    BY DEF WellFormed
  <1>3. \A of, id, net, ip : /\ Interface(of, id, net, ip).ip = ip
                             /\ Interface(of, id, net, ip).net = net
    BY DEF Interface
  <1>4. \A s \in Items(scenario.services) : s.network \in Networks
    BY DEF Accepted, ServicesFit, Networks
  <1>5. \A u : N6Of(scenario, u) \in Networks
    BY DEF N6Of, Networks
  <1>6. {"sbi-net", "n2-net", "n3-net", "n4-net", "cloud-n6-net", "cloud-app-net"} \subseteq Networks
    BY DEF Networks
  <1> QED
    BY <1>1, <1>2, <1>3, <1>4, <1>5, <1>6 DEF Interfaces, InterfacesOf, AddressesParse

(* For any accepted scenario without duplicates: no address is rendered     *)
(* twice or lies in a second network or pool.                               *)
THEOREM AddressesAreAlwaysUnambiguous == Spec => []AddressesAreUnambiguous
  <1>1. ASSUME RenderingInv, Passed, IdsDiffer
        PROVE  LET all == InterfacesOf(scenario, Range(scenario.upfs), Range(scenario.gnbs),
                                       Range(scenario.services), Range(scenario.links))
               IN \A i \in all :
                    /\ \A j \in all : i.ip = j.ip => i = j
                    /\ \A n \in AllNetworks(scenario) :
                         n.cidr[1] <= i.ip /\ i.ip <= n.cidr[2] => n.of = "docker" /\ n.id = i.net
    <2>1. WellFormed(scenario) /\ Accepted(scenario)
      BY <1>1 DEF RenderingInv
    <2>2. InterfacesOf(scenario, Range(scenario.upfs), Range(scenario.gnbs),
                       Range(scenario.services), Range(scenario.links)) = Interfaces(scenario)
      BY <1>1, ListsDistinct, ItemsAreTheList DEF Interfaces
    <2>3. \A i, j \in Interfaces(scenario) : i.ip = j.ip => i = j
      BY <2>1 DEF Accepted, AddressesDiffer
    <2>4. ASSUME NEW i \in Interfaces(scenario), NEW n \in AllNetworks(scenario),
                 n.cidr[1] <= i.ip, i.ip <= n.cidr[2]
          PROVE  n.of = "docker" /\ n.id = i.net
      <3> DEFINE m == [of |-> "docker", id |-> i.net, cidr |-> scenario.networks[i.net]]
      <3>1. i.ip \in Nat /\ i.net \in Networks
        BY <1>1, <2>1, InterfacesAreTyped
      <3>2. m \in AllNetworks(scenario)
        BY <3>1 DEF AllNetworks
      <3>3. m.cidr[1] < i.ip /\ i.ip < m.cidr[2]
        BY <2>1 DEF Accepted, HostsFit
      <3>4. \A k \in AllNetworks(scenario) : k.cidr[1] \in Nat /\ k.cidr[2] \in Nat
        <4>1. AddressesParse(scenario)
          BY <2>1 DEF WellFormed
        <4>2. Items(scenario.upfs) = Range(scenario.upfs)
          BY <1>1, ListsDistinct, ItemsAreTheList
        <4> QED
          BY <4>1, <4>2 DEF AllNetworks, AddressesParse
      <3>5. m # n => ~Overlap(m.cidr, n.cidr)
        BY <2>1, <3>2 DEF Accepted, NetworksApart
      <3>6. m.of = "docker" /\ m.id = i.net
        OBVIOUS
      <3> HIDE DEF m
      <3>7. Overlap(m.cidr, n.cidr)
        BY <2>4, <3>1, <3>2, <3>3, <3>4 DEF Overlap
      <3> QED
        BY <3>5, <3>6, <3>7
    <2> QED
      BY <2>2, <2>3, <2>4
  <1> QED
    BY <1>1, RenderingInvHolds, PTL DEF AddressesAreUnambiguous
===============================================================================

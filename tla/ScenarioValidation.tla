-------------------------- MODULE ScenarioValidation --------------------------
(***************************************************************************)
(* What validate_scenario (scenario/validator.py) accepts.                  *)
(*                                                                         *)
(* A scenario sc is a record of lists of records, named as in schema.py.    *)
(* An address is a number, a CIDR the pair of its first and last address.   *)
(* Every check that fails raises, so that their order does not matter       *)
(* beyond what a later one may look up.                                     *)
(***************************************************************************)
EXTENDS Integers, Sequences, Functions

Networks == {"sbi-net", "n2-net", "n3-net", "n4-net", "edge-n6-net", "cloud-n6-net",
             "cloud-app-net", "monitoring-net", "control-net"}

Column(list, field) == [i \in DOMAIN list |-> list[i][field]]
Ids(list) == {list[i].id : i \in DOMAIN list}

NothingEmpty(sc) ==
  /\ \A list \in {sc.slices, sc.sites, sc.upfs, sc.gnbs, sc.ues, sc.services, sc.flows} :
       Len(list) > 0
  /\ \A ue \in Range(sc.ues) : Len(ue.sessions) > 0

SiteTypesKnown(sc) ==
  \A site \in Range(sc.sites) : site.type \in {"edge", "cloud"}

FieldsFit(sc) ==
  /\ \A f \in Range(sc.flows) :
       f.src_port \in 1024 .. 65535 /\ f.dst_port \in 1 .. 65535
  /\ \A event \in Range(sc.mobility) : event.at_seconds > 0

(* Every address is an IPv4Text, every network and pool a CIDRText.          *)
AddressesParse(sc) ==
  /\ sc.networks \in [Networks -> Nat \X Nat]
  /\ {sc.amf.sbi_ip, sc.amf.n2_ip, sc.smf.sbi_ip, sc.smf.n4_ip} \subseteq Nat
  /\ \A u \in Range(sc.upfs) :
       {u.n3_ip, u.n4_ip, u.n6_ip} \subseteq Nat /\ u.ue_pool \in Nat \X Nat
  /\ \A g \in Range(sc.gnbs) : {g.n2_ip, g.n3_ip} \subseteq Nat
  /\ \A s \in Range(sc.services) : s.ip \in Nat
  /\ \A k \in Range(sc.links) : {k.n6_ip, k.app_side_ip} \subseteq Nat

(* What schema.py demands of it before validate_scenario sees it.           *)
WellFormed(sc) ==
  NothingEmpty(sc) /\ SiteTypesKnown(sc) /\ FieldsFit(sc) /\ AddressesParse(sc)

(* {item.id: item for item in list}: of items with one id the last is kept. *)
Item(list, id) ==
  list[CHOOSE i \in DOMAIN list :
         /\ list[i].id = id
         /\ \A j \in DOMAIN list \ {i} : list[j].id = id => j < i]
Items(list) == {Item(list, id) : id \in Ids(list)}

-----------------------------------------------------------------------------
(* Who has which container.                                                 *)
Named(of, list, field) ==
  {[of |-> of, index |-> i, name |-> list[i][field]] : i \in DOMAIN list}

Containers(sc) ==
  UNION {Named("upf", sc.upfs, "container"), Named("gnb", sc.gnbs, "container"),
         Named("ue", sc.ues, "container"), Named("sidecar", sc.ues, "traffic_sidecar"),
         Named("service", sc.services, "container"), Named("link", sc.links, "container")}

(* The ids of slices, sites, gNBs, UEs, services and UPFs are looked at as   *)
(* the keys of dictionaries, which never hold one twice: no check of theirs  *)
(* is here.                                                                 *)
NamesDiffer(sc) ==
  /\ IsInjective(Column(sc.gnbs, "cell"))
  /\ IsInjective(Column(sc.ues, "supi"))
  /\ IsInjective(Column(sc.upfs, "dnn"))
  /\ IsInjective(Column(sc.flows, "id"))
  /\ IsInjective(Column(sc.links, "id"))
  /\ \A c, d \in Containers(sc) : c.name = d.name => c = d

AllNetworks(sc) ==
  {[of |-> "docker", id |-> n, cidr |-> sc.networks[n]] : n \in Networks}
    \union {[of |-> "pool", id |-> u.id, cidr |-> u.ue_pool] : u \in Items(sc.upfs)}

Overlap(c, d) == c[1] <= d[2] /\ d[1] <= c[2]

(* Mutant: only the Docker networks are compared with each other.           *)
DockerNetworksApart(sc) ==
  \A m, n \in Networks : m # n => ~Overlap(sc.networks[m], sc.networks[n])

NetworksApart(sc) ==
  \A m, n \in AllNetworks(sc) : m # n => ~Overlap(m.cidr, n.cidr)

SitesKnown(sc) ==
  \A x \in Items(sc.upfs) \union Items(sc.gnbs) \union Items(sc.services) :
    x.site_id \in Ids(sc.sites)

AtEdge(sc, x) == Item(sc.sites, x.site_id).type = "edge"
N6Of(sc, u) == IF AtEdge(sc, u) THEN "edge-n6-net" ELSE "cloud-n6-net"

Interface(of, id, net, ip) == [of |-> of, id |-> id, net |-> net, ip |-> ip]

(* Who has which static address in which network.                           *)
InterfacesOf(sc, upfs, gnbs, services, links) ==
  {Interface("amf", "amf", "sbi-net", sc.amf.sbi_ip),
   Interface("amf", "amf", "n2-net", sc.amf.n2_ip),
   Interface("smf", "smf", "sbi-net", sc.smf.sbi_ip),
   Interface("smf", "smf", "n4-net", sc.smf.n4_ip)}
  \union {Interface("upf", u.id, "n3-net", u.n3_ip) : u \in upfs}
  \union {Interface("upf", u.id, "n4-net", u.n4_ip) : u \in upfs}
  \union {Interface("upf", u.id, N6Of(sc, u), u.n6_ip) : u \in upfs}
  \union {Interface("gnb", g.id, "n2-net", g.n2_ip) : g \in gnbs}
  \union {Interface("gnb", g.id, "n3-net", g.n3_ip) : g \in gnbs}
  \union {Interface("service", s.id, s.network, s.ip) : s \in services}
  \union {Interface("link", k.id, "cloud-n6-net", k.n6_ip) : k \in links}
  \union {Interface("link", k.id, "cloud-app-net", k.app_side_ip) : k \in links}

Interfaces(sc) ==
  InterfacesOf(sc, Items(sc.upfs), Items(sc.gnbs), Items(sc.services), Range(sc.links))

(* A usable host: neither the network's address nor the broadcast address.  *)
HostsFit(sc) ==
  \A i \in Interfaces(sc) :
    sc.networks[i.net][1] < i.ip /\ i.ip < sc.networks[i.net][2]

AddressesDiffer(sc) ==
  \A i, j \in Interfaces(sc) : i.ip = j.ip => i = j

-----------------------------------------------------------------------------
(* UEs, sessions and slices.                                                *)

SessionsResolve(sc) ==
  \A ue \in Items(sc.ues) :
    /\ ue.serving_gnb \in Ids(sc.gnbs)
    /\ IsInjective(Column(ue.sessions, "id"))
    /\ \A x \in Range(ue.sessions) :
         /\ x.slice_id \in Ids(sc.slices)
         /\ \E u \in Items(sc.upfs) : u.dnn = x.dnn

(* Mutant: slices are compared within a UE only.                            *)
SlicesExclusivePerUe(sc) ==
  /\ \A s \in Ids(sc.slices) :
       \E ue \in Items(sc.ues) : \E x \in Range(ue.sessions) : x.slice_id = s
  /\ \A ue \in Items(sc.ues) :
       \A x, y \in Range(ue.sessions) : x.dnn = y.dnn => x.slice_id = y.slice_id

(* Every slice is used, and no DNN by two of them.                          *)
SlicesExclusive(sc) ==
  /\ \A s \in Ids(sc.slices) :
       \E ue \in Items(sc.ues) : \E x \in Range(ue.sessions) : x.slice_id = s
  /\ \A ue, other \in Items(sc.ues) :
       \A x \in Range(ue.sessions), y \in Range(other.sessions) :
         x.dnn = y.dnn => x.slice_id = y.slice_id

-----------------------------------------------------------------------------
(* Services, the cloud link, mobility and flows.                            *)

ServicesFit(sc) ==
  \A s \in Items(sc.services) :
    /\ s.network = (IF AtEdge(sc, s) THEN "edge-n6-net" ELSE "cloud-app-net")
    /\ s.container \in DOMAIN sc.containers
    /\ sc.containers[s.container] = s.resources

(* cloud_sites is made from the list of sites, duplicates included.         *)
LinkIfCloud(sc) ==
  LET cloud_sites == {s.id : s \in {t \in Range(sc.sites) : t.type = "cloud"}}
      required == \E x \in Items(sc.upfs) \union Items(sc.services) :
                    x.site_id \in cloud_sites
  IN Len(sc.links) = IF required THEN 1 ELSE 0

MobilityOrdered(sc) ==
  \A i \in DOMAIN sc.mobility :
    /\ sc.mobility[i].ue_id \in Ids(sc.ues)
    /\ sc.mobility[i].target_gnb \in Ids(sc.gnbs)
    /\ sc.mobility[i].at_seconds > IF i = 1 THEN 0 ELSE sc.mobility[i - 1].at_seconds

(* The UPF of a session: dnn_to_upf.                                        *)
UpfFor(upfs, session) == CHOOSE u \in upfs : u.dnn = session.dnn

ExpectedPort(sc, f) ==
  CASE f.protocol = "tcp"  -> 5201
    [] f.protocol = "udp"  -> 5202
    [] f.protocol = "http" -> Item(sc.services, f.service_instance_id).port

(* Mutant: the session may be one of any UE.                                *)
FlowsResolveAnywhere(sc) ==
  /\ \A f \in Range(sc.flows) :
       /\ f.ue_id \in Ids(sc.ues) /\ f.service_instance_id \in Ids(sc.services)
       /\ \E ue \in Items(sc.ues) : f.session_id \in Ids(ue.sessions)
       /\ f.dst_port = ExpectedPort(sc, f)
  /\ IsInjective([i \in DOMAIN sc.flows |->
       <<sc.flows[i].ue_id, sc.flows[i].protocol, sc.flows[i].src_port, sc.flows[i].dst_port>>])

(* Mutant: a flow may leave the site of its UPF.                            *)
FlowsResolveAcrossSites(sc) ==
  /\ \A f \in Range(sc.flows) :
       /\ f.ue_id \in Ids(sc.ues) /\ f.service_instance_id \in Ids(sc.services)
       /\ f.session_id \in Ids(Item(sc.ues, f.ue_id).sessions)
       /\ f.dst_port = ExpectedPort(sc, f)
  /\ IsInjective([i \in DOMAIN sc.flows |->
       <<sc.flows[i].ue_id, sc.flows[i].protocol, sc.flows[i].src_port, sc.flows[i].dst_port>>])

FlowsResolve(sc) ==
  /\ \A f \in Range(sc.flows) :
       /\ f.ue_id \in Ids(sc.ues) /\ f.service_instance_id \in Ids(sc.services)
       /\ f.session_id \in Ids(Item(sc.ues, f.ue_id).sessions)
       /\ UpfFor(Items(sc.upfs), Item(Item(sc.ues, f.ue_id).sessions, f.session_id)).site_id
            = Item(sc.services, f.service_instance_id).site_id
       /\ f.dst_port = ExpectedPort(sc, f)
  /\ IsInjective([i \in DOMAIN sc.flows |->
       <<sc.flows[i].ue_id, sc.flows[i].protocol, sc.flows[i].src_port, sc.flows[i].dst_port>>])

(* The resource plan names just the containers that have one.               *)
PlanComplete(sc) ==
  DOMAIN sc.containers =
    {x.container : x \in Items(sc.upfs) \union Items(sc.gnbs) \union Items(sc.ues)
                           \union Items(sc.services)}

Accepted(sc) ==
  /\ NamesDiffer(sc) /\ NetworksApart(sc)
  /\ SitesKnown(sc) /\ HostsFit(sc) /\ AddressesDiffer(sc)
  /\ SessionsResolve(sc) /\ SlicesExclusive(sc)
  /\ ServicesFit(sc) /\ LinkIfCloud(sc)
  /\ MobilityOrdered(sc) /\ FlowsResolve(sc)
  /\ PlanComplete(sc)
===============================================================================

-------------------------- MODULE MCScenarioRendering --------------------------
(* ScenarioRendering for TLC: an edge and a cloud site with a UPF, a slice   *)
(* and a service each, and two UEs, like s2 and s7 of scenarios/.            *)
EXTENDS ScenarioRendering

Session(id, dnn, slice) == [id |-> id, dnn |-> dnn, slice_id |-> slice]
One == <<Session("one", "mec", "embb")>>
Both == <<Session("one", "mec", "embb"), Session("two", "internet", "urllc")>>
Swapped == <<Session("two", "internet", "urllc"), Session("one", "mec", "embb")>>
Shared == <<Session("one", "mec", "urllc"), Session("two", "internet", "urllc")>>
Split == <<Session("one", "mec", "embb"), Session("two", "internet", "embb")>>
Ghost == <<Session("one", "mec", "ghost"), Session("two", "internet", "ghost")>>

Flow(id, ue, session, service, protocol, src, dst) ==
  [id |-> id, ue_id |-> ue, session_id |-> session, service_instance_id |-> service,
   protocol |-> protocol, src_port |-> src, dst_port |-> dst]

Base ==
  [networks |-> [n \in Networks |->
     CASE n = "sbi-net" -> <<0, 9>> [] n = "n2-net" -> <<10, 19>>
       [] n = "n3-net" -> <<20, 29>> [] n = "n4-net" -> <<30, 39>>
       [] n = "edge-n6-net" -> <<40, 49>> [] n = "cloud-n6-net" -> <<50, 59>>
       [] n = "cloud-app-net" -> <<60, 69>> [] n = "monitoring-net" -> <<70, 79>>
       [] n = "control-net" -> <<80, 89>>],
   amf |-> [sbi_ip |-> 1, n2_ip |-> 11], smf |-> [sbi_ip |-> 2, n4_ip |-> 31],
   slices |-> <<[id |-> "embb", snssai |-> "1010203"], [id |-> "urllc", snssai |-> "2020304"]>>,
   sites |-> <<[id |-> "edge", type |-> "edge"], [id |-> "cloud", type |-> "cloud"]>>,
   upfs |-> <<[id |-> "upf1", container |-> "c-upf1", site_id |-> "edge", dnn |-> "mec",
               n3_ip |-> 21, n4_ip |-> 32, n6_ip |-> 41, ue_pool |-> <<100, 109>>],
              [id |-> "upf2", container |-> "c-upf2", site_id |-> "cloud", dnn |-> "internet",
               n3_ip |-> 22, n4_ip |-> 33, n6_ip |-> 51, ue_pool |-> <<110, 119>>]>>,
   gnbs |-> <<[id |-> "gnb1", container |-> "c-gnb1", site_id |-> "edge", cell |-> "cell1",
               n2_ip |-> 12, n3_ip |-> 23]>>,
   ues |-> <<[id |-> "ue1", container |-> "c-ue1", traffic_sidecar |-> "c-side1",
              supi |-> "imsi-1", serving_gnb |-> "gnb1", sessions |-> One],
             [id |-> "ue2", container |-> "c-ue2", traffic_sidecar |-> "c-side2",
              supi |-> "imsi-2", serving_gnb |-> "gnb1", sessions |-> Both]>>,
   services |-> <<[id |-> "app1", container |-> "c-app1", site_id |-> "edge",
                   network |-> "edge-n6-net", ip |-> 42, port |-> 8080, resources |-> 1],
                  [id |-> "app2", container |-> "c-app2", site_id |-> "cloud",
                   network |-> "cloud-app-net", ip |-> 61, port |-> 8080, resources |-> 2]>>,
   links |-> <<[id |-> "backhaul", container |-> "c-link", n6_ip |-> 52, app_side_ip |-> 62]>>,
   flows |-> <<Flow("f1", "ue1", "one", "app1", "udp", 41001, 5202),
               Flow("f2", "ue2", "two", "app2", "http", 41002, 8080)>>,
   mobility |-> <<[ue_id |-> "ue1", target_gnb |-> "gnb1", at_seconds |-> 5]>>,
   containers |-> [c \in {"c-upf1", "c-upf2", "c-gnb1", "c-ue1", "c-ue2", "c-app1", "c-app2"} |->
                     IF c = "c-app1" THEN 1 ELSE 2]]

(* The same with an entry copied and its id not changed.                     *)
Copied ==
  [Base EXCEPT !.ues[2].id = "ue1", !.flows[2].ue_id = "ue1",
               !.containers = RestrictDomain(@, LAMBDA c : c # "c-ue1")]

(* The same with a UPF and its limits called like the metrics collector.     *)
Renamed ==
  [Base EXCEPT !.upfs[1].container = "cadvisor",
               !.containers = [c \in (DOMAIN @ \ {"c-upf1"}) \union {"cadvisor"} |->
                                 IF c = "cadvisor" THEN 2 ELSE @[c]]]

AllFiles == {Base, Copied, Renamed}

SomeVariants ==
  [slices |-> [id |-> {"embb", "urllc"}, snssai |-> {"1010203", "2020304"}],
   sites |-> [id |-> {"edge", "cloud"}, type |-> {"edge", "cloud"}],
   upfs |-> [id |-> {"upf1", "upf2"}, container |-> {"c-upf1"}, site_id |-> {"edge", "cloud"},
             dnn |-> {"mec", "internet"}, n3_ip |-> {23, 24}, n6_ip |-> {43, 51, 53},
             ue_pool |-> {<<60, 69>>, <<110, 119>>, <<120, 129>>}],
   ues |-> [id |-> {"ue1", "ue2"}, supi |-> {"imsi-1"}, serving_gnb |-> {"gnb9"},
            traffic_sidecar |-> {"c-side1", "free5gc-amf"},
            sessions |-> {<<>>, One, Both, Swapped, Shared, Split, Ghost}],
   services |-> [id |-> {"app1", "app2"}, site_id |-> {"edge", "cloud"},
                 network |-> {"edge-n6-net", "cloud-app-net"}, ip |-> {41, 43, 63},
                 port |-> {5201}, resources |-> {1}],
   links |-> [n6_ip |-> {51, 59}],
   flows |-> [id |-> {"f1"}, ue_id |-> {"ue1", "ue2"}, session_id |-> {"one", "two"},
              service_instance_id |-> {"app1", "app2"}, protocol |-> {"tcp", "udp"},
              dst_port |-> {5201, 5202}, src_port |-> {41001}],
   mobility |-> [ue_id |-> {"ue2", "ue3"}, at_seconds |-> {0}]]
===============================================================================

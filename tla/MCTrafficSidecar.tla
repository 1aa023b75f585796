--------------------------- MODULE MCTrafficSidecar ---------------------------
(* TrafficSidecar for TLC: a scenario with one flow of each protocol, and    *)
(* two UEs.                                                                  *)
EXTENDS TrafficSidecar, TLC

CONSTANTS tcp, udp, http, ue1, ue2

OneOfEach == tcp :> "tcp" @@ udp :> "udp" @@ http :> "http"
TwoUes == ue1 :> {udp} @@ ue2 :> {tcp, http}
===============================================================================

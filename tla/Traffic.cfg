\* The sidecar of either UE, a network that loses and duplicates, a signal.
CONSTANTS
  tcp = tcp
  udp = udp
  http = http
  Flows = {tcp, udp, http}
  protocol <- OneOfEach
  ue1 = ue1
  ue2 = ue2
  UEs = {ue1, ue2}
  flowsOf <- TwoUes
  MaxSent = 2
SPECIFICATION FairSpec
INVARIANTS TypeOK EveryPacketIsAccounted PendingWillExpire FlagMeansTraffic CleanExit
PROPERTIES EveryPacketIsResolved StopEndsTheSidecar
CHECK_DEADLOCK FALSE

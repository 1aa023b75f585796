\* One request on a host where nothing fails.
CONSTANTS
  edge = edge
  cloud = cloud
  other = other
  ue1 = ue1
  ue2 = ue2
  Flows = {edge, cloud}
  UEs = {ue1}
  ueOf <- TwoFlowsOfOneUe
  Policies <- TwoPolicies
  DefaultQI = 9
  Requests = {r1}
  Overlapping = FALSE
  Faulty = FALSE
  MaxRequests = 1
  MaxLaunches = 1
  MaxCrashes = 0
SPECIFICATION Spec
PROPERTY WatchdogSeesTheSession
CHECK_DEADLOCK FALSE

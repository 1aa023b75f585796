\* Two requests at once on the two flows of a UE; nothing fails.
CONSTANTS
  edge = edge
  cloud = cloud
  other = other
  ue1 = ue1
  ue2 = ue2
  Flows = {edge, cloud}
  UEs = {ue1}
  ueOf <- TwoFlowsOfOneUe
  Policies <- TwoPolicies
  DefaultQI = 9
  Requests = {r1, r2}
  Overlapping = TRUE
  Faulty = FALSE
  MaxRequests = 2
  MaxLaunches = 1
  MaxCrashes = 0
SPECIFICATION Spec
PROPERTY ReceiptIsTrue
CHECK_DEADLOCK FALSE

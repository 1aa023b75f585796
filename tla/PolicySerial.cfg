\* One request at a time, none beside a launcher; faults and a crash.
CONSTANTS
  edge = edge
  cloud = cloud
  other = other
  ue1 = ue1
  ue2 = ue2
  Flows = {edge, cloud}
  UEs = {ue1}
  ueOf <- TwoFlowsOfOneUe
  Policies <- TwoPolicies
  DefaultQI = 9
  Requests = {r1}
  Overlapping = FALSE
  Faulty = TRUE
  MaxRequests = 3
  MaxLaunches = 2
  MaxCrashes = 1
SPECIFICATION Spec
INVARIANT TypeOK
PROPERTIES ReceiptIsTrue ImplementsFlowPolicies
CHECK_DEADLOCK FALSE

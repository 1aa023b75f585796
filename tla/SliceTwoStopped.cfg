\* One request at a time: two slices of one UE can be stopped, then one started.
CONSTANTS
  embb = embb
  urllc = urllc
  upf_embb = upf_embb
  upf_urllc = upf_urllc
  ue1 = ue1
  Slices = {embb, urllc}
  Upfs = {upf_embb, upf_urllc}
  UEs = {ue1}
  Requests = {r1}
  Sessions <- SharedUeSessions
  InitialPhase <- AllRunning
  Overlapping = FALSE
  MaxRequests = 3
  MaxLaunches = 1
  MaxCrashes = 0
SPECIFICATION Spec
PROPERTY StartNeedsNoOtherSlice
CHECK_DEADLOCK FALSE

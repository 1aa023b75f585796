\* A host where calls fail or not, a crash, and launcher commands that do not
\* run beside a request.
CONSTANTS
  embb = embb
  urllc = urllc
  upf_embb = upf_embb
  upf_urllc = upf_urllc
  ue1 = ue1
  Slices = {embb, urllc}
  Upfs = {upf_embb, upf_urllc}
  UEs = {ue1}
  Requests = {r1, r2}
  Sessions <- SharedUeSessions
  InitialPhase <- EmbbOnly
  Overlapping = FALSE
  MaxRequests = 4
  MaxLaunches = 3
  MaxCrashes = 1
SPECIFICATION FairSpec
INVARIANTS ReconcileRestoresSlices RunningSlicesAreUp
PROPERTIES OnlyInactiveUpfsVanish LocksAreReleased
CHECK_DEADLOCK FALSE

\* Two requests at once, a launcher beside them, faults and a crash.
CONSTANTS
  embb = embb
  urllc = urllc
  upf_embb = upf_embb
  upf_urllc = upf_urllc
  ue1 = ue1
  Slices = {embb, urllc}
  Upfs = {upf_embb, upf_urllc}
  UEs = {ue1}
  Requests = {r1, r2}
  Sessions <- SharedUeSessions
  InitialPhase <- AllRunning
  Overlapping = TRUE
  MaxRequests = 3
  MaxLaunches = 3
  MaxCrashes = 1
SPECIFICATION Spec
INVARIANTS TypeOK OneCatalogWriter UnlockedCatalogIsCurrent
PROPERTY ImplementsSlicePhases
SYMMETRY RequestSymmetry
CHECK_DEADLOCK FALSE

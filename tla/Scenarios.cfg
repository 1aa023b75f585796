\* Every scenario within three edits of three others.
CONSTANTS
  Files <- AllFiles
  Variants <- SomeVariants
  MaxEdits = 3
SPECIFICATION Spec
INVARIANTS AcceptedScenariosRender SlicesHaveTheirUpfs FlowsReachTheirServices
  SessionsAreGranted AddressesAreUnambiguous
CHECK_DEADLOCK FALSE

\* Two requests that may overlap, a death of the builder, faults.
CONSTANTS
  Nodes = {upf1}
  Callers = {c1, c2}
  periodic = periodic
  Window = 1
  MaxAge = 0
  Faulty = TRUE
  MaxTime = 4
  MaxRequests = 2
  MaxKills = 1
SPECIFICATION Spec
INVARIANTS TypeOK SnapshotsAreInOrder AnswersCanBeFound
PROPERTIES AnswerShowsTheEffect FoundStaysFound AcceptedOnRecentEvidence
SYMMETRY CallerSymmetry
CHECK_DEADLOCK FALSE

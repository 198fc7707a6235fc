SPECIFICATION Spec
CONSTANTS
  p1 = p1
  c1 = c1
  c2 = c2
  w1 = w1
  w2 = w2
  Provider = {p1}
  Call = {c1, c2}
  Worker = {w1, w2}
  MaxFailures = 1
CHECK_DEADLOCK FALSE
INVARIANTS VerdictNeedsReview AcknowledgedMeansDone
PROPERTIES WorkerConfirms VerdictLeftOnlyByStaleCalls
SYMMETRY Symmetry

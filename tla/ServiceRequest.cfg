SPECIFICATION Spec
CONSTANTS
  q1 = q1
  q2 = q2
  c1 = c1
  c2 = c2
  Request = {q1, q2}
  Call = {c1, c2}
  MaxCopies = 2
  Price <- MCPrice
  Rating <- MCRating
  MaxAmount = 2
SYMMETRY Symmetry
INVARIANTS ReviewedWorkWasAccepted EventsTellTheTruth ReportMultipliedByReviews
PROPERTIES ImplementsLifecycle LifecycleLeftOnlyByStaleCalls

SPECIFICATION FairSpec
CONSTANTS
  e1 = e1
  e2 = e2
  a1 = a1
  a2 = a2
  w1 = w1
  Event = {e1, e2}
  TypeOf <- MCTypeOf
  Tokens <- MCTokens
  Refused <- MCRefused
  Attempt = {a1, a2}
  Worker = {w1}
  MaxFailures = 1
CHECK_DEADLOCK FALSE
INVARIANTS AcknowledgedMeansNotified NoticeComesFirst OnlyCrossingLoses
PROPERTIES QueuesDrain

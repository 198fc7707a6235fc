SPECIFICATION FairSpec
CONSTANTS
  u1 = u1
  u2 = u2
  q1 = q1
  c1 = c1
  c2 = c2
  User = {u1, u2}
  Request = {q1}
  ContractorOf <- MCContractorOf
  OwnerOf <- MCOwnerOf
  Cleaner = {c1, c2}
  BatchSize = 2
  MaxFailures = 2
INVARIANTS WholeAccounts ReportMatchesDatabase
PROPERTIES ActiveErasedOnlyIfLate  EligibleAccountsGo

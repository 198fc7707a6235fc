SPECIFICATION FairSpec
CONSTANTS
  p1 = p1
  p2 = p2
  j1 = j1
  r1 = r1
  r2 = r2
  r3 = r3
  Pod = {p1, p2}
  Job = {j1}
  Run = {r1, r2}
  PodOf <- MCPodOf
  JobOf <- MCJobOf
  TtlMs <- MCTtlMs
  MsPerSecond = 2
  MaxBegun = 2
  FaultKinds = {"set", "del", "crash", "overrun"}
INVARIANTS MutualExclusion KeyOutlivesRun MetricsMatchRuns
PROPERTIES OrphanedKeyExpires ImplementsMutex

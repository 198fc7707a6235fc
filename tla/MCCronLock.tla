----------------------------- MODULE MCCronLock -----------------------------
(***************************************************************************)
(* CronLock for TLC: one job and two pods.  r1 and r2 are on different     *)
(* pods; r3, used where three executions must overlap, shares the pod of   *)
(* r1, whose schedule fires again while r1 is still executing.             *)
(***************************************************************************)
EXTENDS CronLock

CONSTANTS p1, p2, j1, r1, r2, r3

MCPodOf == [r \in Run |-> IF r = r2 THEN p2 ELSE p1]
MCJobOf == [r \in Run |-> j1]

\* Not a whole number of (two-millisecond) seconds, so that rounding shows.
MCTtlMs == [j \in Job |-> 3]
=============================================================================

------------------------------ MODULE CronLock ------------------------------
(***************************************************************************)
(* The distributed lock of the cron service (CronLockService) and the four *)
(* job classes that use it.  Every pod runs the same schedule; a run asks  *)
(* Redis for the key of its job with SET NX EX, skips when the key is      *)
(* taken, runs WITHOUT the lock when Redis fails, and deletes the key when *)
(* it ends.  The key carries no owner.  JobsController starts the same     *)
(* services over HTTP and never asks for the key.                          *)
(*                                                                         *)
(* Time is counted in milliseconds of a scaled clock on which a second has *)
(* MsPerSecond of them.  An execution is a "run": a slot in which one pod  *)
(* executes one job, used again and again.                                 *)
(***************************************************************************)
EXTENDS Naturals, FiniteSets

CONSTANTS Pod,         \* the replicas of the cron service
          Job,         \* the cron jobs: one Redis key each
          Run,         \* the slots for executions in progress
          PodOf,       \* PodOf[r]: the pod on which r executes
          JobOf,       \* JobOf[r]: the job that r executes
          TtlMs,       \* TtlMs[j]: the JOB_TTL_MS of job j
          MsPerSecond, \* 1000 in the code, scaled down for TLC
          MaxBegun,    \* bound: executions a pod begins of one job
          FaultKinds   \* which misfortunes a behaviour may be exposed to

AllFaults == {"set", "del", "crash", "overrun"}

ASSUME ConstantsOK ==
    /\ IsFiniteSet(Run)
    /\ PodOf \in [Run -> Pod]
    /\ JobOf \in [Run -> Job]
    /\ TtlMs \in [Job -> Nat \ {0}]
    /\ MsPerSecond \in Nat \ {0}
    /\ MaxBegun \in Nat \ {0}
    /\ FaultKinds \subseteq AllFaults

VARIABLES
    key,      \* key[j]: remaining life of cron:lock:<j> in Redis, 0 when absent
    phase,    \* phase[r]: where run() of slot r stands
    age,      \* age[r]: time since r went past acquire()
    metrics,  \* metrics[p][j]: cron_job_runs_total of pod p, by status
    begun,    \* history: executions of j that pod p began since it booted
    faults    \* the misfortunes of this behaviour, chosen once

vars == <<key, phase, age, metrics, begun, faults>>

Phase == {"idle", "acquiring", "running", "releasing", "manual"}
Status == {"success", "failed"}
NoMetrics == [s \in Status |-> 0]

-----------------------------------------------------------------------------
(* ttlSeconds = Math.ceil(ttlMs / 1000), back in milliseconds.             *)
CeilSeconds(ms) == (ms + MsPerSecond - 1) \div MsPerSecond
FloorSeconds(ms) == ms \div MsPerSecond

KeyLifetimeFloor(j) == FloorSeconds(TtlMs[j]) * MsPerSecond
KeyLifetime(j) == CeilSeconds(TtlMs[j]) * MsPerSecond

\* The scheduled runs between acquire() and the end of release().
Guarded(r) == phase[r] \in {"running", "releasing"}
GuardedRuns(j) == {r \in Run : JobOf[r] = j /\ Guarded(r)}

\* The executions of j that pod p has not counted yet.
RunningOn(p, j) == {r \in Run : PodOf[r] = p /\ JobOf[r] = j /\ phase[r] = "running"}

Init ==
    /\ key = [j \in Job |-> 0]
    /\ phase = [r \in Run |-> "idle"]
    /\ age = [r \in Run |-> 0]
    /\ metrics = [p \in Pod |-> [j \in Job |-> NoMetrics]]
    /\ begun = [p \in Pod |-> [j \in Job |-> 0]]
    /\ faults \in SUBSET FaultKinds

-----------------------------------------------------------------------------
(* The job class: run() called by @Cron.                                   *)

\* The runs of p that await the lock of j.
Waiting(p, j) == {r \in Run : PodOf[r] = p /\ JobOf[r] = j /\ phase[r] = "acquiring"}

\* The schedule fires and run() awaits lock.acquire(JOB_NAME, JOB_TTL_MS).
Trigger(r) ==
    /\ phase[r] = "idle"
    /\ begun[PodOf[r]][JobOf[r]] + Cardinality(Waiting(PodOf[r], JobOf[r])) < MaxBegun
    /\ phase' = [phase EXCEPT ![r] = "acquiring"]
    /\ UNCHANGED <<key, age, metrics, begun, faults>>

\* acquire() returned true: the service's run() begins.
Enter(r) ==
    /\ phase' = [phase EXCEPT ![r] = "running"]
    /\ age' = [age EXCEPT ![r] = 0]
    /\ begun' = [begun EXCEPT ![PodOf[r]][JobOf[r]] = @ + 1]
    /\ UNCHANGED <<metrics, faults>>

\* A mutated SET without NX.
SetOkNoNx(r) ==
    /\ phase[r] = "acquiring"
    /\ key' = [key EXCEPT ![JobOf[r]] = KeyLifetime(JobOf[r])]
    /\ Enter(r)

\* SET NX EX answers 'OK'.
SetOk(r) ==
    /\ phase[r] = "acquiring"
    /\ key[JobOf[r]] = 0
    /\ key' = [key EXCEPT ![JobOf[r]] = KeyLifetime(JobOf[r])]
    /\ Enter(r)

\* A mutated wrapper whose finally also covers the early return: the run that
\* was turned away deletes the key of the run that holds it.
SetBusyDeletes(r) ==
    /\ phase[r] = "acquiring"
    /\ key[JobOf[r]] > 0
    /\ key' = [key EXCEPT ![JobOf[r]] = 0]
    /\ phase' = [phase EXCEPT ![r] = "idle"]
    /\ UNCHANGED <<age, metrics, begun, faults>>

\* A mutated acquire that renews the key of whoever holds it.
SetBusyRenews(r) ==
    /\ phase[r] = "acquiring"
    /\ key[JobOf[r]] > 0
    /\ key' = [key EXCEPT ![JobOf[r]] = KeyLifetime(JobOf[r])]
    /\ phase' = [phase EXCEPT ![r] = "idle"]
    /\ UNCHANGED <<age, metrics, begun, faults>>

\* SET NX answers null: "Lock busy - skipping job".
SetBusy(r) ==
    /\ phase[r] = "acquiring"
    /\ key[JobOf[r]] > 0
    /\ phase' = [phase EXCEPT ![r] = "idle"]
    /\ UNCHANGED <<key, age, metrics, begun, faults>>

\* The SET call throws: acquire() returns true all the same.  Redis may have
\* executed the command before the connection broke.
SetFails(r) ==
    /\ "set" \in faults
    /\ phase[r] = "acquiring"
    /\ \/ UNCHANGED key
       \/ /\ key[JobOf[r]] = 0
          /\ key' = [key EXCEPT ![JobOf[r]] = KeyLifetime(JobOf[r])]
    /\ Enter(r)

\* A mutated catch block that forgets to record the failure.
RunEndsUnrecorded(r, status) ==
    /\ phase[r] = "running"
    /\ phase' = [phase EXCEPT ![r] = "releasing"]
    /\ metrics' = [metrics EXCEPT ![PodOf[r]][JobOf[r]]["success"] =
                      IF status = "success" THEN @ + 1 ELSE @]
    /\ UNCHANGED <<key, age, begun, faults>>

\* service.run() resolves or throws; the outcome is recorded once and the
\* finally block awaits lock.release(JOB_NAME).
RunEnds(r, status) ==
    /\ phase[r] = "running"
    /\ phase' = [phase EXCEPT ![r] = "releasing"]
    /\ metrics' = [metrics EXCEPT ![PodOf[r]][JobOf[r]][status] = @ + 1]
    /\ UNCHANGED <<key, age, begun, faults>>

Leave(r) ==
    /\ phase' = [phase EXCEPT ![r] = "idle"]
    /\ age' = [age EXCEPT ![r] = 0]
    /\ UNCHANGED <<metrics, begun, faults>>

\* DEL deletes the key whoever set it.
Release(r) ==
    /\ phase[r] = "releasing"
    /\ key' = [key EXCEPT ![JobOf[r]] = 0]
    /\ Leave(r)

\* DEL throws and the error is swallowed: the key stays until it expires.
ReleaseFails(r) ==
    /\ "del" \in faults
    /\ phase[r] = "releasing"
    /\ UNCHANGED key
    /\ Leave(r)

-----------------------------------------------------------------------------
(* JobsController: POST jobs/<job>/run calls the service directly.         *)

ManualStart(r) ==
    /\ phase[r] = "idle"
    /\ phase' = [phase EXCEPT ![r] = "manual"]
    /\ UNCHANGED <<key, age, metrics, begun, faults>>

ManualEnd(r) ==
    /\ phase[r] = "manual"
    /\ phase' = [phase EXCEPT ![r] = "idle"]
    /\ UNCHANGED <<key, age, metrics, begun, faults>>

-----------------------------------------------------------------------------
(* The environment.                                                        *)

\* A pod dies and is started again: its runs and its in-memory counters are
\* gone, its keys stay in Redis.
Crash(p) ==
    /\ "crash" \in faults
    /\ phase' = [r \in Run |-> IF PodOf[r] = p THEN "idle" ELSE phase[r]]
    /\ age' = [r \in Run |-> IF PodOf[r] = p THEN 0 ELSE age[r]]
    /\ metrics' = [metrics EXCEPT ![p] = [j \in Job |-> NoMetrics]]
    /\ begun' = [begun EXCEPT ![p] = [j \in Job |-> 0]]
    /\ UNCHANGED <<key, faults>>

\* One tick from now r has still not been executing for JOB_TTL_MS.
StaysWithinTtl(r) == age[r] + 1 < TtlMs[JobOf[r]]

\* A millisecond passes.  Unless the behaviour allows overruns, JOB_TTL_MS is
\* what its comment says, the longest an execution takes.
Tick ==
    /\ "overrun" \in faults \/ \A r \in Run : Guarded(r) => StaysWithinTtl(r)
    /\ key' = [j \in Job |-> IF key[j] > 0 THEN key[j] - 1 ELSE 0]
    /\ age' = [r \in Run |-> IF Guarded(r) /\ age[r] < KeyLifetime(JobOf[r])
                             THEN age[r] + 1 ELSE age[r]]
    /\ UNCHANGED <<phase, metrics, begun, faults>>

Step(r) ==
    \/ Trigger(r) \/ SetOk(r) \/ SetBusy(r) \/ SetFails(r)
    \/ \E status \in Status : RunEnds(r, status)
    \/ Release(r) \/ ReleaseFails(r)
    \/ ManualStart(r) \/ ManualEnd(r)

Next ==
    \/ \E r \in Run : Step(r)
    \/ \E p \in Pod : Crash(p)
    \/ Tick

Spec == Init /\ [][Next]_vars

\* Time passes, and what a pod has begun it carries on with: an awaited call
\* settles.  Nothing obliges the schedule, the HTTP caller or a fault.
Settles(r) ==
    \/ SetOk(r) \/ SetBusy(r) \/ SetFails(r)
    \/ \E status \in Status : RunEnds(r, status)
    \/ Release(r) \/ ReleaseFails(r)

Fairness == WF_vars(Tick) /\ \A r \in Run : WF_vars(Settles(r))

FairSpec == Spec /\ Fairness

-----------------------------------------------------------------------------
(* Properties.                                                             *)

TypeOK ==
    /\ key \in [Job -> Nat]
    /\ phase \in [Run -> Phase]
    /\ age \in [Run -> Nat]
    /\ metrics \in [Pod -> [Job -> [Status -> Nat]]]
    /\ begun \in [Pod -> [Job -> Nat]]
    /\ faults \in SUBSET FaultKinds

\* The lock makes its promise when Redis answers every SET and no execution
\* outlives its TTL; lost DELs and crashes do not matter.
LockDependable == faults \cap {"set", "overrun"} = {}

\* Mutual exclusion: no two scheduled runs of one job execute at once, on one
\* pod or on two, whatever crashes and however many DELs are lost.
MutualExclusion ==
    LockDependable =>
        \A r, s \in Run :
            Guarded(r) /\ Guarded(s) /\ JobOf[r] = JobOf[s] => r = s

\* No early expiry and no foreign DEL: the key of a job stays in Redis for as
\* long as a scheduled run of that job executes, so every run that starts
\* meanwhile is turned away.
KeyOutlivesRun ==
    LockDependable => \A r \in Run : Guarded(r) => key[JobOf[r]] > 0

\* acquire() returns false only "se outro pod ja esta executando": without
\* misfortunes a key in Redis is the key of an execution in progress.
BusyMeansRunning ==
    faults = {} => \A j \in Job : key[j] > 0 => GuardedRuns(j) # {}

\* The counters tell the truth: every execution a pod began since it booted
\* has been counted exactly once, as a success or as a failure, or has not
\* ended yet.  Skipped and manual runs are not counted.
MetricsMatchRuns ==
    \A p \in Pod, j \in Job :
        begun[p][j] = metrics[p][j]["success"] + metrics[p][j]["failed"]
            + Cardinality(RunningOn(p, j))

\* No eternal lock: a key left behind by a dead pod or a lost DEL disappears,
\* although every pod keeps asking for it.
OrphanedKeyExpires ==
    \A j \in Job : (key[j] > 0 /\ GuardedRuns(j) = {}) ~> (key[j] = 0)

\* The mutual exclusion the lock implements; it promises nothing to behaviours
\* in which it is not dependable.
Mutex == INSTANCE JobMutex
    WITH executing <- [j \in Job |-> IF LockDependable THEN GuardedRuns(j) ELSE {}]

\* The lock implements the abstract mutual exclusion of JobMutex, step by step.
ImplementsMutex == Mutex!Spec

\* What acquire() says it returns: never true while another run of the job
\* that holds an unexpired lease is executing.  Not so in the code: DEL has no
\* owner, so a run that outlived its TTL deletes the key of its successor.
LeaseIsRespected ==
    \A r, s \in Run :
        /\ Guarded(r) /\ age[r] < KeyLifetime(JobOf[r])
        /\ Guarded(s) /\ age[s] < KeyLifetime(JobOf[s])
        /\ JobOf[r] = JobOf[s]
        => r = s
=============================================================================

--------------------------- MODULE CronLockProofs ---------------------------
(***************************************************************************)
(* Theorems of CronLock, for any number of pods, jobs, slots and any TTLs. *)
(***************************************************************************)
EXTENDS CronLock, FiniteSetTheorems, TLAPS

(***************************************************************************)
(* Math.ceil never shortens a TTL: the key lives at least TtlMs[j].        *)
(***************************************************************************)
LEMMA KeyLifetimeCoversTtl ==
    ASSUME NEW j \in Job
    PROVE  KeyLifetime(j) \in Nat /\ KeyLifetime(j) >= TtlMs[j] /\ KeyLifetime(j) > 0
  <1> DEFINE x == TtlMs[j] + MsPerSecond - 1
             q == CeilSeconds(TtlMs[j])
  <1>1. TtlMs[j] \in Nat \ {0} /\ MsPerSecond \in Nat \ {0}
    BY ConstantsOK
  <1>2. x \in Nat
    BY <1>1
  <1>3. q \in Nat /\ x < q * MsPerSecond + MsPerSecond
    <2>1. ASSUME NEW a \in Nat, NEW b \in Nat \ {0}
          PROVE  (a \div b) \in Nat /\ a < (a \div b) * b + b
      OBVIOUS
    <2>2. QED
      BY <1>1, <1>2, <2>1 DEF CeilSeconds
  <1>4. q * MsPerSecond \in Nat
    BY <1>1, <1>3
  <1>5. KeyLifetime(j) = q * MsPerSecond
    BY DEF KeyLifetime
  <1> HIDE DEF q
  <1>6. QED
    BY <1>1, <1>3, <1>4, <1>5

-----------------------------------------------------------------------------
(* Types.                                                                  *)

LEMMA InitTypeOK == Init => TypeOK
  BY ConstantsOK DEF Init, TypeOK, Phase, NoMetrics

LEMMA StepTypeOK ==
    ASSUME TypeOK, NEW r \in Run, Step(r)
    PROVE  TypeOK'
  <1> USE ConstantsOK DEF TypeOK, Phase
  <1>0. PodOf[r] \in Pod /\ JobOf[r] \in Job
    OBVIOUS
  <1>1. CASE Trigger(r)
    BY <1>1 DEF Trigger
  <1>2. ASSUME Enter(r), key' \in [Job -> Nat] PROVE TypeOK'
    BY <1>2, <1>0 DEF Enter
  <1>3. CASE SetOk(r)
    BY <1>2, <1>3, <1>0, KeyLifetimeCoversTtl DEF SetOk
  <1>4. CASE SetBusy(r)
    BY <1>4 DEF SetBusy
  <1>5. CASE SetFails(r)
    BY <1>2, <1>5, <1>0, KeyLifetimeCoversTtl DEF SetFails
  <1>6. ASSUME NEW status \in Status, RunEnds(r, status) PROVE TypeOK'
    <2>1. metrics[PodOf[r]][JobOf[r]][status] + 1 \in Nat
      BY <1>0
    <2>2. metrics' \in [Pod -> [Job -> [Status -> Nat]]]
      BY <1>6, <1>0, <2>1 DEF RunEnds
    <2>3. QED
      BY <1>6, <2>2 DEF RunEnds
  <1>7. CASE Release(r)
    BY <1>7 DEF Release, Leave
  <1>8. CASE ReleaseFails(r)
    BY <1>8 DEF ReleaseFails, Leave
  <1>9. CASE ManualStart(r) \/ ManualEnd(r)
    BY <1>9 DEF ManualStart, ManualEnd
  <1>10. QED
    BY <1>1, <1>3, <1>4, <1>5, <1>6, <1>7, <1>8, <1>9 DEF Step

LEMMA CrashTypeOK ==
    ASSUME TypeOK, NEW p \in Pod, Crash(p)
    PROVE  TypeOK'
  BY DEF TypeOK, Crash, Phase, NoMetrics

LEMMA TickTypeOK ==
    ASSUME TypeOK, Tick
    PROVE  TypeOK'
  <1>1. \A j \in Job : (IF key[j] > 0 THEN key[j] - 1 ELSE 0) \in Nat
    BY DEF TypeOK
  <1>2. QED
    BY <1>1 DEF TypeOK, Tick, Phase

(***************************************************************************)
(* Every variable keeps its type: a key's remaining life and the counters  *)
(* never go below zero, and a run is always in a phase of run().           *)
(***************************************************************************)
THEOREM TypeCorrect == Spec => []TypeOK
  <1>1. TypeOK /\ [Next]_vars => TypeOK'
    <2>1. CASE UNCHANGED vars
      BY <2>1 DEF TypeOK, vars
    <2>2. QED
      BY <2>1, StepTypeOK, CrashTypeOK, TickTypeOK DEF Next
  <1>2. QED
    BY <1>1, InitTypeOK, PTL DEF Spec

-----------------------------------------------------------------------------
(***************************************************************************)
(* The inductive invariant.  MutualExclusion says nothing about the key,   *)
(* and KeyOutlivesRun nothing about time: what a step preserves is that    *)
(* the remaining life of the key and the age of the run that set it always *)
(* add up to the life the key was given.                                   *)
(***************************************************************************)
LeaseMatchesKey ==
    LockDependable =>
        \A r \in Run : Guarded(r) =>
            /\ age[r] < KeyLifetime(JobOf[r])
            /\ key[JobOf[r]] + age[r] = KeyLifetime(JobOf[r])

LockInv == TypeOK /\ MutualExclusion /\ LeaseMatchesKey

LEMMA InitLockInv == Init => LockInv
  BY InitTypeOK, SMTT(30) DEF Init, LockInv, MutualExclusion, LeaseMatchesKey, Guarded

LEMMA FaultsFixed == [Next]_vars => faults' = faults
  BY DEF Next, vars, Step, Trigger, SetOk, SetBusy, SetFails, Enter, RunEnds, Release,
         ReleaseFails, Leave, ManualStart, ManualEnd, Crash, Tick

(***************************************************************************)
(* The steps by which no run becomes guarded and no clock moves: they can  *)
(* only shrink what the invariant speaks of.                               *)
(***************************************************************************)
LEMMA QuietStep ==
    ASSUME LockInv, TypeOK', faults' = faults,
           \A r \in Run : Guarded(r)' => Guarded(r) /\ age'[r] = age[r]
                                         /\ key'[JobOf[r]] = key[JobOf[r]]
    PROVE  LockInv'
  <1>1. MutualExclusion'
    BY DEF LockInv, MutualExclusion, LockDependable
  <1>2. LeaseMatchesKey'
    BY DEF LockInv, LeaseMatchesKey, LockDependable, KeyLifetime, CeilSeconds
  <1>3. QED
    BY <1>1, <1>2 DEF LockInv

LEMMA SetOkKeepsLockInv ==
    ASSUME LockInv, TypeOK', NEW r \in Run, SetOk(r)
    PROVE  LockInv'
  <1>0. TypeOK /\ ConstantsOK /\ faults' = faults /\ JobOf[r] \in Job
    BY ConstantsOK DEF LockInv, SetOk, Enter
  <1>1. SUFFICES ASSUME LockDependable PROVE MutualExclusion' /\ LeaseMatchesKey'
    BY <1>0 DEF LockInv, MutualExclusion, LeaseMatchesKey, LockDependable
  <1>2. \A s \in Run : Guarded(s) => JobOf[s] # JobOf[r]
    <2>1. SUFFICES ASSUME NEW s \in Run, Guarded(s), JobOf[s] = JobOf[r] PROVE FALSE
      OBVIOUS
    <2>2. age[s] < KeyLifetime(JobOf[s]) /\ key[JobOf[s]] + age[s] = KeyLifetime(JobOf[s])
      BY <1>1, <2>1 DEF LockInv, LeaseMatchesKey
    <2>3. key[JobOf[r]] = 0 /\ age[s] \in Nat
      BY <1>0 DEF SetOk, TypeOK
    <2>4. QED
      BY <2>1, <2>2, <2>3
  <1>3. \A s \in Run : Guarded(s)' <=> (s = r \/ Guarded(s))
    BY <1>0 DEF SetOk, Enter, Guarded, TypeOK
  <1>4. MutualExclusion'
    BY <1>1, <1>2, <1>3 DEF LockInv, MutualExclusion
  <1>5. ASSUME NEW s \in Run, Guarded(s)'
        PROVE  age'[s] < KeyLifetime(JobOf[s]) /\ key'[JobOf[s]] + age'[s] = KeyLifetime(JobOf[s])
    <2>1. CASE s = r
      BY <1>0, <2>1, KeyLifetimeCoversTtl DEF SetOk, Enter, TypeOK
    <2>2. CASE s # r
      <3>1. Guarded(s) /\ JobOf[s] # JobOf[r]
        BY <1>2, <1>3, <1>5, <2>2
      <3>2. age'[s] = age[s] /\ key'[JobOf[s]] = key[JobOf[s]]
        BY <1>0, <2>2, <3>1, ConstantsOK DEF SetOk, Enter, TypeOK
      <3>3. QED
        BY <1>1, <3>1, <3>2 DEF LockInv, LeaseMatchesKey
    <2>3. QED
      BY <2>1, <2>2
  <1>6. LeaseMatchesKey'
    BY <1>5 DEF LeaseMatchesKey, KeyLifetime, CeilSeconds
  <1>7. QED
    BY <1>4, <1>6

LEMMA ReleaseKeepsLockInv ==
    ASSUME LockInv, TypeOK', NEW r \in Run, Release(r)
    PROVE  LockInv'
  <1>0. TypeOK /\ faults' = faults /\ JobOf[r] \in Job
    BY ConstantsOK DEF LockInv, Release, Leave
  <1>1. SUFFICES ASSUME LockDependable PROVE MutualExclusion' /\ LeaseMatchesKey'
    BY <1>0 DEF LockInv, MutualExclusion, LeaseMatchesKey, LockDependable
  <1>2. ASSUME NEW s \in Run, Guarded(s)'
        PROVE  Guarded(s) /\ age'[s] = age[s] /\ key'[JobOf[s]] = key[JobOf[s]]
    <2>1. s # r /\ Guarded(s) /\ Guarded(r)
      BY <1>0, <1>2 DEF Release, Leave, Guarded, TypeOK
    <2>2. JobOf[s] # JobOf[r]
      BY <1>1, <2>1 DEF LockInv, MutualExclusion
    <2>3. QED
      BY <1>0, <2>1, <2>2, ConstantsOK DEF Release, Leave, TypeOK
  <1>3. LockInv'
    BY <1>0, <1>2, QuietStep
  <1>4. QED
    BY <1>3 DEF LockInv

LEMMA TickKeepsLockInv ==
    ASSUME LockInv, TypeOK', Tick
    PROVE  LockInv'
  <1>0. TypeOK /\ faults' = faults /\ phase' = phase
    BY DEF LockInv, Tick
  <1>1. SUFFICES ASSUME LockDependable PROVE MutualExclusion' /\ LeaseMatchesKey'
    BY <1>0 DEF LockInv, MutualExclusion, LeaseMatchesKey, LockDependable
  <1>2. MutualExclusion'
    BY <1>0, <1>1 DEF LockInv, MutualExclusion, Guarded, LockDependable
  <1>3. ASSUME NEW r \in Run, Guarded(r)'
        PROVE  age'[r] < KeyLifetime(JobOf[r]) /\ key'[JobOf[r]] + age'[r] = KeyLifetime(JobOf[r])
    <2>1. Guarded(r) /\ JobOf[r] \in Job
      BY <1>0, <1>3, ConstantsOK DEF Guarded
    <2>2. age[r] + 1 < TtlMs[JobOf[r]] /\ TtlMs[JobOf[r]] \in Nat
      BY <1>1, <2>1, ConstantsOK DEF Tick, LockDependable, StaysWithinTtl
    <2>3. age[r] < KeyLifetime(JobOf[r]) /\ key[JobOf[r]] + age[r] = KeyLifetime(JobOf[r])
      BY <1>1, <2>1 DEF LockInv, LeaseMatchesKey
    <2>4. /\ age[r] \in Nat /\ key[JobOf[r]] \in Nat /\ KeyLifetime(JobOf[r]) \in Nat
          /\ KeyLifetime(JobOf[r]) >= TtlMs[JobOf[r]]
      BY <1>0, <2>1, KeyLifetimeCoversTtl DEF TypeOK
    <2>5. age'[r] = age[r] + 1
      BY <2>1, <2>3 DEF Tick
    <2>6. key'[JobOf[r]] = key[JobOf[r]] - 1
      BY <2>1, <2>3, <2>4 DEF Tick
    <2>7. QED
      BY <2>2, <2>3, <2>4, <2>5, <2>6
  <1>4. LeaseMatchesKey'
    BY <1>3 DEF LeaseMatchesKey, KeyLifetime, CeilSeconds
  <1>5. QED
    BY <1>2, <1>4

LEMMA NextLockInv == LockInv /\ [Next]_vars => LockInv'
  <1> SUFFICES ASSUME LockInv, [Next]_vars PROVE LockInv'
    OBVIOUS
  <1>0. faults' = faults /\ TypeOK
    BY FaultsFixed DEF LockInv
  <1>1. CASE UNCHANGED vars
    BY <1>1, QuietStep DEF vars, LockInv, TypeOK, Guarded
  <1>2. ASSUME NEW r \in Run, Step(r) PROVE LockInv'
    <2>1. TypeOK'
      BY <1>0, <1>2, StepTypeOK
    <2>2. CASE SetOk(r)
      BY <2>1, <2>2, SetOkKeepsLockInv
    <2>3. CASE SetFails(r)
      <3>1. ~LockDependable'
        BY <1>0, <2>3 DEF SetFails, LockDependable
      <3>2. QED
        BY <2>1, <3>1 DEF LockInv, MutualExclusion, LeaseMatchesKey
    <2>4. CASE Release(r)
      BY <2>1, <2>4, ReleaseKeepsLockInv
    <2>5. CASE Trigger(r)
      BY <1>0, <2>1, <2>5, QuietStep DEF Trigger, Guarded, TypeOK
    <2>6. CASE SetBusy(r)
      BY <1>0, <2>1, <2>6, QuietStep DEF SetBusy, Guarded, TypeOK
    <2>7. ASSUME NEW status \in Status, RunEnds(r, status) PROVE LockInv'
      BY <1>0, <2>1, <2>7, QuietStep DEF RunEnds, Guarded, TypeOK
    <2>8. CASE ReleaseFails(r)
      BY <1>0, <2>1, <2>8, QuietStep DEF ReleaseFails, Leave, Guarded, TypeOK
    <2>9. CASE ManualStart(r) \/ ManualEnd(r)
      BY <1>0, <2>1, <2>9, QuietStep DEF ManualStart, ManualEnd, Guarded, TypeOK
    <2>10. QED
      BY <1>2, <2>2, <2>3, <2>4, <2>5, <2>6, <2>7, <2>8, <2>9 DEF Step
  <1>3. ASSUME NEW p \in Pod, Crash(p) PROVE LockInv'
    BY <1>0, <1>3, CrashTypeOK, QuietStep DEF Crash, Guarded, TypeOK
  <1>4. CASE Tick
    BY <1>0, <1>4, TickTypeOK, TickKeepsLockInv
  <1>5. QED
    BY <1>1, <1>2, <1>3, <1>4 DEF Next

LEMMA LockInvHolds == Spec => []LockInv
  BY InitLockInv, NextLockInv, PTL DEF Spec

(***************************************************************************)
(* Mutual exclusion, for any number of pods, jobs and overlapping          *)
(* triggers: while Redis answers every SET and no execution outlives its   *)
(* TTL, two scheduled runs of a job never execute at once, whatever        *)
(* crashes and however many DELs are lost.                                 *)
(***************************************************************************)
THEOREM MutualExclusionHolds == Spec => []MutualExclusion
  <1>1. LockInv => MutualExclusion
    BY DEF LockInv
  <1>2. QED
    BY <1>1, LockInvHolds, PTL

(***************************************************************************)
(* Under the same assumptions no run loses its key before it ends, by      *)
(* expiry or by the owner-less DEL of another.                             *)
(***************************************************************************)
THEOREM KeyOutlivesRunHolds == Spec => []KeyOutlivesRun
  <1>1. LockInv => KeyOutlivesRun
    <2>1. SUFFICES ASSUME LockInv, LockDependable, NEW r \in Run, Guarded(r)
                   PROVE  key[JobOf[r]] > 0
      BY DEF KeyOutlivesRun
    <2>2. age[r] < KeyLifetime(JobOf[r]) /\ key[JobOf[r]] + age[r] = KeyLifetime(JobOf[r])
      BY <2>1 DEF LockInv, LeaseMatchesKey
    <2>3. age[r] \in Nat /\ key[JobOf[r]] \in Nat
      BY <2>1, ConstantsOK DEF LockInv, TypeOK
    <2>4. QED
      BY <2>2, <2>3
  <1>2. QED
    BY <1>1, LockInvHolds, PTL

-----------------------------------------------------------------------------
(* The lock implements JobMutex.                                           *)

InCriticalSection == [j \in Job |-> IF LockDependable THEN GuardedRuns(j) ELSE {}]

LEMMA LeavingStep ==
    ASSUME faults' = faults, \A r \in Run : Guarded(r)' => Guarded(r)
    PROVE  \E S \in SUBSET Run : Mutex!Leave(S)
  <1> DEFINE S == {r \in Run : ~Guarded(r)'}
  <1>1. \A j \in Job : InCriticalSection'[j] = InCriticalSection[j] \ S
    BY DEF InCriticalSection, LockDependable, GuardedRuns
  <1>2. InCriticalSection' = [j \in Job |-> InCriticalSection[j] \ S]
    BY <1>1 DEF InCriticalSection
  <1>3. S \in SUBSET Run
    OBVIOUS
  <1>4. Mutex!Leave(S)
    BY <1>2 DEF Mutex!Leave, InCriticalSection
  <1>5. QED
    BY <1>3, <1>4

LEMMA SetOkEnters ==
    ASSUME LockInv, NEW r \in Run, SetOk(r)
    PROVE  [Mutex!Next]_InCriticalSection
  <1>0. TypeOK /\ faults' = faults /\ JobOf[r] \in Job
    BY ConstantsOK DEF LockInv, SetOk, Enter
  <1>1. CASE ~LockDependable
    BY <1>0, <1>1 DEF InCriticalSection, LockDependable
  <1>2. CASE LockDependable
    <2>1. \A s \in Run : Guarded(s)' <=> (s = r \/ Guarded(s))
      BY <1>0 DEF SetOk, Enter, Guarded, TypeOK
    <2>2. \A s \in Run : Guarded(s) => JobOf[s] # JobOf[r]
      <3>1. SUFFICES ASSUME NEW s \in Run, Guarded(s), JobOf[s] = JobOf[r] PROVE FALSE
        OBVIOUS
      <3>2. age[s] < KeyLifetime(JobOf[s]) /\ key[JobOf[s]] + age[s] = KeyLifetime(JobOf[s])
        BY <1>2, <3>1 DEF LockInv, LeaseMatchesKey
      <3>3. key[JobOf[r]] = 0 /\ age[s] \in Nat
        BY <1>0 DEF SetOk, TypeOK
      <3>4. QED
        BY <3>1, <3>2, <3>3
    <2>3. InCriticalSection[JobOf[r]] = {}
      BY <1>0, <2>2 DEF InCriticalSection, GuardedRuns
    <2>4. LockDependable'
      BY <1>0, <1>2 DEF LockDependable
    <2>5. InCriticalSection' = [InCriticalSection EXCEPT ![JobOf[r]] = {r}]
      <3>1. ASSUME NEW j \in Job
            PROVE  InCriticalSection'[j] = IF j = JobOf[r] THEN {r} ELSE InCriticalSection[j]
        <4>1. InCriticalSection'[j] = {s \in Run : JobOf[s] = j /\ Guarded(s)'}
          BY <2>4 DEF InCriticalSection, GuardedRuns
        <4>2. InCriticalSection[j] = {s \in Run : JobOf[s] = j /\ Guarded(s)}
          BY <1>2 DEF InCriticalSection, GuardedRuns
        <4>3. QED
          BY <2>1, <2>2, <4>1, <4>2
      <3>2. InCriticalSection' = [j \in Job |-> InCriticalSection'[j]]
        BY DEF InCriticalSection
      <3>3. InCriticalSection = [j \in Job |-> InCriticalSection[j]]
        BY DEF InCriticalSection
      <3>4. QED
        BY <3>1, <3>2, <3>3
    <2>6. Mutex!Enter(JobOf[r], r)
      BY <2>3, <2>5 DEF Mutex!Enter, InCriticalSection
    <2>7. QED
      BY <1>0, <2>6 DEF Mutex!Next
  <1>3. QED
    BY <1>1, <1>2

LEMMA NextImplementsMutex == LockInv /\ [Next]_vars => [Mutex!Next]_InCriticalSection
  <1> SUFFICES ASSUME LockInv, [Next]_vars PROVE [Mutex!Next]_InCriticalSection
    OBVIOUS
  <1>0. faults' = faults /\ TypeOK
    BY FaultsFixed DEF LockInv
  <1>1. (\A r \in Run : Guarded(r)' => Guarded(r)) => [Mutex!Next]_InCriticalSection
    BY <1>0, LeavingStep DEF Mutex!Next
  <1>2. CASE UNCHANGED vars \/ Tick
    BY <1>1, <1>2 DEF vars, Tick, Guarded
  <1>3. ASSUME NEW r \in Run, Step(r) PROVE [Mutex!Next]_InCriticalSection
    <2>1. CASE SetOk(r)
      BY <2>1, SetOkEnters
    <2>2. CASE SetFails(r)
      BY <1>0, <2>2 DEF SetFails, InCriticalSection, LockDependable
    <2>3. CASE Trigger(r) \/ SetBusy(r) \/ ManualStart(r) \/ ManualEnd(r)
      BY <1>0, <1>1, <2>3 DEF Trigger, SetBusy, ManualStart, ManualEnd, Guarded, TypeOK
    <2>4. ASSUME NEW status \in Status, RunEnds(r, status)
          PROVE  [Mutex!Next]_InCriticalSection
      BY <1>0, <1>1, <2>4 DEF RunEnds, Guarded, TypeOK
    <2>5. CASE Release(r) \/ ReleaseFails(r)
      BY <1>0, <1>1, <2>5 DEF Release, ReleaseFails, Leave, Guarded, TypeOK
    <2>6. QED
      BY <1>3, <2>1, <2>2, <2>3, <2>4, <2>5 DEF Step
  <1>4. ASSUME NEW p \in Pod, Crash(p) PROVE [Mutex!Next]_InCriticalSection
    BY <1>0, <1>1, <1>4 DEF Crash, Guarded, TypeOK
  <1>5. QED
    BY <1>2, <1>3, <1>4 DEF Next

(***************************************************************************)
(* The cron lock implements the abstract mutual exclusion of JobMutex, in  *)
(* which neither Redis nor time occurs: acquire() enters an empty critical *)
(* section; the end of a run, or the death of its pod, leaves it.          *)
(***************************************************************************)
THEOREM LockImplementsMutex == Spec => ImplementsMutex
  <1>1. Init => Mutex!Init
    BY DEF Init, Mutex!Init, GuardedRuns, Guarded
  <1>2. LockInv /\ [Next]_vars => [Mutex!Next]_InCriticalSection
    BY NextImplementsMutex
  <1>3. QED
    BY <1>1, <1>2, LockInvHolds, PTL DEF Spec, ImplementsMutex, Mutex!Spec, InCriticalSection

-----------------------------------------------------------------------------
(* Without misfortunes a busy key has a run behind it.                     *)

BusyInv == LockInv /\ BusyMeansRunning

LEMMA NextBusyInv == BusyInv /\ [Next]_vars => BusyInv'
  <1> SUFFICES ASSUME BusyInv, [Next]_vars PROVE BusyInv'
    OBVIOUS
  <1>0. TypeOK /\ LockInv' /\ faults' = faults
    BY FaultsFixed, NextLockInv DEF BusyInv, LockInv
  <1>1. SUFFICES ASSUME faults = {}, NEW j \in Job, key'[j] > 0
                 PROVE  \E r \in Run : JobOf[r] = j /\ Guarded(r)'
    BY <1>0 DEF BusyInv, BusyMeansRunning, GuardedRuns
  <1>2. key[j] > 0 => \E s \in Run : JobOf[s] = j /\ Guarded(s)
    BY <1>1 DEF BusyInv, BusyMeansRunning, GuardedRuns
  <1>3. key[j] \in Nat
    BY <1>0, <1>1 DEF TypeOK
  <1>4. CASE UNCHANGED vars
    BY <1>1, <1>2, <1>4 DEF vars, Guarded
  <1>5. CASE Tick
    BY <1>1, <1>2, <1>3, <1>5 DEF Tick, Guarded
  <1>6. ASSUME NEW r \in Run, Step(r)
        PROVE  \E s \in Run : JobOf[s] = j /\ Guarded(s)'
    <2>1. CASE SetOk(r)
      <3>1. CASE JobOf[r] = j
        BY <1>0, <2>1, <3>1 DEF SetOk, Enter, Guarded, TypeOK
      <3>2. CASE JobOf[r] # j
        BY <1>0, <1>1, <1>2, <2>1, <3>2 DEF SetOk, Enter, Guarded, TypeOK
      <3>3. QED
        BY <3>1, <3>2
    <2>2. CASE Trigger(r) \/ SetBusy(r) \/ ManualStart(r) \/ ManualEnd(r)
      BY <1>0, <1>1, <1>2, <2>2
         DEF Trigger, SetBusy, ManualStart, ManualEnd, Guarded, TypeOK
    <2>3. ASSUME NEW status \in Status, RunEnds(r, status)
          PROVE  \E s \in Run : JobOf[s] = j /\ Guarded(s)'
      BY <1>0, <1>1, <1>2, <2>3 DEF RunEnds, Guarded, TypeOK
    <2>4. CASE Release(r)
      <3>1. JobOf[r] # j
        BY <1>0, <1>1, <2>4 DEF Release, TypeOK
      <3>2. QED
        BY <1>0, <1>1, <1>2, <2>4, <3>1 DEF Release, Leave, Guarded, TypeOK
    <2>5. CASE SetFails(r) \/ ReleaseFails(r)
      BY <1>1, <2>5 DEF SetFails, ReleaseFails
    <2>6. QED
      BY <1>6, <2>1, <2>2, <2>3, <2>4, <2>5 DEF Step
  <1>7. ASSUME NEW p \in Pod, Crash(p)
        PROVE  \E s \in Run : JobOf[s] = j /\ Guarded(s)'
    BY <1>1, <1>7 DEF Crash
  <1>8. QED
    BY <1>4, <1>5, <1>6, <1>7 DEF Next

(***************************************************************************)
(* As long as nothing goes wrong, acquire() turns a run away only while    *)
(* another execution of its job is in progress.                            *)
(***************************************************************************)
THEOREM BusyMeansRunningHolds == Spec => []BusyMeansRunning
  <1>1. Init => BusyInv
    BY InitLockInv DEF Init, BusyInv, BusyMeansRunning
  <1>2. BusyInv => BusyMeansRunning
    BY DEF BusyInv
  <1>3. QED
    BY <1>1, <1>2, NextBusyInv, PTL DEF Spec

-----------------------------------------------------------------------------
(* The counters.                                                           *)

Accounted(p, j) ==
    begun[p][j] = metrics[p][j]["success"] + metrics[p][j]["failed"]
        + Cardinality(RunningOn(p, j))

LEMMA RunningOnFinite ==
    ASSUME NEW p \in Pod, NEW j \in Job
    PROVE  IsFiniteSet(RunningOn(p, j)) /\ Cardinality(RunningOn(p, j)) \in Nat
  <1>1. IsFiniteSet(RunningOn(p, j))
    BY ConstantsOK, FS_Subset DEF RunningOn
  <1>2. QED
    BY <1>1, FS_CardinalityType

\* Nothing of a pod's books changes when its counters and its running runs do not.
LEMMA BooksUntouched ==
    ASSUME NEW p \in Pod, NEW j \in Job, Accounted(p, j),
           begun'[p][j] = begun[p][j], metrics'[p][j] = metrics[p][j],
           RunningOn(p, j)' = RunningOn(p, j)
    PROVE  Accounted(p, j)'
  BY DEF Accounted

LEMMA EnterKeepsBooks ==
    ASSUME TypeOK, NEW r \in Run, phase[r] = "acquiring", Enter(r),
           NEW p \in Pod, NEW j \in Job, Accounted(p, j)
    PROVE  Accounted(p, j)'
  <1>1. CASE PodOf[r] = p /\ JobOf[r] = j
    <2>1. RunningOn(p, j)' = RunningOn(p, j) \cup {r} /\ r \notin RunningOn(p, j)
      BY <1>1 DEF RunningOn, Enter, TypeOK
    <2>2. Cardinality(RunningOn(p, j)') = Cardinality(RunningOn(p, j)) + 1
      BY <2>1, RunningOnFinite, FS_AddElement
    <2>3. begun'[p][j] = begun[p][j] + 1 /\ metrics'[p][j] = metrics[p][j]
      BY <1>1 DEF Enter, TypeOK
    <2>4. /\ metrics[p][j]["success"] \in Nat /\ metrics[p][j]["failed"] \in Nat
          /\ Cardinality(RunningOn(p, j)) \in Nat
      BY RunningOnFinite DEF TypeOK, Status
    <2>5. QED
      BY <2>2, <2>3, <2>4 DEF Accounted
  <1>2. CASE ~(PodOf[r] = p /\ JobOf[r] = j)
    <2>1. RunningOn(p, j)' = RunningOn(p, j)
      BY <1>2 DEF RunningOn, Enter, TypeOK
    <2>2. begun'[p][j] = begun[p][j] /\ metrics'[p][j] = metrics[p][j]
      BY <1>2, ConstantsOK DEF Enter, TypeOK
    <2>3. QED
      BY <2>1, <2>2, BooksUntouched
  <1>3. QED
    BY <1>1, <1>2

LEMMA RunEndsKeepsBooks ==
    ASSUME TypeOK, NEW r \in Run, NEW status \in Status, RunEnds(r, status),
           NEW p \in Pod, NEW j \in Job, Accounted(p, j)
    PROVE  Accounted(p, j)'
  <1>1. CASE PodOf[r] = p /\ JobOf[r] = j
    <2>1. RunningOn(p, j)' = RunningOn(p, j) \ {r} /\ r \in RunningOn(p, j)
      BY <1>1 DEF RunningOn, RunEnds, TypeOK
    <2>2. Cardinality(RunningOn(p, j)') = Cardinality(RunningOn(p, j)) - 1
      BY <2>1, RunningOnFinite, FS_RemoveElement
    <2>3. begun'[p][j] = begun[p][j]
      BY DEF RunEnds
    <2>4. /\ metrics[p][j]["success"] \in Nat /\ metrics[p][j]["failed"] \in Nat
          /\ Cardinality(RunningOn(p, j)) \in Nat
      BY RunningOnFinite DEF TypeOK, Status
    <2>5. metrics'[p][j]["success"] + metrics'[p][j]["failed"]
            = metrics[p][j]["success"] + metrics[p][j]["failed"] + 1
      <3>1. metrics'[p][j] = [metrics[p][j] EXCEPT ![status] = @ + 1]
        BY <1>1 DEF RunEnds, TypeOK
      <3>2. metrics[p][j] \in [Status -> Nat]
        BY DEF TypeOK
      <3>3. CASE status = "success"
        BY <2>4, <3>1, <3>2, <3>3 DEF Status
      <3>4. CASE status = "failed"
        BY <2>4, <3>1, <3>2, <3>4 DEF Status
      <3>5. QED
        BY <3>3, <3>4 DEF Status
    <2>6. /\ metrics'[p][j]["success"] + metrics'[p][j]["failed"] \in Nat
      BY <2>4, <2>5
    <2>7. QED
      BY <2>2, <2>3, <2>4, <2>5 DEF Accounted
  <1>2. CASE ~(PodOf[r] = p /\ JobOf[r] = j)
    <2>1. RunningOn(p, j)' = RunningOn(p, j)
      BY <1>2 DEF RunningOn, RunEnds, TypeOK
    <2>2. begun'[p][j] = begun[p][j] /\ metrics'[p][j] = metrics[p][j]
      BY <1>2, ConstantsOK DEF RunEnds, TypeOK
    <2>3. QED
      BY <2>1, <2>2, BooksUntouched
  <1>3. QED
    BY <1>1, <1>2

LEMMA CrashKeepsBooks ==
    ASSUME TypeOK, NEW q \in Pod, Crash(q),
           NEW p \in Pod, NEW j \in Job, Accounted(p, j)
    PROVE  Accounted(p, j)'
  <1>1. CASE p = q
    <2>1. RunningOn(p, j)' = {}
      BY <1>1 DEF RunningOn, Crash
    <2>2. begun'[p][j] = 0 /\ metrics'[p][j] = NoMetrics
      BY <1>1 DEF Crash, TypeOK
    <2>3. NoMetrics["success"] = 0 /\ NoMetrics["failed"] = 0
      BY DEF NoMetrics, Status
    <2>4. Cardinality(RunningOn(p, j)') = 0
      BY <2>1, FS_EmptySet
    <2>5. QED
      BY <2>2, <2>3, <2>4 DEF Accounted
  <1>2. CASE p # q
    <2>1. RunningOn(p, j)' = RunningOn(p, j)
      BY <1>2 DEF RunningOn, Crash, TypeOK
    <2>2. begun'[p][j] = begun[p][j] /\ metrics'[p][j] = metrics[p][j]
      BY <1>2 DEF Crash, TypeOK
    <2>3. QED
      BY <2>1, <2>2, BooksUntouched
  <1>3. QED
    BY <1>1, <1>2

LEMMA NextMetrics == TypeOK /\ MetricsMatchRuns /\ [Next]_vars => MetricsMatchRuns'
  <1> SUFFICES ASSUME TypeOK, MetricsMatchRuns, [Next]_vars, NEW p \in Pod, NEW j \in Job
               PROVE  Accounted(p, j)'
    BY DEF MetricsMatchRuns, Accounted
  <1>0. Accounted(p, j)
    BY DEF MetricsMatchRuns, Accounted
  <1>1. CASE UNCHANGED vars \/ Tick
    BY <1>0, <1>1, BooksUntouched DEF vars, Tick, RunningOn
  <1>2. ASSUME NEW r \in Run, Step(r) PROVE Accounted(p, j)'
    <2>1. CASE SetOk(r) \/ SetFails(r)
      BY <1>0, <2>1, EnterKeepsBooks DEF SetOk, SetFails
    <2>2. ASSUME NEW status \in Status, RunEnds(r, status) PROVE Accounted(p, j)'
      BY <1>0, <2>2, RunEndsKeepsBooks
    <2>3. CASE Trigger(r) \/ SetBusy(r) \/ ManualStart(r) \/ ManualEnd(r)
      BY <1>0, <2>3, BooksUntouched
         DEF Trigger, SetBusy, ManualStart, ManualEnd, RunningOn, TypeOK
    <2>4. CASE Release(r) \/ ReleaseFails(r)
      BY <1>0, <2>4, BooksUntouched DEF Release, ReleaseFails, Leave, RunningOn, TypeOK
    <2>5. QED
      BY <1>2, <2>1, <2>2, <2>3, <2>4 DEF Step
  <1>3. ASSUME NEW q \in Pod, Crash(q) PROVE Accounted(p, j)'
    BY <1>0, <1>3, CrashKeepsBooks
  <1>4. QED
    BY <1>1, <1>2, <1>3 DEF Next

(***************************************************************************)
(* cron_job_runs_total is exact in every environment: each execution a pod *)
(* began since it booted is counted once, or has not ended.                *)
(***************************************************************************)
THEOREM MetricsMatchRunsHolds == Spec => []MetricsMatchRuns
  <1>1. Init => MetricsMatchRuns
    <2>1. SUFFICES ASSUME Init, NEW p \in Pod, NEW j \in Job PROVE Accounted(p, j)
      BY DEF MetricsMatchRuns, Accounted
    <2>2. RunningOn(p, j) = {}
      BY <2>1 DEF Init, RunningOn
    <2>3. Cardinality(RunningOn(p, j)) = 0
      BY <2>2, FS_EmptySet
    <2>4. QED
      BY <2>1, <2>3 DEF Init, Accounted, NoMetrics, Status
  <1>2. QED
    BY <1>1, NextMetrics, TypeCorrect, PTL DEF Spec
=============================================================================

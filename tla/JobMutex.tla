------------------------------ MODULE JobMutex ------------------------------
(***************************************************************************)
(* What the cron lock promises, with neither Redis nor time in it: of the  *)
(* scheduled runs of a job at most one executes at any moment.             *)
(***************************************************************************)
CONSTANTS Job,      \* the cron jobs
          Run       \* the invocations of a job's run() that may be in progress

VARIABLE executing  \* executing[j]: the runs inside the critical section of job j

TypeOK == executing \in [Job -> SUBSET Run]

Init == executing = [j \in Job |-> {}]

\* A run enters an idle job.
Enter(j, r) ==
    /\ executing[j] = {}
    /\ executing' = [executing EXCEPT ![j] = {r}]

\* Some runs finish, or die with their pod.
Leave(S) == executing' = [j \in Job |-> executing[j] \ S]

Next ==
    \/ \E j \in Job, r \in Run : Enter(j, r)
    \/ \E S \in SUBSET Run : Leave(S)

Spec == Init /\ [][Next]_executing
=============================================================================

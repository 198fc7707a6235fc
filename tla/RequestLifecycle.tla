-------------------------- MODULE RequestLifecycle --------------------------
(***************************************************************************)
(* What the use cases promise of service_requests.status: a request starts *)
(* PENDING, its provider accepts or rejects it, its contractor cancels it  *)
(* while it is PENDING or ACCEPTED and completes it once it is ACCEPTED.   *)
(* REJECTED, CANCELLED and COMPLETED are final.                            *)
(***************************************************************************)
CONSTANT Request

VARIABLE row  \* row[q]: the status of q, "none" before it exists, "erased" after

Targets ==
    [none |-> {"PENDING"},
     PENDING |-> {"ACCEPTED", "REJECTED", "CANCELLED", "erased"},
     ACCEPTED |-> {"COMPLETED", "CANCELLED", "erased"},
     REJECTED |-> {"erased"},
     CANCELLED |-> {"erased"},
     COMPLETED |-> {"erased"},
     erased |-> {}]

Init == row = [q \in Request |-> "none"]

Step(q) == \E s \in Targets[row[q]] : row' = [row EXCEPT ![q] = s]

Next == \E q \in Request : Step(q)

Spec == Init /\ [][Next]_row
=============================================================================

-------------------------- MODULE MCServiceRequest --------------------------
(***************************************************************************)
(* ServiceRequest and WeeklyReport for TLC: two requests of one provider,  *)
(* so that it can be reviewed twice in a week, and two calls.  The calls   *)
(* are interchangeable, and so are the requests, which have one price and  *)
(* one rating; no property of the run is a liveness property.              *)
(***************************************************************************)
EXTENDS WeeklyReport, TLC

CONSTANTS q1, q2, c1, c2

MCPrice == [q \in Request |-> 1]
MCRating == [q \in Request |-> 2]

Symmetry == Permutations(Call) \cup Permutations(Request)
=============================================================================

----------------------------- MODULE MCRatings -----------------------------
(***************************************************************************)
(* Ratings for TLC: v1 and v2 are about p1, v3 is about p2, so a batch has *)
(* both providers, and the statement for v1 can be overtaken by v2.        *)
(***************************************************************************)
EXTENDS Ratings

CONSTANTS v1, v2, v3, p1, p2, r1

MCProviderOf == [v \in Review |-> IF v = v3 THEN p2 ELSE p1]
MCRatingOf == [v \in Review |-> IF v = v1 THEN 4 ELSE 5]
=============================================================================

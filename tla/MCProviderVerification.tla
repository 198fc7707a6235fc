----------------------- MODULE MCProviderVerification -----------------------
(***************************************************************************)
(* ProviderVerification for TLC: one provider, two calls of the API and    *)
(* two messages in handling at once.                                       *)
(***************************************************************************)
EXTENDS ProviderVerification, TLC

CONSTANTS p1, c1, c2, w1, w2

Symmetry == Permutations(Call) \cup Permutations(Worker)
=============================================================================

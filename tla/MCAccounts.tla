----------------------------- MODULE MCAccounts ------------------------------
(***************************************************************************)
(* Accounts for TLC: two users with one Keycloak id between them, one      *)
(* document, two calls at once.                                            *)
(***************************************************************************)
EXTENDS Accounts, TLC

CONSTANTS u1, u2, l1, d1, c1, c2

Symmetry == Permutations(User) \cup Permutations(Caller)
=============================================================================

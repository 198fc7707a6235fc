-------------------------- MODULE MCAccountCleanup --------------------------
(***************************************************************************)
(* AccountCleanup for TLC: u1 asks u2 for one service.  Two runs overlap,  *)
(* as they do when one of them is manual or the lock is open, and a batch  *)
(* takes both accounts, so that the two runs may lock them in opposite     *)
(* order.                                                                  *)
(***************************************************************************)
EXTENDS AccountCleanup

CONSTANTS u1, u2, q1, c1, c2

MCContractorOf == [q \in Request |-> u1]
MCOwnerOf == [q \in Request |-> u2]

=============================================================================

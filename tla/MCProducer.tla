----------------------------- MODULE MCProducer ------------------------------
(***************************************************************************)
(* Producer for TLC: three messages, two calls at once.                    *)
(***************************************************************************)
EXTENDS Producer

CONSTANTS m1, m2, m3, c1, c2
=============================================================================

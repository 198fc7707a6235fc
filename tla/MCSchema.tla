------------------------------- MODULE MCSchema -------------------------------
(* Model checking of Entities (and of Schema, which it extends): two calls *)
(* of the migration script, and six releases: with the first update, with  *)
(* requests and reviews, and each of the last four.                        *)
EXTENDS Entities, TLC

CONSTANTS ci, dev

MCRunners == {ci, dev}
MCReleases == {6, 17, 22, 23, 24, 25}

Symmetry == Permutations(MCRunners)
===============================================================================

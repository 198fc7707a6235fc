------------------------------ MODULE MCCatalog -------------------------------
(* Model checking of Catalog: two admins on two categories and two slugs,  *)
(* two readers.                                                            *)
EXTENDS Catalog

CONSTANTS c1, c2, s1, s2, a1, a2, r1, r2
===============================================================================

-------------------------- MODULE MCNotifications --------------------------
(***************************************************************************)
(* Notifications for TLC: e1 is a completed request, news for both roles,  *)
(* of whom the contractor has a token and the provider an address that the *)
(* SMTP server refuses; e2 is an event as the API sends it.                *)
(***************************************************************************)
EXTENDS Notifications

CONSTANTS e1, e2, a1, a2, w1

MCTypeOf == [e \in Event |-> IF e = e1 THEN "completed" ELSE "none"]
MCTokens == {<<e1, "contractor">>}
MCRefused == {[kind |-> "email", event |-> e1, role |-> "provider"]}
=============================================================================

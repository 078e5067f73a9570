----------------------------- MODULE MCLifecycle -----------------------------
(* Lifecycle over the cadres of MCCadres. *)
EXTENDS Lifecycle, MCCadres
=============================================================================

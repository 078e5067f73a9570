----------------------------- MODULE MCReconcile -----------------------------
(* Reconcile over the cadres of MCCadres. *)
EXTENDS Reconcile, MCCadres
=============================================================================

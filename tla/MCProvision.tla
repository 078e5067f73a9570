----------------------------- MODULE MCProvision -----------------------------
(* Two cadres and two commands at the same time, with blocks of two ids.   *)
EXTENDS Provision, TLC

Symmetric == Permutations(Cadres) \cup Permutations(Procs)
=============================================================================

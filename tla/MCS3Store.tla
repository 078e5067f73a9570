------------------------------ MODULE MCS3Store ------------------------------
(* Two objects with two contents each, the first kept apart per store.     *)
EXTENDS S3Store, TLC

CONSTANTS k1, k2, a, b

Symmetric == Permutations(Keys) \cup Permutations(Contents)

(* Nothing tells the stores apart, so the run begins with one of them. *)
MCInit == Init /\ cfg = CHOOSE s \in Stores : TRUE

MCFairSpec == MCInit /\ [][Next]_vars /\ WF_vars(Sync \/ (Vanished /\ Fails))
=============================================================================

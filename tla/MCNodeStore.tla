----------------------------- MODULE MCNodeStore -----------------------------
(* One git branch and one bucket, which have their file names in common. *)
EXTENDS NodeStore

CONSTANTS main, here, k1, k2, a, b

MCGitSources == {[url |-> here, branch |-> main]}
=============================================================================

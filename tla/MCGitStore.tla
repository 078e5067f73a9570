----------------------------- MODULE MCGitStore ------------------------------
(* Two branches of one repository. *)
EXTENDS GitStore

CONSTANTS main, dev, here

MCSources ==
  {[url |-> here, branch |-> main], [url |-> here, branch |-> dev]}
=============================================================================

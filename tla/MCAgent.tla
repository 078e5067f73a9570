------------------------------ MODULE MCAgent --------------------------------
(* A cadre with secrets, one that may not load, and what the store holds   *)
(* of them from one revision to the next.                                  *)
EXTENDS NodeStatus

CONSTANTS web, db, k1, k2

Plain(loads) == [loads |-> loads, sealed |-> None, here |-> TRUE, sops |-> None]
Secret(k)    == [loads |-> TRUE, sealed |-> k, here |-> TRUE, sops |-> k]
OwnKey(k)    == [loads |-> TRUE, sealed |-> None, here |-> TRUE, sops |-> k]
Elsewhere(k) == [loads |-> TRUE, sealed |-> k, here |-> FALSE, sops |-> k]

Make(placement, webDir, dbDir) ==
  [placement |-> placement, bundle |-> [c \in Cadres |-> IF c = web THEN webDir ELSE dbDir]]

MCContents == {
  Make({web, db}, Secret(k2), Plain(TRUE)),
  Make({web, db}, OwnKey(k1), Plain(FALSE)),
  Make({web}, Elsewhere(k2), Plain(TRUE)),
  Make({db}, Plain(TRUE), Plain(TRUE)),
  Make(BadFile, Plain(TRUE), Plain(TRUE))}
=============================================================================

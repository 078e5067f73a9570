------------------------------ MODULE MCDeploy --------------------------------
(* Two nodes, one at a static address and one at its connection's host; the *)
(* operator may set either address, so that both names lead to one host.    *)
EXTENDS Deploy

CONSTANTS n1, n2, east, west

Ed  == [type |-> 1, id |-> 1]
Rsa == [type |-> 2, id |-> 1]
New == [type |-> 1, id |-> 2]

MCHostKey == {Ed, Rsa, New}
MCKeySets == {{Ed, Rsa}, {New}}
(* The binary that is uploaded to all nodes is the one for n1; a release   *)
(* has none for n2.                                                        *)
MCOptions ==
  {[names |-> <<>>,           limit |-> 2, upload |-> "amd64", boot |-> TRUE],
   [names |-> <<east, west>>, limit |-> 1, upload |-> None,    boot |-> TRUE],
   [names |-> <<east, east>>, limit |-> 4, upload |-> None,    boot |-> TRUE],
   [names |-> <<west>>,       limit |-> 4, upload |-> "riscv64", boot |-> FALSE]}
MCArchs  == {"amd64", "riscv64"}
MCArchOf == [h \in Hosts |-> IF h = n1 THEN "amd64" ELSE "riscv64"]
MCConns   == (1..MaxRuns) \X (1..2)
MCNodeOrder == <<east, west>>
MCLima == [n \in {east, west} |-> None]

(* Of both hosts the negotiation would take the Ed25519 key; the Rsa key   *)
(* of one may be pinned.                                                   *)
MCInit ==
  /\ DInit
  /\ \A h \in Hosts : server[h] = {Ed, Rsa}
  /\ known[n1] \in {{}, {Rsa}} /\ known[n2] = {}
  /\ nodes = [n \in NodeNames |-> IF n = east THEN [EmptyDoc EXCEPT !["address"] = n1]
                                              ELSE [EmptyDoc EXCEPT !["host"] = n2]]

MCSpec == MCInit /\ [][DNext]_dvars /\ DFair
=============================================================================

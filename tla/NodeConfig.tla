------------------------------ MODULE NodeConfig ------------------------------
(***************************************************************************)
(* Node configuration (internal/nodecfg, internal/sshresolve): one file    *)
(* per node over an optional one for all, and the address that they give.  *)
(*                                                                         *)
(* A document maps what an address is taken from to a host, or to None     *)
(* where it has no such key; user, port and identity follow the address.   *)
(***************************************************************************)
LOCAL INSTANCE Sequences

CONSTANTS
  NodeOrder,  \* the node names, sorted
  Hosts,      \* addresses
  None,       \* no such key, no such file
  Torn,       \* a file that cannot be parsed
  Global,     \* nodes/configuration.yml
  Lima        \* what a local lima instance's ssh.config says of a node

NodeNames == {NodeOrder[i] : i \in DOMAIN NodeOrder}
Doc       == [{"address", "host"} -> Hosts \cup {None}]
EmptyDoc  == [key \in {"address", "host"} |-> None]

(* deepMerge: the node's own value of a key replaces the global one. *)
DeepMerge(base, over) ==
  [key \in DOMAIN over |-> IF over[key] = None THEN base[key] ELSE over[key]]

(* LoadMerged: the global file may be missing, the node's may not. *)
Loadable(doc) == doc \notin {None, Torn} /\ Global # Torn
LoadMerged(doc) == DeepMerge(IF Global = None THEN EmptyDoc ELSE Global, doc)

(* Resolve: network.address, then lima, then connection.host; or none. *)
Resolve(node, cfg) ==
  IF cfg["address"] # None THEN cfg["address"]
  ELSE IF Lima[node] # None THEN Lima[node] ELSE cfg["host"]

Target(node, doc) == IF Loadable(doc) THEN Resolve(node, LoadMerged(doc)) ELSE None

(* WriteNetwork sets the address and keeps the rest; a file that cannot be *)
(* parsed is refused.                                                      *)
WriteNetwork(doc, host) == [IF doc = None THEN EmptyDoc ELSE doc EXCEPT !["address"] = host]

(* It writes in place: cut short, the file ends anywhere, at a line's end  *)
(* or within one.                                                          *)
CutShort(doc) ==
  {Torn} \cup {[key \in DOMAIN doc |-> IF key \in lost THEN None ELSE doc[key]] :
                 lost \in SUBSET DOMAIN doc}

(* List: the directories that have a configuration. *)
List(docs) == SelectSeq(NodeOrder, LAMBDA n : docs[n] # None)
=============================================================================

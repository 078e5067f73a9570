------------------------------- MODULE Identity ------------------------------
(***************************************************************************)
(* The age keys on a node: the node's own (internal/nodekey), which        *)
(* unseals what the store ships, and one per cadre, made on the node       *)
(* (reconcile.New) or unsealed from the store (agent.installIdentity).     *)
(*                                                                         *)
(* A key stands for its private and its public half.  Every write of a key *)
(* file truncates it first, so one that is cut short leaves Torn, from     *)
(* which no key can be parsed.  Every operation here but the node key's    *)
(* runs under the node lock and is one step that ends in one of the ways   *)
(* its commands may fail or its process die.                               *)
(***************************************************************************)
CONSTANTS
  Cadres,
  Keys,    \* cadre keys
  None,    \* no file, no key
  Torn     \* a file that is no key

ASSUME NotKeys == None \notin Keys /\ Torn \notin Keys

VARIABLES
  nodeKey,    \* /etc/rucher/node/identity.txt: None, Torn or "made"
  identity,   \* identity.txt of every cadre
  recipient,  \* recipient.txt of every cadre
  printed     \* the public key that `cadre new` printed last

idVars == <<nodeKey, identity, recipient, printed>>

ITypeOK ==
  /\ nodeKey \in {None, Torn, "made"}
  /\ identity \in [Cadres -> Keys \cup {None, Torn}]
  /\ recipient \in [Cadres -> Keys \cup {None, Torn}]
  /\ printed \in [Cadres -> Keys \cup {None}]

IInit ==
  /\ nodeKey = None
  /\ identity = [c \in Cadres |-> None]
  /\ recipient = [c \in Cadres |-> None]
  /\ printed = [c \in Cadres |-> None]

(* EnsureIdentity: a key is made if there is no file; one that is there is *)
(* only read, and an error where it cannot be parsed.                      *)
EnsureIdentity ==
  /\ nodeKey = None
  /\ nodeKey' \in {"made", Torn}
  /\ UNCHANGED <<identity, recipient, printed>>

(* tee recipient.txt, then print: the last write may be cut short. *)
Announce(c, k) ==
  \/ recipient' = [recipient EXCEPT ![c] = k] /\ printed' = [printed EXCEPT ![c] = k]
  \/ recipient' \in {recipient, [recipient EXCEPT ![c] = Torn]} /\ UNCHANGED printed

(* GenerateAgeKey: no key is made twice. *)
Generate(c, k) ==
  /\ \A d \in Cadres : k \notin {identity[d], recipient[d], printed[d]}
  /\ \/ /\ identity' = [identity EXCEPT ![c] = k]
        /\ Announce(c, k)
     \/ /\ identity' = [identity EXCEPT ![c] = Torn]
        /\ UNCHANGED <<recipient, printed>>

NewAlways(c, k) ==    \* mutant of New: does not look for a key
  UNCHANGED nodeKey /\ Generate(c, k)

NewUnparsed(c, k) ==    \* mutant of New: prints what is in the file, key or not
  /\ UNCHANGED nodeKey
  /\ IF identity[c] = None
       THEN Generate(c, k)
       ELSE Announce(c, identity[c]) /\ UNCHANGED identity

(* New: make the key, or derive its public half from it once more. *)
New(c, k) ==
  /\ UNCHANGED nodeKey
  /\ IF identity[c] = None
       THEN Generate(c, k)
       ELSE /\ identity[c] = k
            /\ Announce(c, k)
            /\ UNCHANGED identity

(* Recipient reads recipient.txt, and nothing else. *)
Recipient(c) == recipient[c]

(* installIdentity of sealed key k, which is sealed to this node or not,   *)
(* succeeds ...                                                            *)
InstallIdentity(c, k, here) ==
  /\ nodeKey = "made" /\ here
  /\ identity' = [identity EXCEPT ![c] = k]
  /\ UNCHANGED <<nodeKey, recipient, printed>>

(* ... or fails: unsealing it does not touch the file, cat may cut it.     *)
InstallFails(c, here) ==
  /\ identity' = identity \/ (nodeKey = "made" /\ here /\ identity' = [identity EXCEPT ![c] = Torn])
  /\ UNCHANGED <<nodeKey, recipient, printed>>
=============================================================================

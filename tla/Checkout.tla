------------------------------- MODULE Checkout -------------------------------
(***************************************************************************)
(* One cadre between the operator and a node: the operator's commands on   *)
(* the checkout (`cadre key seal`, `ops secrets encrypt`), edits and       *)
(* merges of its files by hand, and the passes of a node, which may take   *)
(* the directory at any moment of that.                                    *)
(*                                                                         *)
(* A pass is one step here, in which no command fails: AgentPass and       *)
(* Reconcile follow those.  A write of a command may be cut short.         *)
(***************************************************************************)
EXTENDS CadreDir

CONSTANTS
  Inputs,       \* plaintext documents: sequences of [key, text]
  Manifests,    \* what rucher.yml can be
  FileSets,     \* what files the directory can have
  MaxVersions,  \* bound: files that Encrypt wrote
  MaxKeys,      \* bound: age keys made
  MaxEdits,     \* bound: edits by hand
  MaxFailures   \* bound: writes that fail

ASSUME CheckoutBounds ==
  /\ {MaxVersions, MaxKeys, MaxEdits, MaxFailures} \subseteq Nat
  /\ Manifests \subseteq Manifest
  /\ \A s \in FileSets : s \subseteq File /\ \A f, g \in s : f.name = g.name => f = g
  /\ Prune \in Services

(* Only Quadlet files generate a service, and only units name a file of    *)
(* environment variables.                                                  *)
ASSUME FilesMakeSense ==
  \A s \in FileSets : \A f \in s :
    (f.gen # Absent => f.unit = "quadlet") /\ (f.env # {} => f.unit # "support")

(* An input is a sequence of lines, a text one of letters, and no file     *)
(* that Encrypt writes from one is Torn.                                   *)
ASSUME InputsTyped ==
  \A input \in Inputs :
    /\ input \in Seq([key : Names, text : {input[i].text : i \in DOMAIN input}])
    /\ \A i \in DOMAIN input : input[i].text \in Seq(Range(input[i].text))
    /\ \A v \in 1..MaxVersions, k \in 1..MaxKeys : Encrypt(v, {k}, input) \notin {Absent, Torn}

VARIABLES
  dir,        \* the cadre's directory
  versions,   \* every secrets file that was written, from which input and to whom
  keys,       \* how many age keys were made
  sealing,    \* the encrypt command between its two writes: its key and input
  told,       \* the last encrypt that said it was done, while nothing changed since
  node,       \* the node: the identity file, what was applied, podman's secrets
  edits, failures

coVars == <<dir, versions, keys, sealing, told, node, edits, failures>>

No == [v |-> 0]

CInit ==
  /\ \E m \in Manifests, s \in FileSets :
       dir = [manifest |-> m, files |-> s, identity |-> Absent, sops |-> Absent]
  /\ versions = <<>> /\ keys = 0
  /\ sealing = No /\ told = No
  /\ node = [identity |-> Absent, files |-> {}, create |-> {}, secrets |-> NoMap]
  /\ edits = 0 /\ failures = 0

Fails == failures < MaxFailures /\ failures' = failures + 1
Puts(field, value) == dir' = [dir EXCEPT ![field] = value]

-----------------------------------------------------------------------------
(* The commands. *)

SealIdentityOnce(here) ==    \* mutant of SealIdentity: does not replace an identity
  /\ keys < MaxKeys /\ keys' = keys + 1
  /\ Puts("identity", IF dir.identity = Absent THEN [key |-> keys', here |-> here] ELSE dir.identity)
  /\ UNCHANGED failures

(* Make the cadre's key, and write it sealed to some nodes, this one among *)
(* them or not.                                                            *)
SealIdentity(here) ==
  /\ keys < MaxKeys /\ keys' = keys + 1
  /\ Puts("identity", [key |-> keys', here |-> here])
  /\ UNCHANGED failures

(* That write fails, and may have truncated the file. *)
SealFails ==
  /\ sealing = No /\ keys < MaxKeys /\ keys' = keys + 1
  /\ Fails /\ told' = No
  /\ dir' \in {dir, [dir EXCEPT !.identity = Torn]}
  /\ UNCHANGED <<versions, sealing, node, edits>>

KeySeal(here) ==
  /\ sealing = No /\ told' = No
  /\ SealIdentity(here)
  /\ UNCHANGED <<versions, sealing, node, edits>>

(* `secrets encrypt --seal-to`, up to its first write ... *)
EncryptSeal(input, here) ==
  /\ sealing = No /\ told' = No
  /\ Len(versions) < MaxVersions
  /\ SealIdentity(here)
  /\ sealing' = [v |-> Len(versions) + 1, key |-> keys', input |-> input]
  /\ UNCHANGED <<versions, node, edits>>

Writes(v, key, input) ==
  /\ versions' = Append(versions, input)
  /\ Puts("sops", Encrypt(v, {key}, input))

(* ... and to its end. *)
EncryptDone ==
  /\ sealing # No /\ sealing' = No
  /\ Writes(sealing.v, sealing.key, sealing.input)
  /\ told' = sealing
  /\ UNCHANGED <<keys, node, edits, failures>>

EncryptFails ==
  /\ sealing # No /\ sealing' = No
  /\ Fails
  /\ dir' \in {dir, [dir EXCEPT !.sops = Torn]}
  /\ UNCHANGED <<versions, keys, told, node, edits>>

(* `secrets encrypt --to` a key that was printed before, into the file. *)
EncryptTo(input, key) ==
  /\ sealing = No /\ told' = No
  /\ Len(versions) < MaxVersions
  /\ Writes(Len(versions) + 1, key, input)
  /\ UNCHANGED <<keys, sealing, node, edits, failures>>

-----------------------------------------------------------------------------
(* Edits by hand, of which merging two versions of a file is a sequence. *)

Edit ==
  /\ sealing = No /\ told' = No
  /\ edits < MaxEdits /\ edits' = edits + 1
  /\ UNCHANGED <<versions, keys, sealing, node, failures>>

EditDir ==
  /\ Edit
  /\ \/ \E m \in Manifests : Puts("manifest", m)
     \/ \E s \in FileSets : Puts("files", s)
     \/ \E field \in {"identity", "sops"} : Puts(field, Absent)

Whole == dir.sops \notin {Absent, Torn}

(* Lines that the file may get: any that Encrypt wrote, or an empty value. *)
Others ==
  (UNION {{Line(v, versions[v][i]) : i \in DOMAIN versions[v]} : v \in DOMAIN versions})
    \cup {Line(Clear, [key |-> k, text |-> <<>>]) : k \in Names \ {Meta}}

EditLines ==
  /\ Edit /\ Whole
  /\ LET lines == dir.sops.lines
         put(ls) == Puts("sops", [dir.sops EXCEPT !.lines = ls])
     IN
     \/ \E i \in DOMAIN lines : put(RemoveAt(lines, i))
     \/ \E i \in DOMAIN lines, l \in Others : put([lines EXCEPT ![i] = l])
     \/ \E l \in Others : put(Append(lines, l))
     \/ \E i \in DOMAIN lines, k \in Names \ {Meta} : put([lines EXCEPT ![i].key = k])

EditMeta ==
  /\ Edit /\ Whole
  /\ \E v \in DOMAIN versions, field \in {"age", "at", "mac"}, key \in 1..keys :
       Puts("sops", [dir.sops EXCEPT ![field] = Encrypt(v, {key}, versions[v])[field]])

-----------------------------------------------------------------------------
(* A pass on the node. *)

(* installIdentity. *)
Installs == dir.identity # Torn /\ (dir.identity # Absent => dir.identity.here)
Identity == IF dir.identity = Absent THEN node.identity ELSE dir.identity.key

Secrets ==
  IF SopsFile(dir) = Absent THEN NoMap ELSE MapOf(dir.sops.lines)

Applies ==
  /\ Loads(dir)
  /\ SopsFile(dir) # Absent =>
       Opens(Identity, dir.sops) /\ Selectable(dir.manifest.create, Secrets)

Pass ==
  /\ node' = IF ~Installs THEN node
             ELSE IF ~Applies THEN [node EXCEPT !.identity = Identity]
             ELSE [identity |-> Identity, files |-> FilesOf(dir), create |-> dir.manifest.create,
                   secrets |-> Selected(dir.manifest.create, Secrets)]
  /\ UNCHANGED <<dir, versions, keys, sealing, told, edits, failures>>

CNext ==
  \/ SealFails \/ EncryptDone \/ EncryptFails
  \/ \E here \in BOOLEAN : KeySeal(here) \/ \E input \in Inputs : EncryptSeal(input, here)
  \/ \E input \in Inputs, key \in 1..keys : EncryptTo(input, key)
  \/ EditDir \/ EditLines \/ EditMeta
  \/ Pass

CSpec == CInit /\ [][CNext]_coVars

-----------------------------------------------------------------------------
(* Properties. *)

(* The map of an input without its empty values.                           *)
ValuesOf(input) ==
  [k \in Names |->
     LET at == {i \in DOMAIN input : input[i].key = k /\ input[i].text # <<>>}
     IN  IF at = {} THEN Absent ELSE input[Max(at)].text]

(* Whatever becomes of the file through writes cut short, merges and edits *)
(* by hand, podman gets the secrets of one file as it was encrypted, or    *)
(* none: never a mixture, a part, or a value under another key.  Empty     *)
(* values, which are "MAC-invisible" (reconcile.go), excepted: without     *)
(* one that has the key of another value, a file may be read again.        *)
SecretsOfOneVersion ==
  NonEmpty(node.secrets) # NoMap =>
    \E v \in DOMAIN versions :
      NonEmpty(node.secrets) = Selected(node.create, ValuesOf(versions[v]))

(* An input that the encrypt command takes and that cannot be decrypted: a *)
(* key twice, or one that is called as the metadata.                       *)
Unreadable(input) ==
  \/ \E i, j \in DOMAIN input : i # j /\ input[i].key = input[j].key
  \/ \E i \in DOMAIN input : input[i].key = Meta

(* When `secrets encrypt --seal-to` has said that it is done, the nodes it *)
(* sealed to read the input from the directory, whatever was there before. *)
DoneIsReadable ==
  told # No /\ ~Unreadable(told.input) =>
    /\ dir.identity \in [key : {told.key}, here : BOOLEAN]
    /\ Opens(told.key, dir.sops)
    /\ MapOf(dir.sops.lines) = MapOf(told.input)

(* A secret that the manifest lists is never removed: "Erroring here beats *)
(* Apply silently deleting every podman secret" (cadre.go).                *)
ListedStay ==
  [][\A k \in dir.manifest.create :
       node.secrets[k] # Absent => node'.secrets[k] # Absent]_coVars

(* Every service of an applied cadre is that of one file, and the file is  *)
(* the one its name says: no unit of the cadre masks one that Quadlet      *)
(* generates or that rucher synthesizes, and the environment files of its  *)
(* units are there.  Two Quadlet files that generate the same service are  *)
(* excepted, which nothing refuses.                                        *)
Serves(f) == IF f.gen = Absent THEN f.name ELSE f.gen

OneFilePerService ==
  /\ \A f, g \in node.files :
       f # g /\ Serves(f) = Serves(g) => f.unit = "quadlet" /\ g.unit = "quadlet" /\ Prune # f.gen
  /\ \A f \in node.files : f.env \subseteq {g.name : g \in node.files}
=============================================================================

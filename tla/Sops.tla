--------------------------------- MODULE Sops ---------------------------------
(***************************************************************************)
(* The SOPS codec (internal/sopsage): a flat map of secrets as a file of   *)
(* lines, in which every value is encrypted under one data key and bound   *)
(* to its key, and a metadata block that wraps the data key for age        *)
(* recipients and authenticates all values together.                       *)
(*                                                                         *)
(* A text is the sequence of its letters: the MAC hashes the texts one     *)
(* after the other, with no mark between them.  What AES-GCM and age seal  *)
(* under a key opens with that key and otherwise does not; data keys and   *)
(* timestamps are fresh, and a number stands for both.                     *)
(***************************************************************************)
EXTENDS Naturals, Sequences, SequencesExt, FiniteSetsExt

CONSTANTS
  Names,   \* keys of the map
  Meta,    \* the name under which a file has its metadata: a key, too, to an operator
  Absent,  \* no file; no such key
  Torn     \* a file that a write left half-written: it has no whole metadata

Clear == 0   \* the data key of a value that is not encrypted

NoMap == [k \in Names |-> Absent]

(* A line of plaintext becomes one of ciphertext, bound to its key; an     *)
(* empty value is not encrypted.                                           *)
Line(dk, kv) ==
  [key |-> kv.key, path |-> kv.key, text |-> kv.text, dk |-> IF kv.text = <<>> THEN Clear ELSE dk]

ComputeMAC(lines) == FlattenSeq([i \in DOMAIN lines |-> lines[i].text])

(* Encrypt: a data key of its own for every file. *)
Encrypt(dk, to, kvs) ==
  LET lines == [i \in DOMAIN kvs |-> Line(dk, kvs[i])] IN
  [lines |-> lines, at |-> dk,
   age   |-> [to |-> to, dk |-> dk],
   mac   |-> [dk |-> dk, at |-> dk, over |-> ComputeMAC(lines)]]

-----------------------------------------------------------------------------
(* Decrypt. *)

(* parseEncryptedFile: no key twice; a second metadata entry is no block.  *)
Parses(f) ==
  /\ f # Torn
  /\ \A i \in DOMAIN f.lines : f.lines[i].key # Meta
  /\ \A i, j \in DOMAIN f.lines : f.lines[i].key = f.lines[j].key => i = j

(* A value opens at its own key only; one in the clear must be empty. *)
ValueOpens(line, dk) ==
  IF line.dk = Clear THEN line.text = <<>> ELSE line.dk = dk /\ line.path = line.key

Unverified(f) == TRUE    \* mutant of Verified

(* verifyMAC: sealed under the same data key at this time, over the texts. *)
Verified(f) ==
  /\ f.mac.dk = f.age.dk /\ f.mac.at = f.at
  /\ f.mac.over = ComputeMAC(f.lines)

Opens(id, f) ==
  /\ Parses(f)
  /\ id \in f.age.to
  /\ \A i \in DOMAIN f.lines : ValueOpens(f.lines[i], f.age.dk)
  /\ Verified(f)

(* The map of the lines: of two of one key the last counts. *)
MapOf(lines) ==
  [k \in Names |->
     LET at == {i \in DOMAIN lines : lines[i].key = k}
     IN  IF at = {} THEN Absent ELSE lines[Max(at)].text]

(* The map without its empty values, which the MAC does not see. *)
NonEmpty(map) == [k \in Names |-> IF map[k] = <<>> THEN Absent ELSE map[k]]
=============================================================================

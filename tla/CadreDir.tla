------------------------------- MODULE CadreDir -------------------------------
(***************************************************************************)
(* A cadre's directory and what loading makes of it (internal/cadre,       *)
(* internal/manifest, internal/prune): rucher.yml, the unit and support    *)
(* files, and the service files that never go to the node.                 *)
(*                                                                         *)
(* A file is a record of what the checks read of its name and text.        *)
(***************************************************************************)
EXTENDS Sops

CONSTANTS
  FileNames,
  Services,   \* names of .service units: FileNames, too, where they are files
  Prune       \* the .service that rucher synthesizes

(* gen: the service that Quadlet generates from the file, or Absent; an    *)
(* EnvironmentFile counts in env where its path is the cadre's, without    *)
(* the "-" that makes it optional; sections: the [Section]s there must be. *)
File == [name : FileNames, unit : {"quadlet", "native", "support"},
         gen : Services \cup {Absent}, env : SUBSET FileNames,
         sections : BOOLEAN, regular : BOOLEAN, dashed : BOOLEAN]

(* found: secrets.from names the secrets file that is there. *)
Manifest == [found : BOOLEAN, create : SUBSET Names, login : SUBSET Names,
             prune : BOOLEAN, valid : BOOLEAN]

(* A synthesized unit. *)
PruneUnit == [name |-> Prune, unit |-> "native", gen |-> Absent, env |-> {},
              sections |-> TRUE, regular |-> TRUE, dashed |-> FALSE]

Synthesized(m) == IF m.prune THEN {PruneUnit} ELSE {}

(* The secrets file of a directory, as its manifest names it. *)
SopsFile(d) == IF d.manifest.found THEN d.sops ELSE Absent

Named(d) == {f.name : f \in d.files}

UnitValid(f, d) == f.sections /\ f.env \subseteq Named(d)

SecretsPresentNot(d) == TRUE    \* mutant of SecretsPresent

(* What needs the secrets file is refused where there is none. *)
SecretsPresent(d) ==
  SopsFile(d) = Absent => d.manifest.create = {} /\ d.manifest.login = {}

ServicesApartNot(d) ==    \* mutant of ServicesApart: only reserved file names are looked for
  \A f \in d.files : f.name # Prune

(* No file has or generates a reserved name, and none that is a .service   *)
(* has a name that Quadlet generates.                                      *)
ServicesApart(d) ==
  /\ \A f \in d.files : Prune \notin {f.name, f.gen}
  /\ \A f, g \in d.files : f.gen # g.name

(* Load, with Validate of the manifest and of the cadre. *)
Loads(d) ==
  /\ d.manifest.valid
  /\ \A f \in d.files : f.regular /\ ~f.dashed
  /\ SecretsPresent(d)
  /\ ServicesApart(d)
  /\ \A f \in d.files : f.unit # "support" => UnitValid(f, d)

(* What a pass writes for a directory that loads. *)
FilesOf(d) == d.files \cup Synthesized(d.manifest)

(* Which secrets a pass creates of a map: those the manifest lists, or all *)
(* that are not empty.                                                     *)
Selected(create, map) ==
  IF create = {} THEN NonEmpty(map)
                 ELSE [k \in Names |-> IF k \in create THEN map[k] ELSE Absent]

(* A listed key must be there. *)
Selectable(create, map) == \A k \in create : map[k] # Absent
=============================================================================

------------------------------ MODULE CadrePlan ------------------------------
(***************************************************************************)
(* The diff engine of rucher (internal/plan, internal/fileset and the      *)
(* record it diffs against, internal/state): from the cadre an operator    *)
(* wants and the record of what was last applied, the set of things one    *)
(* pass has to do.                                                         *)
(*                                                                         *)
(* A file name carries its class, as its extension does in the code.  A    *)
(* content is a model value and stands for its own SHA-256, so two         *)
(* contents have the same hash iff they are equal.  A map from names (or   *)
(* secret keys, or registries) is a total function that is Absent where    *)
(* the Go map has no key.                                                  *)
(***************************************************************************)
CONSTANTS
  Quadlets,     \* .container/.volume/.network/... unit files
  Activators,   \* native .timer/.socket/.path unit files
  Services,     \* native .service unit files
  Supports,     \* every other file: env files, configs
  Contents,     \* file contents
  Installs,     \* the contents that carry an [Install] section
  FileRefs,     \* [Contents -> SUBSET Supports]: quadletref.Extract(..).Files
  SecretRefs,   \* [Contents -> SUBSET Secrets]: quadletref.Extract(..).Secrets
  Secrets,      \* podman secret names
  Values,       \* secret values and registry passwords
  Registries,   \* registries of the login block
  Limits,       \* resource limits
  NoLimits,     \* the zero manifest.Resources
  Uids,         \* uids an OS user can get
  NoUid,        \* uid 0 in the record: never applied
  Absent        \* no such key

Natives == Activators \cup Services
Units   == Quadlets \cup Natives
Names   == Units \cup Supports

ASSUME ClassesDisjoint ==
  /\ Quadlets \cap (Activators \cup Services \cup Supports) = {}
  /\ Activators \cap (Services \cup Supports) = {}
  /\ Services \cap Supports = {}

ASSUME RefsTyped ==
  /\ FileRefs \in [Contents -> SUBSET Supports]
  /\ SecretRefs \in [Contents -> SUBSET Secrets]

ASSUME SentinelsOutside ==
  /\ Absent \notin Contents \cup Values
  /\ NoLimits \in Limits
  /\ NoUid \notin Uids

FileMap   == [Names -> Contents \cup {Absent}]
SecretMap == [Secrets -> Values \cup {Absent}]
LoginMap  == [Registries -> Values \cup {Absent}]

(* What Compute reads of a cadre: files, secrets, limits and login block.  *)
Cadre == [files : FileMap, secrets : SecretMap, limits : Limits, logins : LoginMap]

(* state.State, the record of the last committed pass. *)
Record == [uid     : Uids \cup {NoUid},
           files   : FileMap,
           secrets : SecretMap,
           units   : SUBSET Quadlets,
           natives : SUBSET Natives,
           limits  : Limits,
           logins  : LoginMap]

EmptyRecord == [uid     |-> NoUid,
                files   |-> [n \in Names |-> Absent],
                secrets |-> [k \in Secrets |-> Absent],
                units   |-> {},
                natives |-> {},
                limits  |-> NoLimits,
                logins  |-> [r \in Registries |-> Absent]]

(* fileset.ShouldEnable: an activator always, a .service iff [Install]. *)
ShouldEnable(n, content) == n \in Activators \/ (n \in Services /\ content \in Installs)

Present(c)    == {n \in Names : c.files[n] # Absent}
QuadletsOf(c) == Quadlets \cap Present(c)
NativesOf(c)  == {n \in Natives \cap Present(c) : ShouldEnable(n, c.files[n])}

-----------------------------------------------------------------------------
(* The parts of Compute(c, prior). *)

Written(c, prior) == {n \in Present(c) : prior.files[n] # c.files[n]}

Removed(c, prior) == {n \in Names \ Present(c) : prior.files[n] # Absent}

(* First enabled with unchanged content: a legacy .service that an older   *)
(* version put in the Quadlet directory; it is written again.              *)
Replaced(c, prior) == {n \in NativesOf(c) \ prior.natives : prior.files[n] = c.files[n]}

Created(c, prior) == {k \in Secrets : c.secrets[k] # Absent /\ prior.secrets[k] # c.secrets[k]}

Dropped(c, prior) == {k \in Secrets : c.secrets[k] = Absent /\ prior.secrets[k] # Absent}

OrphanNever(c, changed) == FALSE    \* mutant of OrphanChanged

(* orphanChanged: a changed support file that no Quadlet unit names. *)
OrphanChanged(c, changed) ==
  changed \ UNION {FileRefs[c.files[u]] : u \in QuadletsOf(c)} # {}

(* Left the desired set, or stayed in it without its [Install] section. *)
Disabled(c, prior) == prior.natives \ NativesOf(c)

(* Mutants of Restarted: a removed support file is not looked for; every   *)
(* kept unit is restarted when any file changed.                           *)
RestartedForgetsRemoved(c, prior) ==
  LET changed == Written(c, prior) \cap Supports
  IN  {u \in QuadletsOf(c) \cap prior.units :
         \/ u \in Written(c, prior)
         \/ FileRefs[c.files[u]] \cap changed # {}
         \/ SecretRefs[c.files[u]] \cap Created(c, prior) # {}
         \/ OrphanChanged(c, changed)}

RestartedAll(c, prior) ==
  {u \in QuadletsOf(c) \cap prior.units : Written(c, prior) # {}}

(* Quadlet units to restart: own text, a named support file (removed ones  *)
(* included) or a named secret differs, or an orphan support file does.    *)
Restarted(c, prior) ==
  LET changed == Written(c, prior) \cap Supports
  IN  {u \in QuadletsOf(c) \cap prior.units :
         \/ u \in Written(c, prior)
         \/ FileRefs[c.files[u]] \cap (changed \cup Removed(c, prior)) # {}
         \/ SecretRefs[c.files[u]] \cap Created(c, prior) # {}
         \/ OrphanChanged(c, changed)}

RestartedNatives(c, prior) ==
  {n \in NativesOf(c) \cap prior.natives :
     n \in Written(c, prior) \/ OrphanChanged(c, Written(c, prior) \cap Supports)}

Singleton(condition, x) == IF condition THEN {x} ELSE {}

(* A plan: one set of pending items per kind of step.  The login block is  *)
(* not part of plan.Plan; Apply decides about it when it holds the plan.   *)
Plan == [limits : SUBSET Limits, stop : SUBSET Quadlets, disable : SUBSET Natives,
         write : SUBSET Names, remove : SUBSET Names,
         create : SUBSET Secrets, drop : SUBSET Secrets, login : SUBSET Registries,
         reload : SUBSET {"reload"}, start : SUBSET Quadlets, restart : SUBSET Quadlets,
         enable : SUBSET Natives, restartNative : SUBSET Natives]

EmptyPlan == [limits |-> {}, stop |-> {}, disable |-> {}, write |-> {}, remove |-> {},
              create |-> {}, drop |-> {}, login |-> {}, reload |-> {}, start |-> {},
              restart |-> {}, enable |-> {}, restartNative |-> {}]

ReloadDue(c, prior) ==
  \/ (Written(c, prior) \cup Removed(c, prior)) \cap Units # {}
  \/ Replaced(c, prior) # {}
  \/ Disabled(c, prior) # {}

Compute(c, prior) ==
  [limits        |-> Singleton(c.limits # prior.limits, c.limits),
   stop          |-> prior.units \ QuadletsOf(c),
   disable       |-> Disabled(c, prior),
   write         |-> Written(c, prior) \cup Replaced(c, prior),
   remove        |-> Removed(c, prior),
   create        |-> Created(c, prior),
   drop          |-> Dropped(c, prior),
   login         |-> {},
   reload        |-> Singleton(ReloadDue(c, prior), "reload"),
   start         |-> QuadletsOf(c) \ prior.units,
   restart       |-> Restarted(c, prior),
   enable        |-> NativesOf(c) \ prior.natives,
   restartNative |-> RestartedNatives(c, prior)]

(* Mutant of NextState: forgets ShouldEnable. *)
NextStateEveryNative(c, u) == [uid     |-> u,
                               files   |-> c.files,
                               secrets |-> c.secrets,
                               units   |-> QuadletsOf(c),
                               natives |-> Natives \cap Present(c),
                               limits  |-> c.limits,
                               logins  |-> c.logins]

(* reconcile.nextState: the record a pass that finished cleanly commits. *)
NextState(c, u) == [uid     |-> u,
                    files   |-> c.files,
                    secrets |-> c.secrets,
                    units   |-> QuadletsOf(c),
                    natives |-> NativesOf(c),
                    limits  |-> c.limits,
                    logins  |-> c.logins]
=============================================================================

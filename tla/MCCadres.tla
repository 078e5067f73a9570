------------------------------ MODULE MCCadres -------------------------------
(* The small world of the TLC runs: two Quadlet units, a timer, a service *)
(* with and without [Install], two support files and a secret.             *)
EXTENDS UserHost, TLC

CONSTANTS
  web, db,              \* Quadlet units
  backup,               \* an activator, backup.timer
  job,                  \* job.service
  env, conf,            \* support files
  cWeb, cDb, cDb2,      \* contents of the units ...
  cTimer, cJob, cJobInstall,
  v1, v2,               \* ... and of the support files
  token,                \* a secret
  pw1, pw2,             \* values of the secret, and registry passwords
  reg, small, uid1, uid2

MCFileRefs   == [c \in Contents |-> IF c = cWeb THEN {env} ELSE {}]
MCSecretRefs == [c \in Contents |-> IF c = cWeb THEN {token} ELSE {}]
MCHidden     == [c \in Contents |-> IF c \in {cDb, cTimer} THEN {conf} ELSE {}]

(* A cadre from the files, the secret, the cap and the password given. *)
Make(files, secret, limits, password) ==
  [files   |-> files @@ [n \in Names |-> Absent],
   secrets |-> token :> secret,
   limits  |-> limits,
   logins  |-> reg :> password]

WebOnly   == Make((web :> cWeb) @@ (env :> v1), pw1, NoLimits, Absent)
NewEnv    == Make((web :> cWeb) @@ (env :> v2), pw2, NoLimits, pw1)
EnvGone   == Make((web :> cWeb) @@ (conf :> v1), pw1, small, pw2)
WithDb    == Make((web :> cWeb) @@ (env :> v1) @@ (db :> cDb) @@ (conf :> v1), pw1, small, pw1)
Db2       == Make((web :> cWeb) @@ (env :> v1) @@ (db :> cDb2) @@ (conf :> v1), pw1, small, pw1)
DbChanged == Make((web :> cWeb) @@ (env :> v1) @@ (db :> cDb) @@ (conf :> v2), pw1, small, pw2)
Timed     == Make((backup :> cTimer) @@ (job :> cJob) @@ (conf :> v1), Absent, NoLimits, Absent)
TimedConf == Make((backup :> cTimer) @@ (job :> cJobInstall) @@ (conf :> v2), Absent, NoLimits, Absent)
JobOnly   == Make((job :> cJobInstall) @@ (db :> cDb2), Absent, small, Absent)
NoToken   == Make((web :> cWeb) @@ (env :> v1), Absent, NoLimits, Absent)
JobAndDb  == Make((job :> cJobInstall) @@ (db :> cDb) @@ (conf :> v2), Absent, NoLimits, Absent)

(* Few cadres with dropped units and natives, for the temporal runs. *)
Dropping == {WebOnly, WithDb, Timed, TimedConf}

(* Fewer still, for a cadre that comes and goes. *)
Returning == {WithDb, JobAndDb}

(* Everything; web still names a secret that NoToken does not ship, so it  *)
(* can run on but not start.                                               *)
AnyCadres   == {WebOnly, NewEnv, EnvGone, WithDb, DbChanged, Timed, TimedConf, JobOnly, NoToken}

AllCadres   == {WebOnly, NewEnv, EnvGone, WithDb, DbChanged, Timed, TimedConf, JobOnly}

(* With a cadre where one unit of two changes, and no support file. *)
Changing == AllCadres \cup {Db2}
=============================================================================

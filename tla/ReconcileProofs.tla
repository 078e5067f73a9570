--------------------------- MODULE ReconcileProofs ---------------------------
(***************************************************************************)
(* What holds of reconcile.Apply for every set of files, contents, cadres  *)
(* and every number of failures.                                           *)
(*                                                                         *)
(* The argument is one for all the properties of a host in step with its   *)
(* record: whatever the host lacks is on the list of what there is to do,  *)
(* that of the running pass or that of the one that would begin now.       *)
(***************************************************************************)
EXTENDS Reconcile, TLAPS

-----------------------------------------------------------------------------
(* Types.                                                                  *)

(* A plan computed from a cadre and a record is a plan. *)
LEMMA ComputeType ==
  ASSUME NEW c \in Cadre, NEW prior \in Record
  PROVE  Compute(c, prior) \in Plan
BY DEF Compute, Plan, Cadre, Record, Written, Removed, Replaced, Created, Dropped,
       Disabled, Restarted, RestartedNatives, ReloadDue, Singleton, QuadletsOf,
       NativesOf, Present, Names, Units, Natives, FileMap, SecretMap

LEMMA EmptyRecordType == EmptyRecord \in Record
BY SentinelsOutside DEF EmptyRecord, Record, FileMap, SecretMap, LoginMap

LEMMA EmptyPlanType == EmptyPlan \in Plan
BY DEF EmptyPlan, Plan

(* The record a clean pass commits is a record. *)
LEMMA NextStateType ==
  ASSUME NEW c \in Cadre, NEW u \in Uids \cup {NoUid}
  PROVE  NextState(c, u) \in Record
BY DEF NextState, Record, Cadre, QuadletsOf, NativesOf, Present

(* What a unit reads when it starts from a home of the right type. *)
LEMMA InputsType ==
  ASSUME NEW c \in Contents, NEW files \in [Names -> DiskContents], NEW secrets \in SecretMap
  PROVE  InputsOf(c, files, secrets) \in Inputs
BY DEF InputsOf, Inputs, DiskContents, SecretMap, Names

(* Folding in removals and adding logins keep a plan a plan. *)
LEMMA FoldedType ==
  ASSUME NEW fresh \in Plan, NEW real \in Plan
  PROVE  Folded(fresh, real) \in Plan
BY DEF Folded, Plan

LEMMA WithLoginsType ==
  ASSUME NEW c, NEW p \in Plan
  PROVE  WithLogins(c, p) \in Plan
BY DEF WithLogins, Plan

(* The base of a pass is a record, its plan a plan. *)
LEMMA BaseType == ASSUME TypeOK PROVE Base \in Record
BY EmptyRecordType DEF TypeOK, Base

LEMMA PlanForType ==
  ASSUME TypeOK
  PROVE  PlanFor(desired) \in Plan
<1>1. Compute(desired, Base) \in Plan /\ Compute(desired, record) \in Plan
  BY CadresTyped, BaseType, ComputeType DEF TypeOK
<1>2. DiffPlan(desired) \in Plan
  BY <1>1, FoldedType DEF DiffPlan
<1>. QED
  BY <1>2, WithLoginsType DEF PlanFor

(* The record a pass commits is a record, whatever it retains. *)
LEMMA RetainingType ==
  ASSUME TypeOK, NEW next \in Record
  PROVE  Retaining(next, stopFailed) \in Record
BY DEF Retaining, Record, TypeOK, FileMap, Units

-----------------------------------------------------------------------------
(* The host's commands keep it well typed. *)
LEMMA HostRestartType ==
  ASSUME HostTypeOK, NEW u \in Units, HostRestart(u)
  PROVE  run' \in [Units -> Inputs \cup {Absent}]
BY InputsType DEF HostTypeOK, HostRestart, Startable

LEMMA HostStartType ==
  ASSUME HostTypeOK, NEW u \in Units, HostStart(u)
  PROVE  run' \in [Units -> Inputs \cup {Absent}]
BY HostRestartType DEF HostTypeOK, HostStart

LEMMA HostStopType ==
  ASSUME HostTypeOK, NEW u \in Units, HostStop(u)
  PROVE  run' \in [Units -> Inputs \cup {Absent}]
BY DEF HostTypeOK, HostStop

LEMMA HostReloadType ==
  ASSUME HostTypeOK, HostReload
  PROVE  loaded' \in [Units -> DiskContents]
BY DEF HostTypeOK, HostReload, Names

LEMMA CommandType ==
  ASSUME TypeOK, Step
  PROVE  TypeOK'
<1> USE DEF TypeOK, HostTypeOK, Step, Units, Names, Plan
<1>1. ASSUME NEW l \in Limits, SetLimits(l)
      PROVE  TypeOK'
  <2>1. plan' \in Plan
    BY <1>1 DEF SetLimits
  <2>2. slice' \in [Uids -> Limits]
    BY <1>1 DEF SetLimits
  <2>. QED
    BY <1>1, <2>1, <2>2 DEF SetLimits
<1>2. ASSUME NEW u \in Quadlets, Stop(u)
      PROVE  TypeOK'
  BY <1>2, HostStopType DEF Stop
<1>3. ASSUME NEW u \in Quadlets, StopFails(u)
      PROVE  TypeOK'
  BY <1>3, BoundsTyped DEF StopFails, hostVars
<1>4. ASSUME NEW u \in Quadlets, Start(u)
      PROVE  TypeOK'
  BY <1>4, HostStartType DEF Start
<1>5. ASSUME NEW u \in Quadlets, Restart(u)
      PROVE  TypeOK'
  BY <1>5, HostRestartType DEF Restart
<1>6. ASSUME NEW u \in Natives, Disable(u)
      PROVE  TypeOK'
  BY <1>6, HostStopType, HostReloadType DEF Disable, HostDisable
<1>7. ASSUME NEW u \in Natives, DisableFails(u)
      PROVE  TypeOK'
  BY <1>7, BoundsTyped DEF DisableFails, hostVars
<1>8. ASSUME NEW u \in Natives, Enable(u)
      PROVE  TypeOK'
  BY <1>8, HostStartType, HostReloadType DEF Enable, HostEnable
<1>9. ASSUME NEW u \in Natives, RestartNative(u)
      PROVE  TypeOK'
  BY <1>9, HostRestartType DEF RestartNative
<1>10. ASSUME NEW n \in Names, Write(n)
       PROVE  TypeOK'
  BY <1>10, CadresTyped DEF Write, Cadre, FileMap, DiskContents
<1>11. ASSUME NEW n \in Names, Remove(n)
       PROVE  TypeOK'
  BY <1>11 DEF Remove, DiskContents
<1>12. ASSUME NEW k \in Secrets, CreateSecret(k)
       PROVE  TypeOK'
  BY <1>12, CadresTyped DEF CreateSecret, Cadre, SecretMap
<1>13. ASSUME NEW k \in Secrets, DropSecret(k)
       PROVE  TypeOK'
  BY <1>13 DEF DropSecret, SecretMap
<1>14. ASSUME NEW r \in Registries, Login(r)
       PROVE  TypeOK'
  BY <1>14, CadresTyped DEF Login, Cadre, LoginMap
<1>15. CASE Reload
  BY <1>15, HostReloadType DEF Reload
<1>. QED
  BY <1>1, <1>2, <1>3, <1>4, <1>5, <1>6, <1>7, <1>8, <1>9, <1>10, <1>11, <1>12, <1>13,
     <1>14, <1>15 DEF Command

LEMMA TypeInit == Init => TypeOK
<1> SUFFICES ASSUME Init PROVE TypeOK
  OBVIOUS
<1>1. HostTypeOK
  BY SentinelsOutside DEF Init, HostInit, HostTypeOK, DiskContents, SecretMap, LoginMap
<1>2. aborts \in 0..MaxAborts /\ stopFails \in 0..MaxStopFails /\ deletions \in 0..MaxDeletions
  BY BoundsTyped DEF Init
<1>. QED
  BY <1>1, <1>2, EmptyRecordType, EmptyPlanType DEF Init, TypeOK

LEMMA TypeStep ==
  ASSUME TypeOK, [Next]_vars
  PROVE  TypeOK'
<1>1. CASE EnsureUser
  BY <1>1 DEF EnsureUser, TypeOK, HostTypeOK, passVars, budgetVars
<1>2. CASE Begin
  BY <1>2, PlanForType DEF Begin, TypeOK, HostTypeOK, hostVars, budgetVars
<1>3. CASE Step
  BY <1>3, CommandType
<1>4. CASE Save
  <2>1. NextState(desired, uid) \in Record
    BY CadresTyped, NextStateType DEF TypeOK, HostTypeOK
  <2>2. record' \in Record
    BY <1>4, <2>1, RetainingType DEF Save
  <2>. QED
    BY <1>4, <2>2 DEF Save, TypeOK, HostTypeOK, hostVars, budgetVars
<1>5. CASE Abort
  <2>1. disk' \in [Names -> DiskContents] /\ psecrets' \in SecretMap
    BY <1>5 DEF Abort, TypeOK, HostTypeOK, DiskContents, SecretMap
  <2>2. aborts' \in 0..MaxAborts
    BY <1>5, BoundsTyped DEF Abort, TypeOK
  <2>. QED
    BY <1>5, <2>1, <2>2, EmptyPlanType DEF Abort, TypeOK, HostTypeOK
<1>6. CASE ChangeDesired
  BY <1>6 DEF ChangeDesired, TypeOK, HostTypeOK, hostVars, budgetVars
<1>7. CASE DeleteUser
  BY <1>7, BoundsTyped
  DEF DeleteUser, HostUserGone, TypeOK, HostTypeOK, DiskContents, SecretMap, LoginMap, passVars
<1>8. CASE UNCHANGED vars
  BY <1>8 DEF vars, hostVars, passVars, budgetVars, TypeOK, HostTypeOK
<1>. QED
  BY <1>1, <1>2, <1>3, <1>4, <1>5, <1>6, <1>7, <1>8 DEF Next

(* Every state has the right type. *)
THEOREM TypeCorrect == Spec => []TypeOK
<1>1. TypeOK /\ [Next]_vars => TypeOK'
  BY TypeStep
<1>. QED
  BY <1>1, TypeInit, PTL DEF Spec

-----------------------------------------------------------------------------
(* What there is to do, and the invariants it is part of.                  *)

(* The steps left of the running pass, or else the steps of the pass that  *)
(* would begin now.                                                        *)
Todo == IF busy THEN plan ELSE PlanFor(desired)

(* Plan p has nothing in it that q has not. *)
Within(p, q) ==
  /\ p.limits \subseteq q.limits
  /\ p.stop \subseteq q.stop /\ p.disable \subseteq q.disable
  /\ p.write \subseteq q.write /\ p.remove \subseteq q.remove
  /\ p.create \subseteq q.create /\ p.drop \subseteq q.drop
  /\ p.login \subseteq q.login /\ p.reload \subseteq q.reload
  /\ p.start \subseteq q.start /\ p.restart \subseteq q.restart
  /\ p.enable \subseteq q.enable /\ p.restartNative \subseteq q.restartNative

(* The record names the file of every unit it lists, and lists every       *)
(* Quadlet unit whose file it names.                                       *)
RecordSound ==
  /\ record.uid = NoUid => record = EmptyRecord
  /\ \A u \in record.units \cup record.natives : record.files[u] # Absent
  /\ \A u \in Quadlets : record.files[u] # Absent => u \in record.units

(* What is left of a pass is part of what the record and the cadre called  *)
(* for when it began, and of the Quadlet files it is about to delete every *)
(* unit is stopped, set aside, or still to be stopped.                     *)
PlanSound ==
  /\ ~busy => stopFailed = {}
  /\ busy =>
       /\ uid # NoUid
       /\ Within(plan, PlanFor(desired))
       /\ stopFailed \subseteq record.units \cup record.natives
       /\ \A u \in Quadlets \cap plan.remove :
            u \in plan.stop \/ u \in stopFailed \/ run[u] = Absent

(* An unwanted unit that runs is to be stopped, or was set aside. *)
StopsFollow ==
  \A u \in Units \ Wanted : run[u] # Absent =>
    u \in Todo.stop \cup Todo.disable \cup stopFailed

(* The cadre a pass has just recorded is the one the operator still wants. *)
WantedRecorded ==
  committed /\ ~busy => Wanted \subseteq record.units \cup record.natives

(* A file that is not as wanted is to be written or removed, or it is kept *)
(* for a unit that was set aside.                                          *)
FilesFollow ==
  \A n \in Names : disk[n] # desired.files[n] =>
    \/ n \in Todo.write \cup Todo.remove
    \/ n \in stopFailed /\ desired.files[n] = Absent

(* A wanted secret that podman has not is to be created. *)
SecretsReady ==
  \A k \in Secrets : desired.secrets[k] # Absent /\ psecrets[k] # desired.secrets[k]
                       => k \in Todo.create

(* ... and one that podman has and is not wanted is to be dropped. *)
SecretsFollow ==
  \A k \in Secrets : psecrets[k] # desired.secrets[k] => k \in Todo.create \cup Todo.drop

(* While the user manager has not read every unit file a reload is due.    *)
LoadsFollow ==
  /\ \A u \in Units : loaded[u] # disk[u] => Todo.reload # {}
  /\ (Todo.write \cup Todo.remove) \cap Units # {} => Todo.reload # {}

(* A wanted unit that does not run on the wanted inputs is to be started   *)
(* or restarted.                                                           *)
RunsFollow ==
  \A u \in Wanted :
    \/ Fresh(u, desired.files, desired.secrets)
    \/ run[u] = Absent /\ u \in Todo.start \cup Todo.enable
    \/ u \in Todo.restart \cup Todo.restartNative

EnabledFollow ==
  /\ \A n \in Natives \ NativesOf(desired) : n \in enabled => n \in Todo.disable \cup stopFailed
  /\ \A n \in NativesOf(desired) : n \in enabled \cup Todo.enable

LoginsFollow ==
  \A r \in Registries :
    desired.logins[r] # Absent /\ auth[r] # desired.logins[r] => r \in Todo.login

(* The cap of the user there is; and what the uids carry whose user the    *)
(* next one replaces, for the first two users.                             *)
CapsFollow ==
  /\ uid # NoUid => \/ slice[uid] = desired.limits \/ Todo.limits # {}
                    \/ desired.limits = NoLimits /\ deletions > 1
  /\ deletions = 0 => /\ record.uid \in {NoUid, uid}
                      /\ \A u \in Uids \ {uid} : slice[u] = NoLimits
  /\ deletions = 0 /\ record.uid = NoUid /\ uid # NoUid => slice[uid] \in {NoLimits, desired.limits}
  /\ deletions = 1 /\ uid = NoUid =>
       \A u \in Uids \ {record.uid} :
         slice[u] = NoLimits \/ (record.uid = NoUid /\ slice[u] = desired.limits)

-----------------------------------------------------------------------------
(* What one command does to the pass.                                      *)

(* Only a running pass issues commands. *)
LEMMA StepBusy == Step => busy
BY DEF Step, Command, SetLimits, Stop, StopFails, Start, Restart, Disable, DisableFails,
       Enable, RestartNative, Write, Remove, CreateSecret, DropSecret, Login, Reload, AtNative,
       AtEnable, AtRestart, AtStart, AtReload, AtLogin, AtDrop, AtCreate, AtRemove, AtWrite, AtStop

(* A command takes items off the plan and puts none on; the units it sets  *)
(* aside were to be stopped or disabled; it touches neither the record nor *)
(* the cadre nor the uid.                                                  *)
LEMMA StepShrinks ==
  ASSUME TypeOK, Step
  PROVE  /\ Within(plan', plan)
         /\ stopFailed \subseteq stopFailed'
         /\ stopFailed' \subseteq stopFailed \cup plan.stop \cup plan.disable
         /\ UNCHANGED <<uid, record, desired, busy, committed, deletions>>
<1> USE DEF TypeOK, Plan, Step, Within
<1>1. CASE \E l \in Limits : SetLimits(l)
  BY <1>1 DEF SetLimits
<1>2. CASE \E u \in Quadlets : Stop(u) \/ StopFails(u)
  BY <1>2 DEF Stop, StopFails, hostVars
<1>3. CASE \E u \in Quadlets : Start(u) \/ Restart(u)
  BY <1>3 DEF Start, Restart
<1>4. CASE \E u \in Natives : Disable(u) \/ DisableFails(u)
  BY <1>4 DEF Disable, DisableFails, hostVars
<1>5. CASE \E u \in Natives : Enable(u) \/ RestartNative(u)
  BY <1>5 DEF Enable, RestartNative
<1>6. CASE \E n \in Names : Write(n) \/ Remove(n)
  BY <1>6 DEF Write, Remove
<1>7. CASE \E k \in Secrets : CreateSecret(k) \/ DropSecret(k)
  BY <1>7 DEF CreateSecret, DropSecret
<1>8. CASE \E r \in Registries : Login(r)
  BY <1>8 DEF Login
<1>9. CASE Reload
  BY <1>9 DEF Reload
<1>. QED
  BY <1>1, <1>2, <1>3, <1>4, <1>5, <1>6, <1>7, <1>8, <1>9 DEF Command

(* What a command does to a file or a secret: it puts there what the       *)
(* operator wants of one that was due, and takes that one off the plan.    *)
LEMMA StepWrites ==
  ASSUME TypeOK, Step
  PROVE  /\ \A n \in Names :
              \/ disk'[n] = disk[n]
                 /\ (n \in plan.write => n \in plan'.write)
                 /\ (n \in plan.remove => n \in plan'.remove \/ n \in stopFailed)
              \/ n \in plan.write /\ disk'[n] = desired.files[n]
              \/ n \in plan.remove /\ disk'[n] = Absent /\ n \notin stopFailed
                 /\ plan.stop = {} /\ plan.disable = {}
         /\ \A k \in Secrets :
              \/ psecrets'[k] = psecrets[k]
                 /\ (k \in plan.create \cup plan.drop => k \in plan'.create \cup plan'.drop)
              \/ k \in plan.create /\ psecrets'[k] = desired.secrets[k]
              \/ k \in plan.drop /\ psecrets'[k] = Absent
<1> USE DEF TypeOK, HostTypeOK, Plan, Step
<1>1. ASSUME NEW l \in Limits, SetLimits(l)
      PROVE  UNCHANGED <<plan.write, plan.remove, plan.create, plan.drop, disk, psecrets>>
  BY <1>1 DEF SetLimits
<1>2. CASE \E u \in Quadlets : Stop(u) \/ StopFails(u) \/ Start(u) \/ Restart(u)
  BY <1>2 DEF Stop, StopFails, Start, Restart, hostVars
<1>3. CASE \E u \in Natives : Disable(u) \/ DisableFails(u) \/ Enable(u) \/ RestartNative(u)
  BY <1>3 DEF Disable, DisableFails, Enable, RestartNative, hostVars
<1>4. CASE \E n \in Names : Write(n)
  BY <1>4 DEF Write
<1>5. CASE \E n \in Names : Remove(n)
  BY <1>5 DEF Remove, AtRemove, AtWrite
<1>6. CASE \E k \in Secrets : CreateSecret(k)
  BY <1>6 DEF CreateSecret, SecretMap
<1>7. CASE \E k \in Secrets : DropSecret(k)
  BY <1>7 DEF DropSecret, SecretMap
<1>8. CASE \E r \in Registries : Login(r)
  BY <1>8 DEF Login
<1>9. CASE Reload
  BY <1>9 DEF Reload
<1>. QED
  BY <1>1, <1>2, <1>3, <1>4, <1>5, <1>6, <1>7, <1>8, <1>9 DEF Command

(* What a command does to what the user manager has read: nothing, or it   *)
(* has read everything.                                                    *)
LEMMA StepLoads ==
  ASSUME TypeOK, Step
  PROVE  \/ UNCHANGED <<loaded, plan.reload>>
         \/ /\ \A u \in Units : loaded'[u] = disk'[u]
            /\ UNCHANGED disk
            /\ plan'.reload = plan.reload \/ (plan.write = {} /\ plan.remove = {})
<1> USE DEF TypeOK, HostTypeOK, Plan, Step
<1>1. CASE \E l \in Limits : SetLimits(l)
  BY <1>1 DEF SetLimits
<1>2. CASE \E u \in Quadlets : Stop(u) \/ StopFails(u) \/ Start(u) \/ Restart(u)
  BY <1>2 DEF Stop, StopFails, Start, Restart, hostVars
<1>3. CASE \E u \in Natives : DisableFails(u) \/ RestartNative(u)
  BY <1>3 DEF DisableFails, RestartNative, hostVars
<1>4. CASE \E u \in Natives : Disable(u) \/ Enable(u)
  BY <1>4 DEF Disable, HostDisable, Enable, HostEnable, HostReload
<1>5. CASE \E n \in Names : Write(n) \/ Remove(n)
  BY <1>5 DEF Write, Remove
<1>6. CASE \E k \in Secrets : CreateSecret(k) \/ DropSecret(k)
  BY <1>6 DEF CreateSecret, DropSecret
<1>7. CASE \E r \in Registries : Login(r)
  BY <1>7 DEF Login
<1>8. CASE Reload
  BY <1>8 DEF Reload, HostReload, AtReload, AtLogin, AtDrop, AtCreate, AtRemove
<1>. QED
  BY <1>1, <1>2, <1>3, <1>4, <1>5, <1>6, <1>7, <1>8 DEF Command

(* The stages that start units: what they rest on is done. *)
Settled == plan.write = {} /\ plan.remove = {} /\ plan.create = {} /\ plan.reload = {}

LEMMA Settling == AtStart \/ AtRestart \/ AtEnable \/ AtNative => Settled
BY DEF Settled, AtNative, AtEnable, AtRestart, AtStart, AtReload, AtLogin, AtDrop, AtCreate,
       AtRemove

(* What a command does to a unit: nothing; or it stops one that was to be  *)
(* stopped; or it finds active one that was to be started; or it starts    *)
(* one on what is there.                                                   *)
Keeps(u) ==
  /\ run'[u] = run[u]
  /\ u \in plan.start \cup plan.enable => u \in plan'.start \cup plan'.enable
  /\ u \in plan.restart \cup plan.restartNative => u \in plan'.restart \cup plan'.restartNative

Downs(u) == run'[u] = Absent /\ u \in plan.stop \cup plan.disable

Finds(u) ==
  /\ run'[u] = run[u] /\ run[u] # Absent
  /\ u \in plan.start \cup plan.enable
  /\ u \in plan.restart \cup plan.restartNative => u \in plan'.restart \cup plan'.restartNative

Ups(u) ==
  /\ \/ u \in plan.start \ plan'.start
     \/ u \in plan.restart \ plan'.restart
     \/ u \in plan.enable \cup plan.restartNative
  /\ Settled /\ UNCHANGED <<disk, psecrets>>
  /\ loaded[u] \in Contents
  /\ run'[u] = InputsOf(loaded[u], disk, psecrets)

LEMMA StepRuns ==
  ASSUME TypeOK, Step, NEW u \in Units
  PROVE  Keeps(u) \/ Downs(u) \/ Finds(u) \/ Ups(u)
<1> USE DEF TypeOK, HostTypeOK, Plan, Step
<1>0. Quadlets \cap Natives = {}
  BY ClassesDisjoint DEF Natives
<1>1. CASE \E l \in Limits : SetLimits(l)
  BY <1>1 DEF SetLimits, Keeps
<1>2. CASE \E q \in Quadlets : Stop(q)
  BY <1>2 DEF Stop, HostStop, Keeps, Downs, Units
<1>3. CASE \E q \in Quadlets : StopFails(q)
  BY <1>3 DEF StopFails, hostVars, Keeps
<1>4. ASSUME NEW q \in Quadlets, Start(q)
      PROVE  Keeps(u) \/ Finds(u) \/ Ups(u)
  <2>1. CASE u # q
    BY <1>4, <2>1 DEF Start, HostStart, HostRestart, Keeps, Units
  <2>2. CASE u = q /\ run[u] # Absent
    BY <1>4, <2>2 DEF Start, HostStart, Finds, Units
  <2>3. CASE u = q /\ run[u] = Absent
    BY <1>4, <2>3, Settling DEF Start, HostStart, HostRestart, Startable, Ups, Units
  <2>. QED
    BY <2>1, <2>2, <2>3
<1>5. ASSUME NEW q \in Quadlets, Restart(q)
      PROVE  Keeps(u) \/ Ups(u)
  BY <1>5, Settling DEF Restart, HostRestart, Startable, Keeps, Ups, Units
<1>6. CASE \E n \in Natives : Disable(n)
  BY <1>6 DEF Disable, HostDisable, HostStop, Keeps, Downs, Units
<1>7. CASE \E n \in Natives : DisableFails(n)
  BY <1>7 DEF DisableFails, hostVars, Keeps
<1>8. ASSUME NEW n \in Natives, Enable(n)
      PROVE  Keeps(u) \/ Finds(u) \/ Ups(u)
  <2>1. CASE u # n
    BY <1>8, <2>1 DEF Enable, HostEnable, HostStart, HostRestart, Keeps, Units
  <2>2. CASE u = n /\ run[u] # Absent
    BY <1>8, <2>2 DEF Enable, HostEnable, HostStart, Finds, Units
  <2>3. CASE u = n /\ run[u] = Absent
    BY <1>8, <2>3, Settling DEF Enable, HostEnable, HostStart, HostRestart, Startable, Ups, Units
  <2>. QED
    BY <2>1, <2>2, <2>3
<1>9. ASSUME NEW n \in Natives, RestartNative(n)
      PROVE  Keeps(u) \/ Ups(u)
  BY <1>9, Settling DEF RestartNative, HostRestart, Startable, Keeps, Ups, Units
<1>10. CASE \E n \in Names : Write(n) \/ Remove(n)
  BY <1>10 DEF Write, Remove, Keeps
<1>11. CASE \E k \in Secrets : CreateSecret(k) \/ DropSecret(k)
  BY <1>11 DEF CreateSecret, DropSecret, Keeps
<1>12. CASE \E r \in Registries : Login(r)
  BY <1>12 DEF Login, Keeps
<1>13. CASE Reload
  BY <1>13 DEF Reload, Keeps
<1>. QED
  BY <1>1, <1>2, <1>3, <1>4, <1>5, <1>6, <1>7, <1>8, <1>9, <1>10, <1>11, <1>12, <1>13
  DEF Command

(* A unit leaves the stop and disable lists stopped or set aside, and a    *)
(* native leaves the disable and enable lists disabled and enabled.        *)
Leaves(u) ==
  /\ u \in plan.stop \cup plan.disable =>
       u \in plan'.stop \cup plan'.disable \cup stopFailed' \/ run'[u] = Absent
  /\ u \in plan.stop => u \in plan'.stop \cup stopFailed' \/ run'[u] = Absent
  /\ u \in plan.disable => u \in plan'.disable \cup stopFailed' \/ u \notin enabled'
  /\ u \in plan.enable => u \in plan'.enable \cup enabled'
  /\ u \in enabled' => u \in enabled \cup plan.enable
  /\ u \in enabled => u \in enabled' \cup plan.disable

LEMMA StepStops == ASSUME TypeOK, Step, NEW u \in Units PROVE Leaves(u)
<1> USE DEF TypeOK, HostTypeOK, Plan, Step
<1>0. Quadlets \cap Natives = {}
  BY ClassesDisjoint DEF Natives
<1>1. CASE \E l \in Limits : SetLimits(l)
  BY <1>1 DEF Leaves, SetLimits
<1>2. CASE \E q \in Quadlets : Stop(q)
  BY <1>0, <1>2 DEF Leaves, Stop, HostStop, Units
<1>3. CASE \E q \in Quadlets : StopFails(q)
  BY <1>3 DEF Leaves, StopFails, hostVars
<1>4. CASE \E q \in Quadlets : Start(q) \/ Restart(q)
  BY <1>4 DEF Leaves, Start, Restart
<1>5. CASE \E n \in Natives : Disable(n)
  BY <1>0, <1>5 DEF Leaves, Disable, HostDisable, HostStop, Units
<1>6. CASE \E n \in Natives : DisableFails(n)
  BY <1>6 DEF Leaves, DisableFails, hostVars
<1>7. CASE \E n \in Natives : Enable(n)
  BY <1>7 DEF Leaves, Enable, HostEnable
<1>8. CASE \E n \in Natives : RestartNative(n)
  BY <1>8 DEF Leaves, RestartNative
<1>9. CASE \E n \in Names : Write(n) \/ Remove(n)
  BY <1>9 DEF Leaves, Write, Remove
<1>10. CASE \E k \in Secrets : CreateSecret(k) \/ DropSecret(k)
  BY <1>10 DEF Leaves, CreateSecret, DropSecret
<1>11. CASE \E r \in Registries : Login(r)
  BY <1>11 DEF Leaves, Login
<1>12. CASE Reload
  BY <1>12 DEF Leaves, Reload
<1>. QED
  BY <1>1, <1>2, <1>3, <1>4, <1>5, <1>6, <1>7, <1>8, <1>9, <1>10, <1>11, <1>12 DEF Command

(* What a command does to the caps and the logins. *)
LEMMA StepCaps ==
  ASSUME TypeOK, Step
  PROVE  /\ \/ UNCHANGED <<slice, plan.limits>>
            \/ \E l \in plan.limits : slice' = [slice EXCEPT ![uid] = l]
         /\ \A r \in Registries :
              \/ auth'[r] = auth[r] /\ (r \in plan.login => r \in plan'.login)
              \/ auth'[r] = desired.logins[r]
<1> USE DEF TypeOK, HostTypeOK, Plan, Step
<1>1. CASE \E l \in Limits : SetLimits(l)
  BY <1>1 DEF SetLimits
<1>2. CASE \E u \in Quadlets : Stop(u) \/ StopFails(u) \/ Start(u) \/ Restart(u)
  BY <1>2 DEF Stop, StopFails, Start, Restart, hostVars
<1>3. CASE \E u \in Natives : Disable(u) \/ DisableFails(u) \/ Enable(u) \/ RestartNative(u)
  BY <1>3 DEF Disable, DisableFails, Enable, RestartNative, hostVars
<1>4. CASE \E n \in Names : Write(n) \/ Remove(n)
  BY <1>4 DEF Write, Remove
<1>5. CASE \E k \in Secrets : CreateSecret(k) \/ DropSecret(k)
  BY <1>5 DEF CreateSecret, DropSecret
<1>6. CASE \E r \in Registries : Login(r)
  BY <1>6 DEF Login, LoginMap
<1>7. CASE Reload
  BY <1>7 DEF Reload
<1>. QED
  BY <1>1, <1>2, <1>3, <1>4, <1>5, <1>6, <1>7 DEF Command

-----------------------------------------------------------------------------
(* What there is to do, action by action.                                  *)

(* The parts of the plan of a pass. *)
PlanParts ==
  LET p == PlanFor(desired)
  IN  /\ p \in Plan
      /\ p.limits = Singleton(desired.limits # Base.limits, desired.limits)
      /\ p.stop = record.units \ QuadletsOf(desired)
      /\ p.disable = record.natives \ NativesOf(desired)
      /\ p.write = Written(desired, Base) \cup Replaced(desired, Base)
      /\ p.remove = Removed(desired, record)
      /\ p.create = Created(desired, Base)
      /\ p.drop = Dropped(desired, Base)
      /\ p.login = {r \in Registries : desired.logins[r] # Absent /\ LoginDue(desired, DiffPlan(desired))}
      /\ (p.write \cup p.remove) \cap Units # {} => p.reload # {}
      /\ p.start = QuadletsOf(desired) \ Base.units
      /\ p.restart = Restarted(desired, Base)
      /\ p.enable = NativesOf(desired) \ Base.natives
      /\ p.restartNative = RestartedNatives(desired, Base)

LEMMA PlanForParts == TypeOK => PlanParts
<1> SUFFICES ASSUME TypeOK PROVE PlanParts
  OBVIOUS
<1> DEFINE real  == Compute(desired, record)
           fresh == Compute(desired, Base)
           d     == DiffPlan(desired)
           p     == PlanFor(desired)
<1>1. real \in Plan /\ fresh \in Plan
  BY CadresTyped, BaseType, ComputeType DEF TypeOK
<1>2. /\ real.stop = record.units \ QuadletsOf(desired)
      /\ real.disable = record.natives \ NativesOf(desired)
      /\ real.remove = Removed(desired, record)
      /\ real.remove \cap Units # {} => real.reload # {}
  BY DEF Compute, Disabled, ReloadDue, Singleton
<1>3. /\ fresh.limits = Singleton(desired.limits # Base.limits, desired.limits)
      /\ fresh.write = Written(desired, Base) \cup Replaced(desired, Base)
      /\ fresh.create = Created(desired, Base)
      /\ fresh.drop = Dropped(desired, Base)
      /\ fresh.start = QuadletsOf(desired) \ Base.units
      /\ fresh.restart = Restarted(desired, Base)
      /\ fresh.enable = NativesOf(desired) \ Base.natives
      /\ fresh.restartNative = RestartedNatives(desired, Base)
      /\ fresh.write \cap Units # {} => fresh.reload # {}
  BY DEF Compute, ReloadDue, Singleton, Replaced
<1>4. /\ d \in Plan
      /\ d.stop = real.stop /\ d.disable = real.disable /\ d.remove = real.remove
      /\ d.limits = fresh.limits /\ d.write = fresh.write /\ d.create = fresh.create
      /\ d.drop = fresh.drop /\ d.start = fresh.start /\ d.restart = fresh.restart
      /\ d.enable = fresh.enable /\ d.restartNative = fresh.restartNative
      /\ (d.write \cup d.remove) \cap Units # {} => d.reload # {}
  <2>1. CASE UidChanged
    BY <1>1, <1>2, <1>3, <2>1 DEF DiffPlan, Folded, Plan
  <2>2. CASE ~UidChanged
    BY <1>1, <1>2, <1>3, <2>2 DEF DiffPlan, Base
  <2>. QED
    BY <2>1, <2>2
<1>5. /\ p \in Plan
      /\ p.limits = d.limits /\ p.stop = d.stop /\ p.disable = d.disable
      /\ p.write = d.write /\ p.remove = d.remove /\ p.create = d.create /\ p.drop = d.drop
      /\ p.reload = d.reload /\ p.start = d.start /\ p.restart = d.restart
      /\ p.enable = d.enable /\ p.restartNative = d.restartNative
      /\ p.login = {r \in Registries : desired.logins[r] # Absent /\ LoginDue(desired, d)}
  BY <1>4, WithLoginsType DEF PlanFor, WithLogins, Plan
<1>. QED
  BY <1>2, <1>3, <1>4, <1>5 DEF PlanParts

LEMMA PlanForPartsNext == TypeOK' => PlanParts'
BY PlanForParts, PTL

(* A pass that begins takes over what there was to do; one that is aborted *)
(* leaves no less to the next; one that is not there yet has the same to   *)
(* do for a user that is as new as the one the record does not know.       *)
LEMMA TodoBegin == Begin => Todo' = Todo
BY DEF Begin, Todo

LEMMA TodoStep ==
  ASSUME TypeOK, Step
  PROVE  Todo = plan /\ Todo' = plan' /\ Within(Todo', Todo) /\ Wanted' = Wanted
BY StepBusy, StepShrinks DEF Todo, Wanted

LEMMA TodoAbort ==
  ASSUME PlanSound, Abort
  PROVE  /\ Todo' = PlanFor(desired) /\ Within(Todo, Todo') /\ Todo = plan
         /\ Wanted' = Wanted /\ ~busy' /\ busy /\ stopFailed' = {}
<1>1. PlanFor(desired)' = PlanFor(desired)
  BY DEF Abort, PlanFor, WithLogins, LoginDue, DiffPlan, Base, UidChanged
<1>. QED
  BY <1>1 DEF Abort, PlanSound, Todo, Wanted

LEMMA TodoEnsureUser ==
  ASSUME ~ReuseUid, EnsureUser
  PROVE  Todo' = Todo /\ Base' = Base /\ Wanted' = Wanted /\ ~busy
<1>1. UidChanged' = UidChanged /\ UNCHANGED <<record, desired, busy, plan>> /\ ~busy
  BY SentinelsOutside DEF EnsureUser, UidChanged, passVars
<1>2. Base' = Base
  BY <1>1 DEF Base
<1>3. PlanFor(desired)' = PlanFor(desired)
  BY <1>1, <1>2 DEF PlanFor, WithLogins, LoginDue, DiffPlan
<1>. QED
  BY <1>1, <1>2, <1>3 DEF Todo, Wanted

LEMMA TodoStutter ==
  ASSUME UNCHANGED vars
  PROVE  Todo' = Todo /\ Wanted' = Wanted
BY DEF vars, hostVars, passVars, Todo, PlanFor, WithLogins, LoginDue, DiffPlan, Base, UidChanged,
       Wanted

LEMMA SaveUser ==
  ASSUME PlanSound, Save
  PROVE  /\ busy /\ uid # NoUid /\ stopFailed' = {}
         /\ stopFailed \subseteq record.units \cup record.natives
BY DEF Save, AtSave, AtNative, AtEnable, AtRestart, AtStart, AtReload, AtLogin, AtDrop,
       AtCreate, AtRemove, AtWrite, AtStop, PlanSound

(* A clean pass leaves nothing of its plan; the next works from its record. *)
LEMMA TodoSave ==
  ASSUME TypeOK, Save, uid # NoUid
  PROVE  /\ busy /\ Todo = plan /\ ~busy' /\ Todo' = PlanFor(desired)' /\ Base' = record'
         /\ UNCHANGED <<hostVars, desired>> /\ Wanted' = Wanted
         /\ Settled /\ plan.stop = {} /\ plan.disable = {} /\ plan.limits = {}
         /\ plan.drop = {} /\ plan.login = {} /\ plan.start = {} /\ plan.restart = {}
         /\ plan.enable = {} /\ plan.restartNative = {}
         /\ record'.uid = uid
         /\ record'.files = [n \in Names |-> IF n \in stopFailed /\ record.files[n] # Absent
                                            THEN record.files[n] ELSE desired.files[n]]
         /\ record'.secrets = desired.secrets
         /\ record'.units = QuadletsOf(desired) \cup (stopFailed \cap Quadlets)
         /\ record'.natives = NativesOf(desired) \cup (stopFailed \cap Natives)
         /\ record'.limits = desired.limits /\ record'.logins = desired.logins
<1>1. NextState(desired, uid) \in Record
  BY CadresTyped, NextStateType DEF TypeOK, HostTypeOK
<1>2. /\ record'.uid = uid
      /\ record'.files = [n \in Names |-> IF n \in stopFailed /\ record.files[n] # Absent
                                         THEN record.files[n] ELSE desired.files[n]]
      /\ record'.secrets = desired.secrets
      /\ record'.units = QuadletsOf(desired) \cup (stopFailed \cap Quadlets)
      /\ record'.natives = NativesOf(desired) \cup (stopFailed \cap Natives)
      /\ record'.limits = desired.limits /\ record'.logins = desired.logins
  BY <1>1 DEF Save, Retaining, NextState, Record
<1>3. UNCHANGED <<hostVars, desired>> /\ ~busy'
  BY DEF Save
<1>4. Base' = record'
  BY <1>2, <1>3 DEF Base, UidChanged, hostVars
<1>5. AtSave /\ busy
  BY DEF Save, AtSave, AtNative, AtEnable, AtRestart, AtStart, AtReload, AtLogin, AtDrop,
         AtCreate, AtRemove, AtWrite, AtStop
<1>6. /\ plan.stop = {} /\ plan.disable = {} /\ plan.limits = {}
      /\ plan.drop = {} /\ plan.login = {} /\ plan.start = {} /\ plan.restart = {}
      /\ plan.enable = {} /\ plan.restartNative = {} /\ Settled
  BY <1>5, Settling DEF AtSave, AtNative, AtEnable, AtRestart, AtStart, AtReload, AtLogin, AtDrop,
         AtCreate, AtRemove, AtWrite, AtStop
<1>7. Todo = plan /\ Todo' = PlanFor(desired)' /\ Wanted' = Wanted
  BY <1>3, <1>5 DEF Todo, Wanted
<1>. QED
  BY <1>2, <1>3, <1>4, <1>5, <1>6, <1>7

(* Without the user the next pass starts from nothing. *)
LEMMA TodoDeleteUser ==
  ASSUME RecordSound, DeleteUser
  PROVE  /\ ~busy /\ ~busy' /\ Todo = PlanFor(desired) /\ Todo' = PlanFor(desired)'
         /\ Base' = EmptyRecord /\ UNCHANGED <<desired, record, stopFailed, committed>>
         /\ Wanted' = Wanted
BY DEF DeleteUser, HostUserGone, passVars, Todo, Base, UidChanged, RecordSound, Wanted

(* The record a clean pass commits leaves nothing due. *)
LEMMA NothingDue ==
  ASSUME NEW c \in Cadre, NEW u \in Uids \cup {NoUid}
  PROVE  Compute(c, NextState(c, u)) = EmptyPlan
<1> DEFINE prior == NextState(c, u)
<1>1. Written(c, prior) = {} /\ Removed(c, prior) = {} /\ Created(c, prior) = {}
      /\ Dropped(c, prior) = {}
  BY DEF Written, Removed, Created, Dropped, NextState, Present
<1>2. Replaced(c, prior) = {} /\ Disabled(c, prior) = {}
  BY DEF Replaced, Disabled, NextState
<1>3. ~OrphanChanged(c, Written(c, prior) \cap Supports)
  BY <1>1 DEF OrphanChanged
<1>4. Restarted(c, prior) = {} /\ RestartedNatives(c, prior) = {}
  BY <1>1, <1>3 DEF Restarted, RestartedNatives
<1>5. ~ReloadDue(c, prior)
  BY <1>1, <1>2 DEF ReloadDue
<1>6. prior.units = QuadletsOf(c) /\ prior.natives = NativesOf(c) /\ prior.limits = c.limits
  BY DEF NextState
<1>. QED
  BY <1>1, <1>2, <1>4, <1>5, <1>6 DEF Compute, EmptyPlan, Singleton

LEMMA NothingToDo ==
  ASSUME TypeOK, Recorded
  PROVE  PlanFor(desired) = EmptyPlan
<1>1. record = NextState(desired, uid) /\ record.uid = uid /\ record.logins = desired.logins
  BY DEF Recorded, NextState
<1>2. DiffPlan(desired) = EmptyPlan
  BY <1>1, CadresTyped, NothingDue DEF DiffPlan, Base, UidChanged, TypeOK, HostTypeOK
<1>3. ~LoginDue(desired, EmptyPlan)
  BY <1>1 DEF LoginDue
<1>. QED
  BY <1>2, <1>3 DEF PlanFor, WithLogins, EmptyPlan

(* The operator who waits changes their mind when nothing is to do, and    *)
(* the next pass starts from the cadre that was wanted before.             *)
LEMMA TodoChange ==
  ASSUME TypeOK, ChangeWhen = "converged", ChangeDesired
  PROVE  /\ ~busy /\ ~busy' /\ Recorded /\ Todo = EmptyPlan /\ Todo' = PlanFor(desired)'
         /\ Base' = record /\ record = NextState(desired, uid)
         /\ UNCHANGED <<hostVars, record, stopFailed, deletions>> /\ desired' \in Cadres
<1>1. Recorded /\ ~busy /\ ~busy' /\ UNCHANGED <<hostVars, record, stopFailed, deletions>>
      /\ desired' \in Cadres
  BY DEF ChangeDesired, Converged, budgetVars
<1>2. record = NextState(desired, uid) /\ record.uid = uid
  BY <1>1 DEF Recorded, NextState
<1>3. Base' = record
  BY <1>1, <1>2 DEF Base, UidChanged, hostVars
<1>4. Todo = EmptyPlan /\ Todo' = PlanFor(desired)'
  BY <1>1, NothingToDo DEF Todo
<1>. QED
  BY <1>1, <1>2, <1>3, <1>4

-----------------------------------------------------------------------------
(* No Quadlet file is deleted under a running unit.                        *)

LEMMA SoundInit == Init => RecordSound /\ PlanSound
<1>1. /\ EmptyRecord.units = {} /\ EmptyRecord.natives = {}
      /\ \A n \in Names : EmptyRecord.files[n] = Absent
  BY DEF EmptyRecord
<1>. QED
  BY <1>1 DEF Init, RecordSound, PlanSound, Names, Units

(* A committed record is sound. *)
LEMMA SaveSound ==
  ASSUME TypeOK, RecordSound, PlanSound, Save
  PROVE  RecordSound'
<1>1. busy /\ uid # NoUid /\ stopFailed \subseteq record.units \cup record.natives
  BY SaveUser
<1>2. record'.uid # NoUid
  BY <1>1, TodoSave
<1>3. \A u \in record'.units \cup record'.natives : record'.files[u] # Absent
  BY <1>1, TodoSave DEF RecordSound, QuadletsOf, NativesOf, Present, Names, Units
<1>4. \A u \in Quadlets : record'.files[u] # Absent => u \in record'.units
  BY <1>1, TodoSave DEF QuadletsOf, Present, Names, Units
<1>. QED
  BY <1>2, <1>3, <1>4 DEF RecordSound

(* Of a plan, as it is made, every Quadlet unit whose file goes is stopped. *)
LEMMA BeginSound ==
  ASSUME TypeOK, RecordSound, Begin
  PROVE  PlanSound'
<1>1. plan' = PlanFor(desired) /\ PlanFor(desired)' = PlanFor(desired)
      /\ busy' /\ uid' # NoUid /\ stopFailed' = {}
  BY DEF Begin, hostVars, PlanFor, WithLogins, LoginDue, DiffPlan, Base, UidChanged
<1>2. \A u \in Quadlets \cap PlanFor(desired).remove : u \in PlanFor(desired).stop
  BY PlanForParts DEF PlanParts, Removed, RecordSound, QuadletsOf
<1>. QED
  BY <1>1, <1>2 DEF PlanSound, Within

LEMMA SoundStep ==
  ASSUME TypeOK, RecordSound, PlanSound, [Next]_vars
  PROVE  RecordSound' /\ PlanSound'
<1>1. CASE EnsureUser
  BY <1>1 DEF EnsureUser, RecordSound, PlanSound, passVars
<1>2. CASE Begin
  BY <1>2, BeginSound DEF Begin, RecordSound, hostVars
<1>3. CASE Step
  <2>1. RecordSound' /\ PlanFor(desired)' = PlanFor(desired) /\ busy /\ uid' = uid /\ record' = record
    BY <1>3, StepBusy, StepShrinks
    DEF RecordSound, PlanFor, WithLogins, LoginDue, DiffPlan, Base, UidChanged
  <2>2. ASSUME NEW u \in Quadlets \cap plan'.remove
        PROVE  u \in plan'.stop \/ u \in stopFailed' \/ run'[u] = Absent
    <3>1. u \in Quadlets /\ u \in Units /\ u \in plan.remove
      BY <1>3, StepShrinks DEF Within, Units
    <3>2. CASE u \in plan.stop
      BY <1>3, <3>1, <3>2, StepStops DEF Leaves
    <3>3. CASE u \in stopFailed
      BY <1>3, <3>3, StepShrinks
    <3>4. CASE run[u] = Absent
      BY <1>3, <3>1, <3>4, StepRuns DEF Keeps, Downs, Finds, Ups, Settled
    <3>. QED
      BY <2>1, <3>1, <3>2, <3>3, <3>4 DEF PlanSound
  <2>3. Within(plan', PlanFor(desired))
    BY <1>3, <2>1, StepShrinks DEF PlanSound, Within
  <2>4. stopFailed' \subseteq record.units \cup record.natives
    BY <1>3, <2>1, StepShrinks, PlanForParts DEF PlanSound, Within, PlanParts
  <2>. QED
    BY <1>3, <2>1, <2>2, <2>3, <2>4, StepBusy, StepShrinks DEF PlanSound
<1>4. CASE Save
  BY <1>4, SaveSound DEF Save, PlanSound
<1>5. CASE Abort
  BY <1>5 DEF Abort, RecordSound, PlanSound
<1>6. CASE ChangeDesired
  BY <1>6 DEF ChangeDesired, RecordSound, PlanSound
<1>7. CASE DeleteUser
  BY <1>7 DEF DeleteUser, RecordSound, PlanSound, passVars
<1>8. CASE UNCHANGED vars
  <2>1. PlanFor(desired)' = PlanFor(desired)
    BY <1>8 DEF vars, hostVars, passVars, PlanFor, WithLogins, LoginDue, DiffPlan, Base, UidChanged
  <2>. QED
    BY <1>8, <2>1 DEF vars, hostVars, passVars, RecordSound, PlanSound
<1>. QED
  BY <1>1, <1>2, <1>3, <1>4, <1>5, <1>6, <1>7, <1>8 DEF Next

(* The record and the running plan are sound, whatever fails and whenever  *)
(* the operator changes their mind.                                        *)
THEOREM Soundness == Spec => [](RecordSound /\ PlanSound)
<1>1. TypeOK /\ RecordSound /\ PlanSound /\ [Next]_vars => (RecordSound /\ PlanSound)'
  BY SoundStep
<1>. QED
  BY <1>1, SoundInit, TypeCorrect, PTL DEF Spec

(* A pass deletes a Quadlet unit's file only when the unit does not run,   *)
(* whatever fails, is retried, or changes between passes.                  *)
THEOREM StopsBeforeRemoving == Spec => StopBeforeRemove
<1> DEFINE Removal == \A u \in Quadlets : disk[u] # Absent /\ disk'[u] = Absent => run'[u] = Absent
<1>1. TypeOK /\ RecordSound /\ PlanSound /\ [Next]_vars => [Removal]_vars
  <2> SUFFICES ASSUME TypeOK, RecordSound, PlanSound, [Next]_vars,
                      NEW u \in Quadlets, disk[u] # Absent, disk'[u] = Absent
               PROVE  run'[u] = Absent
    OBVIOUS
  <2>0. u \in Names /\ u \in Units
    BY DEF Names, Units
  <2>1. CASE Step
    <3>1. busy /\ (desired.files[u] # Absent \/ u \notin plan.write)
      BY <2>1, StepBusy, PlanForParts
      DEF PlanSound, Within, PlanParts, Written, Replaced, NativesOf, Present
    <3>2. u \in plan.remove /\ u \notin stopFailed /\ plan.stop = {}
      BY <2>0, <2>1, <3>1, StepWrites
    <3>3. run[u] = Absent
      BY <2>1, <3>2, StepBusy DEF PlanSound
    <3>. QED
      BY <2>0, <2>1, <3>2, <3>3, StepRuns DEF Keeps, Downs, Finds, Ups, Settled
  <2>2. CASE DeleteUser
    BY <2>0, <2>2 DEF DeleteUser, HostUserGone
  <2>3. CASE Abort
    BY <2>0, <2>3, SentinelsOutside, HiddenTyped DEF Abort, TypeOK, HostTypeOK
  <2>4. CASE EnsureUser \/ Begin \/ Save \/ ChangeDesired \/ UNCHANGED vars
    BY <2>4 DEF EnsureUser, Begin, Save, ChangeDesired, vars, hostVars
  <2>. QED
    BY <2>1, <2>2, <2>3, <2>4 DEF Next
<1>. QED
  BY <1>1, TypeCorrect, Soundness, PTL DEF Spec, StopBeforeRemove, Removal

-----------------------------------------------------------------------------
(* Applying an applied cadre again.                                        *)

(* Once the record says what the operator wants, a pass has nothing to do. *)
THEOREM ApplyIdempotent == Spec => []Idempotent
<1>1. TypeOK => Idempotent
  BY NothingToDo DEF Idempotent, Converged
<1>. QED
  BY <1>1, TypeCorrect, PTL

-----------------------------------------------------------------------------
(* No workload is forgotten.                                               *)

LEMMA StopsFollowStep ==
  ASSUME TypeOK, TypeOK', RecordSound, PlanSound, StopsFollow, WantedRecorded, [Next]_vars,
         ChangeWhen # "any"
  PROVE  StopsFollow' /\ WantedRecorded'
<1>0. PlanParts /\ PlanParts'
  BY PlanForParts, PlanForPartsNext
<1>1. CASE EnsureUser
  <2>1. UNCHANGED <<run, desired, record, busy, plan, stopFailed, committed>> /\ ~busy
    BY <1>1 DEF EnsureUser, passVars
  <2>2. Todo = PlanFor(desired) /\ Todo' = PlanFor(desired)' /\ Wanted' = Wanted
    BY <2>1 DEF Todo, Wanted
  <2>3. Todo'.stop = Todo.stop /\ Todo'.disable = Todo.disable
    BY <1>0, <2>1, <2>2 DEF PlanParts
  <2>. QED
    BY <2>1, <2>2, <2>3 DEF StopsFollow, WantedRecorded
<1>2. CASE Begin
  <2>1. UNCHANGED <<run, desired>> /\ stopFailed' = {} /\ stopFailed = {} /\ busy' /\ Wanted' = Wanted
    BY <1>2 DEF Begin, hostVars, PlanSound, Wanted
  <2>. QED
    BY <1>2, <2>1, TodoBegin DEF StopsFollow, WantedRecorded
<1>3. CASE Step
  <2>1. Todo = plan /\ Todo' = plan' /\ Wanted' = Wanted /\ busy /\ busy' = busy
        /\ Within(plan, PlanFor(desired))
    BY <1>3, StepBusy, StepShrinks, TodoStep DEF PlanSound
  <2>2. ASSUME NEW u \in Units \ Wanted, run'[u] # Absent
        PROVE  u \in plan'.stop \cup plan'.disable \cup stopFailed'
    <3>1. u \notin plan.start \cup plan.enable \cup plan.restart \cup plan.restartNative
      BY <1>0, <2>1 DEF Within, PlanParts, Wanted, Restarted, RestartedNatives
    <3>2. Keeps(u)
      BY <1>3, <2>2, <3>1, StepRuns DEF Downs, Finds, Ups
    <3>3. u \in plan.stop \cup plan.disable \cup stopFailed
      BY <2>1, <2>2, <3>2 DEF StopsFollow, Keeps
    <3>. QED
      BY <1>3, <2>2, <3>3, StepStops, StepShrinks DEF Leaves
  <2>. QED
    BY <2>1, <2>2 DEF StopsFollow, WantedRecorded
<1>4. CASE Save
  <2>1. uid # NoUid /\ stopFailed \subseteq record.units \cup record.natives /\ stopFailed' = {}
    BY <1>4, SaveUser
  <2>2. run' = run /\ desired' = desired
    BY <1>4 DEF Save, hostVars
  <2>3. Wanted \subseteq record'.units \cup record'.natives
    BY <1>4, <2>1, TodoSave DEF Wanted
  <2>4. ASSUME NEW u \in Units \ Wanted, run[u] # Absent
        PROVE  u \in Todo'.stop \cup Todo'.disable
    <3>1. u \in stopFailed
      BY <1>4, <2>1, <2>4, TodoSave DEF StopsFollow
    <3>2. u \in record'.units \cup record'.natives
      BY <1>4, <2>1, <2>4, <3>1, TodoSave DEF Units
    <3>. QED
      BY <1>0, <1>4, <2>1, <2>2, <2>4, <3>2, TodoSave DEF PlanParts, Wanted
  <2>. QED
    BY <1>4, <2>1, <2>2, <2>3, <2>4, TodoSave DEF StopsFollow, WantedRecorded
<1>5. CASE Abort
  <2>1. run' = run /\ record' = record /\ committed' = FALSE
    BY <1>5 DEF Abort
  <2>2. stopFailed \subseteq record.units \cup record.natives
    BY <1>5, TodoAbort DEF PlanSound
  <2>3. \A u \in stopFailed \ Wanted : u \in Todo'.stop \cup Todo'.disable
    BY <1>0, <1>5, <2>2, TodoAbort DEF PlanParts, Wanted
  <2>. QED
    BY <1>5, <2>1, <2>3, TodoAbort DEF StopsFollow, Within, WantedRecorded
<1>6. CASE ChangeDesired
  <2>1. /\ UNCHANGED <<run, record, stopFailed, busy>> /\ ~busy /\ ~committed'
        /\ Converged \/ committed
    BY <1>6, PolicyTyped DEF ChangeDesired, hostVars
  <2>2. Todo = PlanFor(desired) /\ Todo' = PlanFor(desired)'
    BY <2>1 DEF Todo
  <2>3. Wanted \subseteq record.units \cup record.natives
    BY <2>1 DEF Converged, Recorded, NextState, Wanted, WantedRecorded
  <2>4. ASSUME NEW u \in Units, run[u] # Absent
        PROVE  u \in record.units \cup record.natives
    BY <1>0, <2>1, <2>2, <2>3, <2>4 DEF StopsFollow, PlanParts, PlanSound
  <2>. QED
    BY <1>0, <2>1, <2>2, <2>4 DEF StopsFollow, WantedRecorded, PlanParts, Wanted
<1>7. CASE DeleteUser
  BY <1>7, TodoDeleteUser DEF DeleteUser, HostUserGone, StopsFollow, WantedRecorded
<1>8. CASE UNCHANGED vars
  BY <1>8, TodoStutter DEF vars, hostVars, passVars, StopsFollow, WantedRecorded
<1>. QED
  BY <1>1, <1>2, <1>3, <1>4, <1>5, <1>6, <1>7, <1>8 DEF Next

LEMMA StopsFollowInit == Init => StopsFollow /\ WantedRecorded
BY DEF Init, HostInit, StopsFollow, WantedRecorded

LEMMA StopsFollowAlways == ChangeWhen # "any" => (Spec => [](StopsFollow /\ WantedRecorded))
<1> SUFFICES ASSUME ChangeWhen # "any"
             PROVE  Spec => [](StopsFollow /\ WantedRecorded)
  OBVIOUS
<1>1. TypeOK /\ TypeOK' /\ RecordSound /\ PlanSound /\ StopsFollow /\ WantedRecorded /\ [Next]_vars
      => (StopsFollow /\ WantedRecorded)'
  BY StopsFollowStep
<1>. QED
  BY <1>1, StopsFollowInit, TypeCorrect, Soundness, PTL DEF Spec

LEMMA UnforgottenState ==
  ASSUME TypeOK, PlanSound, StopsFollow
  PROVE  NothingForgotten
<1>1. ASSUME NEW u \in Units \ Wanted, run[u] # Absent
      PROVE  u \in record.units \cup record.natives
  <2>1. u \in Todo.stop \cup Todo.disable \cup stopFailed
    BY <1>1 DEF StopsFollow
  <2>. QED
    BY <2>1, PlanForParts DEF PlanParts, PlanSound, Within, Todo
<1>. QED
  BY <1>1 DEF NothingForgotten

(* While the operator changes their mind only after a pass has committed,  *)
(* no failed stop, aborted pass or lost user makes a running unit one that *)
(* neither the record nor the operator knows of.                           *)
THEOREM WorkloadsRemembered ==
  ASSUME ChangeWhen # "any"
  PROVE  Spec => []NothingForgotten
<1>1. TypeOK /\ PlanSound /\ StopsFollow => NothingForgotten
  BY UnforgottenState
<1>. QED
  BY <1>1, StopsFollowAlways, TypeCorrect, Soundness, PTL

-----------------------------------------------------------------------------
(* What is recorded has landed.                                            *)

LEMMA FollowInit == 
  Init => FilesFollow /\ SecretsFollow /\ SecretsReady /\ LoadsFollow /\ EnabledFollow
          /\ LoginsFollow /\ RunsFollow
<1> SUFFICES ASSUME Init
             PROVE  FilesFollow /\ SecretsFollow /\ SecretsReady /\ LoadsFollow /\ EnabledFollow
                    /\ LoginsFollow /\ RunsFollow
  OBVIOUS
<1>1. TypeOK /\ PlanParts /\ desired \in Cadre
  BY TypeInit, PlanForParts, CadresTyped DEF TypeOK
<1>2. Todo = PlanFor(desired) /\ Base = EmptyRecord /\ record = EmptyRecord /\ ~UidChanged
  BY DEF Init, Todo, Base, UidChanged, EmptyRecord
<1>3. FilesFollow /\ SecretsFollow /\ SecretsReady
  BY <1>1, <1>2
  DEF Init, HostInit, FilesFollow, SecretsFollow, SecretsReady, PlanParts, Written, Created,
      Present, EmptyRecord
<1>4. LoadsFollow
  BY <1>1, <1>2 DEF Init, HostInit, LoadsFollow, PlanParts, Units, Names
<1>5. EnabledFollow /\ RunsFollow
  BY <1>1, <1>2
  DEF Init, HostInit, EnabledFollow, RunsFollow, PlanParts, EmptyRecord, Wanted, QuadletsOf,
      NativesOf, Units
<1>6. ASSUME NEW r \in Registries, desired.logins[r] # Absent
      PROVE  r \in Todo.login
  BY <1>1, <1>2, <1>6 DEF PlanParts, LoginDue, EmptyRecord
<1>. QED
  BY <1>3, <1>4, <1>5, <1>6 DEF LoginsFollow

LEMMA FilesFollowStep ==
  ASSUME TypeOK, TypeOK', RecordSound, PlanSound, FilesFollow, [Next]_vars,
         ChangeWhen = "converged", ~ReuseUid
  PROVE  FilesFollow'
<1>0. PlanParts /\ PlanParts'
  BY PlanForParts, PlanForPartsNext
<1>1. CASE EnsureUser
  BY <1>1, TodoEnsureUser DEF EnsureUser, passVars, FilesFollow
<1>2. CASE Begin
  BY <1>2, TodoBegin DEF Begin, hostVars, FilesFollow, PlanSound
<1>3. CASE Step
  <2>1. Todo = plan /\ Todo' = plan' /\ desired' = desired /\ stopFailed \subseteq stopFailed'
    BY <1>3, TodoStep, StepShrinks
  <2>2. \A n \in plan.remove : desired.files[n] = Absent
    BY <1>0, <1>3, StepBusy DEF PlanSound, Within, PlanParts, Removed, Present
  <2>. QED
    BY <1>3, <2>1, <2>2, StepWrites DEF FilesFollow
<1>4. CASE Save
  <2>1. uid # NoUid /\ stopFailed \subseteq record.units \cup record.natives /\ disk' = disk
    BY <1>4, SaveUser DEF Save, hostVars
  <2>2. ASSUME NEW n \in Names, disk[n] # desired.files[n]
        PROVE  n \in Removed(desired, record')
    <3>1. n \in stopFailed /\ desired.files[n] = Absent
      BY <1>4, <2>1, <2>2, TodoSave DEF FilesFollow, Settled
    <3>2. record'.files[n] # Absent
      BY <1>4, <2>1, <3>1, TodoSave DEF RecordSound
    <3>. QED
      BY <3>1, <3>2 DEF Removed, Present
  <2>. QED
    BY <1>0, <1>4, <2>1, <2>2, TodoSave DEF FilesFollow, PlanParts
<1>5. CASE Abort
  <2>1. ASSUME NEW n \in stopFailed, desired.files[n] = Absent, n \in Names
        PROVE  n \in PlanFor(desired).remove
    BY <1>0, <1>5, <2>1, TodoAbort DEF PlanParts, Removed, Present, RecordSound, PlanSound
  <2>2. \A n \in Names : disk'[n] = disk[n] \/ n \in plan.write
    BY <1>5 DEF Abort, TypeOK, HostTypeOK
  <2>3. desired' = desired
    BY <1>5 DEF Abort
  <2>. QED
    BY <1>5, <2>1, <2>2, <2>3, TodoAbort DEF FilesFollow, Within
<1>6. CASE ChangeDesired
  <2>1. ASSUME NEW n \in Names
        PROVE  disk'[n] = record.files[n]
    BY <1>6, TodoChange DEF FilesFollow, EmptyPlan, PlanSound, NextState, hostVars
  <2>2. ASSUME NEW n \in Names, record.files[n] # desired'.files[n]
        PROVE  n \in Written(desired', record) \cup Removed(desired', record)
    BY <2>2 DEF Written, Removed, Present
  <2>. QED
    BY <1>0, <1>6, <2>1, <2>2, TodoChange DEF FilesFollow, PlanParts
<1>7. CASE DeleteUser
  BY <1>0, <1>7, TodoDeleteUser
  DEF DeleteUser, HostUserGone, FilesFollow, PlanParts, Written, Present, EmptyRecord
<1>8. CASE UNCHANGED vars
  BY <1>8, TodoStutter DEF vars, hostVars, passVars, FilesFollow
<1>. QED
  BY <1>1, <1>2, <1>3, <1>4, <1>5, <1>6, <1>7, <1>8 DEF Next

LEMMA SecretsReadyStep ==
  ASSUME TypeOK, TypeOK', RecordSound, PlanSound, SecretsReady, [Next]_vars,
         ChangeWhen = "converged", ~ReuseUid
  PROVE  SecretsReady'
<1>0. PlanParts /\ PlanParts'
  BY PlanForParts, PlanForPartsNext
<1>1. CASE EnsureUser
  BY <1>1, TodoEnsureUser DEF EnsureUser, passVars, SecretsReady
<1>2. CASE Begin
  BY <1>2, TodoBegin DEF Begin, hostVars, SecretsReady
<1>3. CASE Step
  <2>1. Todo = plan /\ Todo' = plan' /\ desired' = desired /\ plan'.drop \subseteq plan.drop
    BY <1>3, TodoStep, StepShrinks DEF Within
  <2>2. \A k \in plan.drop : desired.secrets[k] = Absent
    BY <1>0, <1>3, StepBusy DEF PlanSound, Within, PlanParts, Dropped
  <2>. QED
    BY <1>3, <2>1, <2>2, StepWrites DEF SecretsReady
<1>4. CASE Save
  <2>1. uid # NoUid
    BY <1>4, SaveUser
  <2>. QED
    BY <1>4, <2>1, TodoSave DEF SecretsReady, Settled, hostVars
<1>5. CASE Abort
  <2>1. \A k \in Secrets : psecrets'[k] = psecrets[k] \/ k \in plan.create
    BY <1>5 DEF Abort, TypeOK, HostTypeOK, SecretMap
  <2>. QED
    BY <1>5, <2>1, TodoAbort DEF SecretsReady, Within, Abort
<1>6. CASE ChangeDesired
  <2>1. ASSUME NEW k \in Secrets, record.secrets[k] # Absent
        PROVE  psecrets'[k] = record.secrets[k]
    BY <1>6, <2>1, TodoChange DEF SecretsReady, EmptyPlan, NextState, hostVars
  <2>. QED
    BY <1>0, <1>6, <2>1, TodoChange DEF SecretsReady, PlanParts, Created
<1>7. CASE DeleteUser
  BY <1>0, <1>7, TodoDeleteUser
  DEF DeleteUser, HostUserGone, SecretsReady, PlanParts, Created, EmptyRecord
<1>8. CASE UNCHANGED vars
  BY <1>8, TodoStutter DEF vars, hostVars, passVars, SecretsReady
<1>. QED
  BY <1>1, <1>2, <1>3, <1>4, <1>5, <1>6, <1>7, <1>8 DEF Next

LEMMA SecretsFollowStep ==
  ASSUME TypeOK, TypeOK', RecordSound, PlanSound, SecretsFollow, [Next]_vars,
         ChangeWhen = "converged", ~ReuseUid
  PROVE  SecretsFollow'
<1>0. PlanParts /\ PlanParts'
  BY PlanForParts, PlanForPartsNext
<1>1. CASE EnsureUser
  BY <1>1, TodoEnsureUser DEF EnsureUser, passVars, SecretsFollow
<1>2. CASE Begin
  BY <1>2, TodoBegin DEF Begin, hostVars, SecretsFollow
<1>3. CASE Step
  <2>1. Todo = plan /\ Todo' = plan' /\ desired' = desired
    BY <1>3, TodoStep, StepShrinks
  <2>2. \A k \in plan.drop : desired.secrets[k] = Absent
    BY <1>0, <1>3, StepBusy DEF PlanSound, Within, PlanParts, Dropped
  <2>. QED
    BY <1>3, <2>1, <2>2, StepWrites DEF SecretsFollow
<1>4. CASE Save
  <2>1. uid # NoUid
    BY <1>4, SaveUser
  <2>. QED
    BY <1>4, <2>1, TodoSave DEF SecretsFollow, Settled, hostVars
<1>5. CASE Abort
  <2>1. \A k \in Secrets : psecrets'[k] = psecrets[k] \/ k \in plan.create
    BY <1>5 DEF Abort, TypeOK, HostTypeOK, SecretMap
  <2>. QED
    BY <1>5, <2>1, TodoAbort DEF SecretsFollow, Within, Abort
<1>6. CASE ChangeDesired
  <2>1. ASSUME NEW k \in Secrets
        PROVE  psecrets'[k] = record.secrets[k]
    BY <1>6, TodoChange DEF SecretsFollow, EmptyPlan, NextState, hostVars
  <2>. QED
    BY <1>0, <1>6, <2>1, TodoChange DEF SecretsFollow, PlanParts, Created, Dropped
<1>7. CASE DeleteUser
  BY <1>0, <1>7, TodoDeleteUser
  DEF DeleteUser, HostUserGone, SecretsFollow, PlanParts, Created, EmptyRecord
<1>8. CASE UNCHANGED vars
  BY <1>8, TodoStutter DEF vars, hostVars, passVars, SecretsFollow
<1>. QED
  BY <1>1, <1>2, <1>3, <1>4, <1>5, <1>6, <1>7, <1>8 DEF Next

LEMMA LoadsFollowStep ==
  ASSUME TypeOK, TypeOK', RecordSound, PlanSound, LoadsFollow, [Next]_vars,
         ChangeWhen = "converged", ~ReuseUid
  PROVE  LoadsFollow'
<1>0. PlanParts /\ PlanParts' /\ Units \subseteq Names
  BY PlanForParts, PlanForPartsNext DEF Names
<1>1. CASE EnsureUser
  BY <1>1, TodoEnsureUser DEF EnsureUser, passVars, LoadsFollow
<1>2. CASE Begin
  BY <1>2, TodoBegin DEF Begin, hostVars, LoadsFollow
<1>3. CASE Step
  <2>1. Todo = plan /\ Todo' = plan' /\ Within(plan', plan)
    BY <1>3, TodoStep, StepShrinks
  <2>2. CASE UNCHANGED <<loaded, plan.reload>>
    <3>1. \A u \in Units : disk'[u] = disk[u] \/ u \in plan.write \cup plan.remove
      BY <1>0, <1>3, StepWrites
    <3>. QED
      BY <2>1, <2>2, <3>1 DEF LoadsFollow, Within
  <2>3. CASE /\ \A u \in Units : loaded'[u] = disk'[u]
             /\ UNCHANGED disk
             /\ plan'.reload = plan.reload \/ (plan.write = {} /\ plan.remove = {})
    BY <2>1, <2>3 DEF LoadsFollow, Within
  <2>. QED
    BY <1>3, <2>2, <2>3, StepLoads
<1>4. CASE Save
  <2>1. uid # NoUid
    BY <1>4, SaveUser
  <2>. QED
    BY <1>0, <1>4, <2>1, TodoSave DEF LoadsFollow, PlanParts, Settled, hostVars
<1>5. CASE Abort
  <2>1. \A u \in Units : disk'[u] = disk[u] \/ u \in plan.write
    BY <1>0, <1>5 DEF Abort, TypeOK, HostTypeOK
  <2>2. loaded' = loaded
    BY <1>5 DEF Abort
  <2>3. Todo'.reload # {} \/ \A u \in Units : loaded[u] = disk[u] /\ u \notin plan.write
    BY <1>5, TodoAbort DEF LoadsFollow, Within
  <2>. QED
    BY <1>0, <1>5, <2>1, <2>2, <2>3, TodoAbort DEF LoadsFollow, PlanParts
<1>6. CASE ChangeDesired
  BY <1>0, <1>6, TodoChange DEF LoadsFollow, PlanParts, EmptyPlan, hostVars
<1>7. CASE DeleteUser
  BY <1>0, <1>7, TodoDeleteUser DEF DeleteUser, HostUserGone, LoadsFollow, PlanParts
<1>8. CASE UNCHANGED vars
  BY <1>8, TodoStutter DEF vars, hostVars, passVars, LoadsFollow
<1>. QED
  BY <1>1, <1>2, <1>3, <1>4, <1>5, <1>6, <1>7, <1>8 DEF Next

(* When the operator lets each change be recorded before the next, and a   *)
(* new user never gets the old one's uid, then whatever passes failed and  *)
(* wherever, what the record calls applied is on the disk and in podman.   *)
THEOREM RecordedIsApplied ==
  ASSUME ChangeWhen = "converged", ~ReuseUid
  PROVE  Spec => []FilesLanded
<1>1. /\ TypeOK /\ TypeOK' /\ RecordSound /\ PlanSound /\ FilesFollow /\ SecretsFollow
      /\ [Next]_vars
      => FilesFollow' /\ SecretsFollow'
  BY FilesFollowStep, SecretsFollowStep
<1>2. TypeOK /\ PlanSound /\ FilesFollow /\ SecretsFollow => FilesLanded
  <2> SUFFICES ASSUME TypeOK, PlanSound, FilesFollow, SecretsFollow, Converged
               PROVE  disk = desired.files /\ psecrets = desired.secrets
    BY DEF FilesLanded
  <2>1. Todo = EmptyPlan /\ stopFailed = {}
    BY NothingToDo DEF Converged, Todo, PlanSound
  <2>2. (\A n \in Names : disk[n] = desired.files[n])
        /\ \A k \in Secrets : psecrets[k] = desired.secrets[k]
    BY <2>1 DEF FilesFollow, SecretsFollow, EmptyPlan
  <2>3. disk \in [Names -> DiskContents] /\ psecrets \in SecretMap
        /\ desired.files \in FileMap /\ desired.secrets \in SecretMap
    BY CadresTyped DEF TypeOK, HostTypeOK, Cadre
  <2>. QED
    BY <2>2, <2>3 DEF FileMap, SecretMap
<1>. QED
  BY <1>1, <1>2, FollowInit, TypeCorrect, Soundness, PTL DEF Spec

-----------------------------------------------------------------------------
(* Every wanted unit runs on what is wanted.                               *)

(* A support file that some unit reads without naming it is named by none. *)
(* One unit's naming it would hide a change of it from the coarse restart  *)
(* of the units that only read it.                                         *)
HiddenUnnamed == \A c, d \in Contents : Hidden[c] \cap FileRefs[d] = {}

(* The restart scope: a kept unit that is not to be restarted runs on what *)
(* is wanted now if it runs on what was wanted before.                     *)
LEMMA RestartScope ==
  ASSUME HiddenUnnamed, TypeOK, NEW c \in Cadres, NEW prior \in Record,
         NEW u \in (QuadletsOf(c) \cap prior.units) \cup (NativesOf(c) \cap prior.natives),
         u \notin Restarted(c, prior) \cup RestartedNatives(c, prior),
         Fresh(u, prior.files, prior.secrets)
  PROVE  Fresh(u, c.files, c.secrets)
<1> DEFINE changed == Written(c, prior) \cap Supports
<1>0. /\ c \in Cadre /\ u \in Names /\ c.files[u] \in Contents /\ u \in Present(c)
      /\ u \in Quadlets \/ u \in Natives
  <2>1. c \in Cadre /\ u \in Names /\ u \in Present(c)
    BY CadresTyped DEF QuadletsOf, NativesOf, Present, Names, Units
  <2>. QED
    BY <2>1 DEF Cadre, FileMap, Present, QuadletsOf, NativesOf
<1>1. u \notin Written(c, prior) /\ ~OrphanChanged(c, changed)
  BY DEF Restarted, RestartedNatives
<1>2. prior.files[u] = c.files[u]
  BY <1>0, <1>1 DEF Written
<1>3. ASSUME NEW s \in FileRefs[c.files[u]]
      PROVE  prior.files[s] = c.files[s]
  <2>1. u \in Quadlets
    BY <1>0, <1>3, NativesNameNothing
  <2>2. s \in Supports /\ s \in Names
    BY <1>0, <1>3, RefsTyped DEF Names
  <2>3. u \in QuadletsOf(c) \cap prior.units
    BY <2>1, <1>0, ClassesDisjoint DEF NativesOf, Natives, QuadletsOf
  <2>4. s \notin Written(c, prior) \cup Removed(c, prior)
    BY <1>3, <2>2, <2>3 DEF Restarted
  <2>. QED
    BY <2>2, <2>4 DEF Written, Removed, Present
<1>4. ASSUME NEW k \in SecretRefs[c.files[u]], c.secrets[k] # Absent
      PROVE  run[u].secrets[k] = c.secrets[k]
  <2>1. u \in Quadlets
    BY <1>0, <1>4, NativesNameNothing
  <2>2. k \in Secrets
    BY <1>0, <1>4, RefsTyped
  <2>3. u \in QuadletsOf(c) \cap prior.units
    BY <2>1, <1>0, ClassesDisjoint DEF NativesOf, Natives, QuadletsOf
  <2>4. k \notin Created(c, prior)
    BY <1>4, <2>3 DEF Restarted
  <2>5. prior.secrets[k] = c.secrets[k]
    BY <1>4, <2>2, <2>4 DEF Created
  <2>. QED
    BY <1>2, <1>4, <2>5 DEF Fresh
<1>5. ASSUME NEW s \in Hidden[c.files[u]], c.files[s] # Absent
      PROVE  run[u].files[s] = c.files[s]
  <2>1. s \in Supports /\ s \in Names
    BY <1>0, <1>5, HiddenTyped DEF Names
  <2>2. ASSUME NEW q \in QuadletsOf(c)
        PROVE  s \notin FileRefs[c.files[q]]
    BY <1>0, <1>5 DEF HiddenUnnamed, QuadletsOf, Present, Cadre, FileMap
  <2>3. s \notin Written(c, prior)
    BY <1>1, <2>1, <2>2 DEF OrphanChanged
  <2>4. prior.files[s] = c.files[s]
    BY <1>5, <2>1, <2>3 DEF Written, Present
  <2>. QED
    BY <1>2, <1>5, <2>4 DEF Fresh
<1>. QED
  BY <1>0, <1>2, <1>3, <1>4, <1>5 DEF Fresh

(* A unit that is started when all is in place runs on what is wanted. *)
LEMMA StartedFresh ==
  ASSUME TypeOK, PlanSound, FilesFollow, SecretsReady, LoadsFollow, busy,
         NEW u \in Wanted, Ups(u)
  PROVE  /\ run'[u] # Absent /\ run'[u].unit = desired.files[u]
         /\ \A k \in SecretRefs[desired.files[u]] :
              desired.secrets[k] # Absent => run'[u].secrets[k] = desired.secrets[k]
         /\ \A s \in FileRefs[desired.files[u]] : run'[u].files[s] = desired.files[s]
         /\ \A s \in Hidden[desired.files[u]] : run'[u].files[s] = desired.files[s]
<1> DEFINE c == desired.files[u]
<1>1. u \in Units /\ u \in Names /\ c # Absent
  BY DEF Wanted, QuadletsOf, NativesOf, Present, Names, Units
<1>2. Todo = plan /\ Settled /\ loaded[u] \in Contents
      /\ run'[u] = InputsOf(loaded[u], disk, psecrets)
  BY DEF Todo, Ups
<1>3. loaded[u] = c /\ c \in Contents
  BY <1>1, <1>2 DEF LoadsFollow, FilesFollow, Settled
<1>4. FileRefs[c] \subseteq Supports /\ Hidden[c] \subseteq Supports /\ SecretRefs[c] \subseteq Secrets
  BY <1>3, RefsTyped, HiddenTyped
<1>5. \A s \in Supports : disk[s] = desired.files[s]
  <2>1. Supports \cap Units = {} /\ stopFailed \in SUBSET Units /\ Supports \subseteq Names
    BY ClassesDisjoint DEF Units, Natives, TypeOK, Names
  <2>. QED
    BY <1>2, <2>1 DEF FilesFollow, Settled
<1>6. \A k \in Secrets : desired.secrets[k] # Absent => psecrets[k] = desired.secrets[k]
  BY <1>2 DEF SecretsReady, Settled
<1>7. /\ run'[u].unit = c
      /\ \A s \in FileRefs[c] \cup Hidden[c] : run'[u].files[s] = disk[s]
      /\ \A k \in SecretRefs[c] : run'[u].secrets[k] = psecrets[k]
  BY <1>2, <1>3, <1>4 DEF InputsOf
<1>8. run'[u] # Absent
  BY <1>2, InputsType, AbsentIsNoInput DEF TypeOK, HostTypeOK
<1>. QED
  BY <1>4, <1>5, <1>6, <1>7, <1>8

LEMMA RunsFollowStep ==
  ASSUME TypeOK, TypeOK', RecordSound, PlanSound, StopsFollow, FilesFollow, SecretsReady,
         LoadsFollow, RunsFollow, [Next]_vars,
         ChangeWhen = "converged", ~ReuseUid, HiddenUnnamed
  PROVE  RunsFollow'
<1>0. PlanParts /\ PlanParts' /\ Wanted \subseteq Units
  BY PlanForParts, PlanForPartsNext DEF Wanted, QuadletsOf, NativesOf, Units
<1>1. CASE EnsureUser
  BY <1>1, TodoEnsureUser DEF EnsureUser, passVars, RunsFollow, Fresh
<1>2. CASE Begin
  BY <1>2, TodoBegin DEF Begin, hostVars, RunsFollow, Fresh, Wanted
<1>3. CASE Step
  <2>1. Todo = plan /\ Todo' = plan' /\ desired' = desired /\ Wanted' = Wanted /\ busy
    BY <1>3, TodoStep, StepShrinks, StepBusy
  <2>2. ASSUME NEW u \in Wanted
        PROVE  \/ Fresh(u, desired.files, desired.secrets)'
               \/ run'[u] = Absent /\ u \in plan'.start \cup plan'.enable
               \/ u \in plan'.restart \cup plan'.restartNative
    <3>1. u \in Units
      BY <1>0
    <3>2. u \notin plan.stop \cup plan.disable
      <4>1. u \notin plan.stop
        BY <1>0, <2>1, ClassesDisjoint
        DEF PlanSound, Within, PlanParts, Wanted, NativesOf, Natives, TypeOK, Plan
      <4>2. u \notin plan.disable
        BY <1>0, <2>1, ClassesDisjoint
        DEF PlanSound, Within, PlanParts, Wanted, QuadletsOf, Natives, TypeOK, Plan
      <4>. QED
        BY <4>1, <4>2
    <3>3. CASE Keeps(u) \/ Finds(u)
      BY <2>1, <3>3 DEF Keeps, Finds, RunsFollow, Fresh
    <3>4. CASE Ups(u)
      BY <2>1, <3>4, StartedFresh DEF Fresh
    <3>. QED
      BY <1>3, <3>1, <3>2, <3>3, <3>4, StepRuns DEF Downs
  <2>. QED
    BY <2>1, <2>2 DEF RunsFollow
<1>4. CASE Save
  BY <1>4, SaveUser, TodoSave DEF RunsFollow, Fresh, hostVars
<1>5. CASE Abort
  BY <1>5, TodoAbort DEF RunsFollow, Within, Fresh, Abort
<1>6. CASE ChangeDesired
  <2>1. /\ UNCHANGED <<run, record>> /\ desired' \in Cadres /\ record \in Record
        /\ Todo = EmptyPlan /\ Todo' = PlanFor(desired)' /\ Base' = record
        /\ record = NextState(desired, uid)
    BY <1>6, TodoChange DEF hostVars, TypeOK
  <2>2. /\ record.units = QuadletsOf(desired) /\ record.natives = NativesOf(desired)
        /\ record.files = desired.files /\ record.secrets = desired.secrets
    BY <2>1 DEF NextState
  <2>3. ASSUME NEW u \in Units
        PROVE  IF u \in Wanted THEN Fresh(u, record.files, record.secrets) ELSE run[u] = Absent
    BY <1>6, <2>1, <2>2, <2>3, TodoChange DEF RunsFollow, StopsFollow, EmptyPlan, PlanSound
  <2>4. ASSUME NEW u \in Wanted'
        PROVE  \/ Fresh(u, desired'.files, desired'.secrets)
               \/ run[u] = Absent /\ u \in Todo'.start \cup Todo'.enable
               \/ u \in Todo'.restart \cup Todo'.restartNative
    <3>1. /\ Todo'.start = QuadletsOf(desired') \ record.units
          /\ Todo'.enable = NativesOf(desired') \ record.natives
          /\ Todo'.restart = Restarted(desired', record)
          /\ Todo'.restartNative = RestartedNatives(desired', record)
      BY <1>0, <2>1 DEF PlanParts
    <3>2. u \in Units /\ u \in QuadletsOf(desired') \cup NativesOf(desired')
      BY DEF Wanted, QuadletsOf, NativesOf, Units
    <3>3. CASE u \in (QuadletsOf(desired') \cap record.units)
                       \cup (NativesOf(desired') \cap record.natives)
      <4>1. Fresh(u, record.files, record.secrets)
        BY <2>2, <2>3, <3>2, <3>3 DEF Wanted
      <4>. QED
        BY <2>1, <3>1, <3>3, <4>1, RestartScope
    <3>4. CASE u \notin (QuadletsOf(desired') \cap record.units)
                          \cup (NativesOf(desired') \cap record.natives)
      <4>1. u \notin Wanted
        BY <2>2, <3>2, <3>4, ClassesDisjoint DEF Wanted, QuadletsOf, NativesOf, Natives
      <4>. QED
        BY <2>3, <3>1, <3>2, <3>4, <4>1
    <3>. QED
      BY <3>3, <3>4
  <2>. QED
    BY <2>1, <2>4 DEF RunsFollow, Fresh
<1>7. CASE DeleteUser
  <2>1. \A u \in Units : run'[u] = Absent
    BY <1>7 DEF DeleteUser, HostUserGone
  <2>2. Wanted' \subseteq Todo'.start \cup Todo'.enable
    BY <1>0, <1>7, TodoDeleteUser DEF PlanParts, EmptyRecord, Wanted
  <2>. QED
    BY <1>0, <1>7, <2>1, <2>2, TodoDeleteUser DEF RunsFollow
<1>8. CASE UNCHANGED vars
  BY <1>8, TodoStutter DEF vars, hostVars, passVars, RunsFollow, Fresh
<1>. QED
  BY <1>1, <1>2, <1>3, <1>4, <1>5, <1>6, <1>7, <1>8 DEF Next

LEMMA EnabledFollowStep ==
  ASSUME TypeOK, TypeOK', RecordSound, PlanSound, EnabledFollow, [Next]_vars,
         ChangeWhen = "converged", ~ReuseUid
  PROVE  EnabledFollow'
<1>0. PlanParts /\ PlanParts' /\ Natives \subseteq Units
      /\ NativesOf(desired) \subseteq Natives /\ NativesOf(desired)' \subseteq Natives
  BY PlanForParts, PlanForPartsNext DEF Units, NativesOf
<1>1. CASE EnsureUser
  BY <1>1, TodoEnsureUser DEF EnsureUser, passVars, EnabledFollow
<1>2. CASE Begin
  BY <1>2, TodoBegin DEF Begin, hostVars, EnabledFollow, PlanSound
<1>3. CASE Step
  <2>1. /\ Todo = plan /\ Todo' = plan' /\ desired' = desired
        /\ plan.enable \subseteq NativesOf(desired)
        /\ plan.disable \cap NativesOf(desired) = {}
        /\ stopFailed \subseteq stopFailed'
    BY <1>0, <1>3, TodoStep, StepShrinks, StepBusy DEF PlanSound, Within, PlanParts
  <2>2. ASSUME NEW n \in Natives \ NativesOf(desired), n \in enabled'
        PROVE  n \in plan'.disable \cup stopFailed'
    <3>1. n \in Units /\ n \in enabled
      BY <1>0, <1>3, <2>1, <2>2, StepStops DEF Leaves
    <3>2. n \in plan.disable \cup stopFailed
      BY <2>1, <2>2, <3>1 DEF EnabledFollow
    <3>. QED
      BY <1>3, <2>1, <2>2, <3>1, <3>2, StepStops DEF Leaves
  <2>3. ASSUME NEW n \in NativesOf(desired)
        PROVE  n \in enabled' \cup plan'.enable
    <3>1. n \in Units /\ n \in enabled \cup plan.enable
      BY <1>0, <2>1 DEF EnabledFollow
    <3>. QED
      BY <1>3, <2>1, <3>1, StepStops DEF Leaves
  <2>. QED
    BY <2>1, <2>2, <2>3 DEF EnabledFollow
<1>4. CASE Save
  <2>1. ASSUME NEW n \in Natives \ NativesOf(desired), n \in enabled
        PROVE  n \in record'.natives
    BY <1>4, <2>1, SaveUser, TodoSave DEF EnabledFollow
  <2>. QED
    BY <1>0, <1>4, <2>1, SaveUser, TodoSave DEF EnabledFollow, PlanParts, hostVars
<1>5. CASE Abort
  <2>1. ASSUME NEW n \in (Natives \cap stopFailed) \ NativesOf(desired)
        PROVE  n \in PlanFor(desired).disable
    BY <1>0, <1>5, TodoAbort, ClassesDisjoint
    DEF PlanParts, PlanSound, Natives, TypeOK, Record
  <2>2. enabled' = enabled /\ desired' = desired
    BY <1>5 DEF Abort
  <2>. QED
    BY <1>5, <2>1, <2>2, TodoAbort DEF EnabledFollow, Within
<1>6. CASE ChangeDesired
  <2>1. /\ enabled' = enabled /\ record.natives = NativesOf(desired) /\ stopFailed = {}
        /\ Todo = EmptyPlan /\ Todo' = PlanFor(desired)' /\ Base' = record /\ record' = record
    BY <1>6, TodoChange DEF hostVars, NextState, PlanSound
  <2>2. \A n \in Natives : n \in enabled <=> n \in record.natives
    BY <1>0, <2>1 DEF EnabledFollow, EmptyPlan
  <2>. QED
    BY <1>0, <2>1, <2>2 DEF EnabledFollow, PlanParts
<1>7. CASE DeleteUser
  BY <1>0, <1>7, TodoDeleteUser
  DEF DeleteUser, HostUserGone, EnabledFollow, PlanParts, EmptyRecord
<1>8. CASE UNCHANGED vars
  BY <1>8, TodoStutter DEF vars, hostVars, passVars, EnabledFollow
<1>. QED
  BY <1>1, <1>2, <1>3, <1>4, <1>5, <1>6, <1>7, <1>8 DEF Next

(* With nothing to do, the units run as they should. *)
LEMMA RunsFreshState ==
  ASSUME TypeOK, PlanSound, StopsFollow, RunsFollow, EnabledFollow
  PROVE  RunsFresh
<1> SUFFICES ASSUME Converged
             PROVE  /\ \A u \in Wanted : Fresh(u, desired.files, desired.secrets)
                    /\ \A u \in Units \ Wanted : run[u] = Absent
                    /\ enabled = NativesOf(desired)
  BY DEF RunsFresh
<1>1. Todo = EmptyPlan /\ stopFailed = {}
  BY NothingToDo DEF Converged, Todo, PlanSound
<1>2. \A u \in Wanted : Fresh(u, desired.files, desired.secrets)
  BY <1>1 DEF RunsFollow, EmptyPlan
<1>3. \A u \in Units \ Wanted : run[u] = Absent
  BY <1>1 DEF StopsFollow, EmptyPlan
<1>4. enabled \subseteq Natives /\ NativesOf(desired) \subseteq Natives
  BY DEF TypeOK, HostTypeOK, NativesOf
<1>5. enabled = NativesOf(desired)
  BY <1>1, <1>4 DEF EnabledFollow, EmptyPlan
<1>. QED
  BY <1>2, <1>3, <1>5

(* The restart scope misses nothing: with a patient operator and no re-use *)
(* of uids, and if no unit names a file that another only reads, then      *)
(* whatever failed on the way there, once a cadre is recorded as applied   *)
(* its units run on its files and secrets, and no others run.              *)
THEOREM AppliedRunsFresh ==
  ASSUME ChangeWhen = "converged", ~ReuseUid, HiddenUnnamed
  PROVE  Spec => []RunsFresh
<1> DEFINE Inv == FilesFollow /\ SecretsReady /\ LoadsFollow /\ RunsFollow /\ EnabledFollow
<1>1. TypeOK /\ TypeOK' /\ RecordSound /\ PlanSound /\ StopsFollow /\ Inv /\ [Next]_vars => Inv'
  BY FilesFollowStep, SecretsReadyStep, LoadsFollowStep, RunsFollowStep, EnabledFollowStep
<1>2. TypeOK /\ PlanSound /\ StopsFollow /\ Inv => RunsFresh
  BY RunsFreshState
<1>3. Init => Inv
  BY FollowInit
<1>4. ChangeWhen # "any"
  OBVIOUS
<1>5. Spec => []StopsFollow
  BY <1>4, StopsFollowAlways, PTL
<1>. QED
  BY <1>1, <1>2, <1>3, <1>5, TypeCorrect, Soundness, PTL DEF Spec

-----------------------------------------------------------------------------
(* Caps and logins.                                                        *)

(* After a pass that committed, the record has the cap and the logins that *)
(* are wanted; its user has them, and one who came since has no cap yet.   *)
CommittedCapped ==
  committed /\ ~busy =>
    /\ record.uid # NoUid /\ record.limits = desired.limits /\ record.logins = desired.logins
    /\ uid = record.uid =>
         /\ slice[uid] = desired.limits \/ (desired.limits = NoLimits /\ deletions > 1)
         /\ \A r \in Registries : desired.logins[r] # Absent => auth[r] = desired.logins[r]
    /\ deletions = 1 /\ uid \notin {NoUid, record.uid} => slice[uid] = NoLimits

LEMMA CommittedCappedStep ==
  ASSUME TypeOK, RecordSound, PlanSound, LoginsFollow, CapsFollow, CommittedCapped, [Next]_vars,
         ~ReuseUid
  PROVE  CommittedCapped'
<1>1. CASE EnsureUser
  BY <1>1, SentinelsOutside DEF EnsureUser, passVars, budgetVars, CommittedCapped, CapsFollow
<1>2. CASE Begin
  BY <1>2 DEF Begin, CommittedCapped
<1>3. CASE Step
  BY <1>3, StepBusy, StepShrinks DEF CommittedCapped
<1>4. CASE Save
  BY <1>4, SaveUser, TodoSave
  DEF CommittedCapped, LoginsFollow, CapsFollow, hostVars, Save, budgetVars
<1>5. CASE Abort \/ ChangeDesired
  BY <1>5 DEF Abort, ChangeDesired, CommittedCapped
<1>6. CASE DeleteUser
  BY <1>6 DEF DeleteUser, HostUserGone, passVars, CommittedCapped
<1>7. CASE UNCHANGED vars
  BY <1>7 DEF vars, hostVars, passVars, budgetVars, CommittedCapped
<1>. QED
  BY <1>1, <1>2, <1>3, <1>4, <1>5, <1>6, <1>7 DEF Next

(* An operator who waits for a pass to commit, or for the change to be     *)
(* recorded, changes a cadre of which the same is true.                    *)
LEMMA CappedWhenChanged ==
  ASSUME TypeOK, RecordSound, LoginsFollow, CapsFollow, CommittedCapped, ChangeDesired, ChangeWhen # "any"
  PROVE  /\ record.uid # NoUid /\ record.limits = desired.limits /\ record.logins = desired.logins
         /\ uid = record.uid =>
              /\ slice[uid] = desired.limits \/ (desired.limits = NoLimits /\ deletions > 1)
              /\ \A r \in Registries : desired.logins[r] # Absent => auth[r] = desired.logins[r]
         /\ deletions = 1 /\ uid \notin {NoUid, record.uid} => slice[uid] = NoLimits
         /\ ~busy /\ Todo' = PlanFor(desired)' /\ UNCHANGED <<hostVars, record, deletions>>
         /\ desired' \in Cadres
         /\ Base' = IF uid = record.uid THEN record ELSE EmptyRecord
<1>1. /\ ~busy /\ Todo' = PlanFor(desired)' /\ UNCHANGED <<hostVars, record, deletions>>
      /\ desired' \in Cadres
  BY DEF ChangeDesired, Todo, budgetVars
<1>2. CASE committed
  <2>1. record.uid # NoUid
    BY <1>1, <1>2 DEF CommittedCapped
  <2>. QED
    BY <1>1, <1>2, <2>1 DEF CommittedCapped, Base, UidChanged, hostVars
<1>3. CASE Converged
  <2>1. /\ uid # NoUid /\ record.uid = uid /\ record.limits = desired.limits
        /\ record.logins = desired.logins /\ Todo = EmptyPlan
    BY <1>3, NothingToDo DEF Converged, Recorded, NextState, Todo
  <2>. QED
    BY <1>1, <2>1 DEF LoginsFollow, CapsFollow, EmptyPlan, Base, UidChanged, hostVars
<1>. QED
  BY <1>2, <1>3, PolicyTyped DEF ChangeDesired

(* A new user is logged in to whatever there is. *)
LEMMA LoginsOfNew ==
  ASSUME PlanParts', Base' = EmptyRecord, desired' \in Cadres,
         NEW r \in Registries, desired'.logins[r] # Absent
  PROVE  LoginDue(desired, DiffPlan(desired))'
<1>1. PICK k \in Secrets : desired'.secrets[k] # Absent
  BY LoginsNeedSecrets
<1>2. k \in PlanFor(desired)'.create
  BY <1>1 DEF PlanParts, Created, EmptyRecord
<1>3. DiffPlan(desired)' # EmptyPlan
  BY <1>2 DEF PlanFor, WithLogins, EmptyPlan
<1>. QED
  BY <1>3 DEF LoginDue

LEMMA LoginsFollowStep ==
  ASSUME TypeOK, TypeOK', RecordSound, PlanSound, LoginsFollow, CapsFollow, CommittedCapped,
         [Next]_vars, ChangeWhen # "any", ~ReuseUid
  PROVE  LoginsFollow'
<1>0. PlanParts /\ PlanParts'
  BY PlanForParts, PlanForPartsNext
<1>1. CASE EnsureUser
  BY <1>1, TodoEnsureUser DEF EnsureUser, passVars, LoginsFollow
<1>2. CASE Begin
  BY <1>2, TodoBegin DEF Begin, hostVars, LoginsFollow
<1>3. CASE Step
  BY <1>3, TodoStep, StepShrinks, StepCaps DEF LoginsFollow
<1>4. CASE Save
  BY <1>4, SaveUser, TodoSave DEF LoginsFollow, hostVars
<1>5. CASE Abort
  BY <1>5, TodoAbort DEF LoginsFollow, Within, Abort
<1>6. CASE ChangeDesired
  <2>1. /\ auth' = auth /\ record' = record /\ Todo' = PlanFor(desired)' /\ desired' \in Cadres
        /\ Base' = (IF uid = record.uid THEN record ELSE EmptyRecord)
        /\ record.logins = desired.logins
        /\ uid = record.uid =>
             \A r \in Registries : desired.logins[r] # Absent => auth[r] = desired.logins[r]
    BY <1>6, CappedWhenChanged DEF hostVars
  <2>2. ASSUME NEW r \in Registries, desired'.logins[r] # Absent, auth[r] # desired'.logins[r]
        PROVE  LoginDue(desired, DiffPlan(desired))'
    <3>1. CASE uid = record.uid
      BY <2>1, <2>2, <3>1 DEF LoginDue
    <3>2. CASE uid # record.uid
      BY <1>0, <2>1, <2>2, <3>2, LoginsOfNew
    <3>. QED
      BY <3>1, <3>2
  <2>. QED
    BY <1>0, <2>1, <2>2 DEF LoginsFollow, PlanParts
<1>7. CASE DeleteUser
  <2>1. Base' = EmptyRecord /\ desired' \in Cadres /\ Todo' = PlanFor(desired)'
    BY <1>7, TodoDeleteUser DEF TypeOK
  <2>. QED
    BY <1>0, <2>1, LoginsOfNew DEF LoginsFollow, PlanParts
<1>8. CASE UNCHANGED vars
  BY <1>8, TodoStutter DEF vars, hostVars, passVars, LoginsFollow
<1>. QED
  BY <1>1, <1>2, <1>3, <1>4, <1>5, <1>6, <1>7, <1>8 DEF Next

LEMMA CapsFollowStep ==
  ASSUME TypeOK, TypeOK', RecordSound, PlanSound, LoginsFollow, CapsFollow, CommittedCapped,
         [Next]_vars, ChangeWhen # "any", ~ReuseUid
  PROVE  CapsFollow'
<1>0. PlanParts /\ PlanParts' /\ NoUid \notin Uids /\ deletions \in Nat
  BY PlanForParts, PlanForPartsNext, SentinelsOutside, BoundsTyped DEF TypeOK
<1>1. CASE EnsureUser
  <2>1. /\ uid = NoUid /\ uid' \in Uids /\ uid' # record.uid
        /\ UNCHANGED <<slice, record, desired, deletions>>
    BY <1>1 DEF EnsureUser, passVars, budgetVars
  <2>2. Base' = EmptyRecord
    BY <2>1, <1>0 DEF Base, UidChanged, RecordSound
  <2>3. desired.limits # NoLimits => Todo'.limits # {}
    BY <1>0, <1>1, <2>1, <2>2, TodoEnsureUser
    DEF PlanParts, Singleton, EmptyRecord, EnsureUser, passVars, Todo
  <2>. QED
    BY <1>0, <2>1, <2>3 DEF CapsFollow
<1>2. CASE Begin
  BY <1>2, TodoBegin DEF Begin, hostVars, CapsFollow, budgetVars
<1>3. CASE Step
  <2>1. /\ Todo = plan /\ Todo' = plan' /\ uid # NoUid /\ uid \in Uids
        /\ UNCHANGED <<uid, record, desired, deletions>> /\ plan.limits \subseteq {desired.limits}
    <3>1. plan.limits \subseteq PlanFor(desired).limits /\ uid # NoUid
      BY <1>3, StepBusy DEF PlanSound, Within
    <3>2. PlanFor(desired).limits \subseteq {desired.limits}
      BY <1>0 DEF PlanParts, Singleton
    <3>3. uid \in Uids
      BY <3>1 DEF TypeOK, HostTypeOK
    <3>. QED
      BY <1>3, <3>1, <3>2, <3>3, TodoStep, StepShrinks
  <2>2. CASE UNCHANGED <<slice, plan.limits>>
    BY <2>1, <2>2 DEF CapsFollow
  <2>3. CASE \E l \in plan.limits : slice' = [slice EXCEPT ![uid] = l]
    <3>1. slice'[uid] = desired.limits /\ \A u \in Uids \ {uid} : slice'[u] = slice[u]
      BY <2>1, <2>3 DEF TypeOK, HostTypeOK
    <3>. QED
      BY <2>1, <3>1 DEF CapsFollow
  <2>. QED
    BY <1>3, <2>2, <2>3, StepCaps
<1>4. CASE Save
  BY <1>4, SaveUser, TodoSave DEF CapsFollow, hostVars, Save, budgetVars
<1>5. CASE Abort
  BY <1>5, TodoAbort DEF CapsFollow, Within, Abort
<1>6. CASE ChangeDesired
  <2>1. /\ UNCHANGED <<slice, uid, record, deletions>> /\ Todo' = PlanFor(desired)'
        /\ Base' = (IF uid = record.uid THEN record ELSE EmptyRecord)
        /\ record.uid # NoUid /\ record.limits = desired.limits
        /\ uid = record.uid =>
             slice[uid] = desired.limits \/ (desired.limits = NoLimits /\ deletions > 1)
        /\ deletions = 1 /\ uid \notin {NoUid, record.uid} => slice[uid] = NoLimits
    BY <1>6, CappedWhenChanged DEF hostVars
  <2>2. desired'.limits # Base'.limits => Todo'.limits # {}
    BY <1>0, <2>1 DEF PlanParts, Singleton
  <2>3. ASSUME uid # NoUid
        PROVE  \/ slice[uid] = desired'.limits \/ Todo'.limits # {}
               \/ desired'.limits = NoLimits /\ deletions > 1
    <3>1. CASE uid = record.uid
      BY <2>1, <2>2, <3>1
    <3>2. CASE uid # record.uid
      <4>1. deletions # 0
        BY <2>1, <2>3, <3>2 DEF CapsFollow
      <4>. QED
        BY <1>0, <2>1, <2>2, <2>3, <3>2, <4>1 DEF EmptyRecord
    <3>. QED
      BY <3>1, <3>2
  <2>. QED
    BY <2>1, <2>3 DEF CapsFollow
<1>7. CASE DeleteUser
  <2>1. /\ uid # NoUid /\ uid' = NoUid /\ deletions' = deletions + 1
        /\ UNCHANGED <<slice, record, desired>>
    BY <1>7 DEF DeleteUser, HostUserGone, passVars
  <2>2. ASSUME deletions = 0, NEW u \in Uids \ {record.uid}
        PROVE  slice[u] = NoLimits \/ (record.uid = NoUid /\ slice[u] = desired.limits)
    BY <2>1, <2>2 DEF CapsFollow
  <2>. QED
    BY <1>0, <2>1, <2>2 DEF CapsFollow
<1>8. CASE UNCHANGED vars
  BY <1>8, TodoStutter DEF vars, hostVars, passVars, budgetVars, CapsFollow
<1>. QED
  BY <1>1, <1>2, <1>3, <1>4, <1>5, <1>6, <1>7, <1>8 DEF Next

(* If the operator changes their mind only after a pass has committed, and *)
(* the uid just lost is not used again, an applied cadre has its cap and   *)
(* its logins, also after its user was re-created.                         *)
THEOREM AppliedIsCapped ==
  ASSUME ChangeWhen # "any", ~ReuseUid
  PROVE  Spec => []CapsAndLogins
<1>1. Init => LoginsFollow /\ CapsFollow /\ CommittedCapped
  <2>1. Init => CapsFollow
    BY DEF Init, HostInit, CapsFollow, EmptyRecord
  <2>. QED
    BY <2>1, FollowInit DEF Init, CommittedCapped
<1>2. /\ TypeOK /\ TypeOK' /\ RecordSound /\ PlanSound
      /\ LoginsFollow /\ CapsFollow /\ CommittedCapped /\ [Next]_vars
      => LoginsFollow' /\ CapsFollow' /\ CommittedCapped'
  BY LoginsFollowStep, CapsFollowStep, CommittedCappedStep
<1>3. TypeOK /\ LoginsFollow /\ CapsFollow => CapsAndLogins
  <2> SUFFICES ASSUME TypeOK, LoginsFollow, CapsFollow, Converged
               PROVE  /\ slice[uid] = desired.limits \/ (desired.limits = NoLimits /\ deletions > 1)
                      /\ \A r \in Registries :
                           desired.logins[r] # Absent => auth[r] = desired.logins[r]
    BY DEF CapsAndLogins
  <2>1. Todo = EmptyPlan /\ uid # NoUid
    BY NothingToDo DEF Converged, Recorded, Todo
  <2>. QED
    BY <2>1 DEF LoginsFollow, CapsFollow, EmptyPlan
<1>. QED
  BY <1>1, <1>2, <1>3, TypeCorrect, Soundness, PTL DEF Spec

-----------------------------------------------------------------------------
(* Restarts have a reason.                                                 *)

(* Every cadre ships the secrets that its Quadlet units name. *)
SecretsShipped ==
  \A c \in Cadres : \A u \in QuadletsOf(c) :
    SecretRefs[c.files[u]] \subseteq {k \in Secrets : c.secrets[k] # Absent}

(* Unit u runs on its text, the files and the secrets that the text names. *)
NamedAs(u, files, secrets) ==
  /\ run[u].unit = files[u]
  /\ \A k \in SecretRefs[files[u]] : run[u].secrets[k] = secrets[k]
  /\ \A s \in FileRefs[files[u]] : run[u].files[s] = files[s]

(* No wanted Quadlet unit was set aside, and one that runs is not to be    *)
(* started; if it is to be restarted it runs on what is recorded, and else *)
(* on what is wanted.                                                      *)
InputsKnown ==
  /\ stopFailed \cap QuadletsOf(desired) = {}
  /\ \A u \in QuadletsOf(desired) : run[u] # Absent =>
       /\ u \notin Todo.start
       /\ u \in Todo.restart => NamedAs(u, record.files, record.secrets)
       /\ u \notin Todo.restart => NamedAs(u, desired.files, desired.secrets)

(* When a unit is to be started all that it needs is there. *)
LEMMA NeverBlocked ==
  ASSUME TypeOK, PlanSound, FilesFollow, SecretsReady, LoadsFollow, SecretsShipped
  PROVE  ~Blocked
<1>1. ASSUME busy, Settled, NEW u \in Wanted
      PROVE  Startable(u)
  <2> DEFINE c == desired.files[u]
  <2>1. Todo = plan /\ u \in Units /\ u \in Names /\ desired \in Cadre
    BY <1>1, CadresTyped DEF Todo, Wanted, QuadletsOf, NativesOf, Units, Names, TypeOK
  <2>2. c \in Contents
    BY <2>1 DEF Wanted, QuadletsOf, NativesOf, Present, Cadre, FileMap
  <2>3. c # Absent /\ loaded[u] = disk[u]
    BY <1>1, <2>1, <2>2, SentinelsOutside DEF LoadsFollow, Settled
  <2>4. loaded[u] = c
    BY <1>1, <2>1, <2>3 DEF FilesFollow, Settled
  <2>5. ASSUME NEW k \in SecretRefs[c]
        PROVE  psecrets[k] # Absent
    <3>1. u \in QuadletsOf(desired)
      BY <2>1, <2>3, <2>5, NativesNameNothing DEF Wanted, NativesOf, QuadletsOf, Present, TypeOK
    <3>2. k \in Secrets /\ desired.secrets[k] # Absent
      BY <2>5, <3>1 DEF SecretsShipped, TypeOK
    <3>. QED
      BY <1>1, <2>1, <3>2 DEF SecretsReady, Settled
  <2>. QED
    BY <2>2, <2>4, <2>5 DEF Startable
<1>2. busy => plan.start \cup plan.restart \cup plan.enable \cup plan.restartNative \subseteq Wanted
  BY PlanForParts
  DEF PlanSound, Within, PlanParts, Wanted, Restarted, RestartedNatives, QuadletsOf, NativesOf
<1>3. AtStart \/ AtRestart \/ AtEnable \/ AtNative => busy /\ Settled
  BY Settling DEF AtNative, AtEnable, AtRestart, AtStart, AtReload, AtLogin, AtDrop, AtCreate,
                  AtRemove, AtWrite, AtStop
<1>. QED
  BY <1>1, <1>2, <1>3 DEF Blocked

(* A kept unit that is not to be restarted finds what it names unchanged. *)
LEMMA NamedScope ==
  ASSUME SecretsShipped, NEW c \in Cadres, NEW prior \in Record,
         NEW u \in QuadletsOf(c) \cap prior.units, u \notin Restarted(c, prior),
         NamedAs(u, prior.files, prior.secrets)
  PROVE  NamedAs(u, c.files, c.secrets)
<1>1. c \in Cadre /\ u \in Names /\ u \in Present(c) /\ c.files[u] \in Contents
  BY CadresTyped DEF QuadletsOf, Present, Names, Units, Cadre, FileMap
<1>2. prior.files[u] = c.files[u]
  BY <1>1 DEF Restarted, Written
<1>3. ASSUME NEW s \in FileRefs[c.files[u]]
      PROVE  prior.files[s] = c.files[s]
  <2>1. s \in Supports /\ s \in Names
    BY <1>1, RefsTyped DEF Names
  <2>2. s \notin Written(c, prior) \cup Removed(c, prior)
    BY <1>3, <2>1 DEF Restarted
  <2>. QED
    BY <2>1, <2>2 DEF Written, Removed, Present
<1>4. ASSUME NEW k \in SecretRefs[c.files[u]]
      PROVE  prior.secrets[k] = c.secrets[k]
  <2>1. k \in Secrets /\ c.secrets[k] # Absent
    BY <1>4 DEF SecretsShipped
  <2>2. k \notin Created(c, prior)
    BY <1>4 DEF Restarted
  <2>. QED
    BY <2>1, <2>2 DEF Created
<1>. QED
  BY <1>2, <1>3, <1>4 DEF NamedAs

LEMMA InputsKnownStep ==
  ASSUME TypeOK, TypeOK', RecordSound, PlanSound, StopsFollow, FilesFollow, SecretsReady,
         LoadsFollow, InputsKnown, [Next]_vars,
         ChangeWhen = "converged", ~ReuseUid, MaxAborts = 0, SecretsShipped
  PROVE  InputsKnown'
<1>0. /\ PlanParts /\ PlanParts' /\ QuadletsOf(desired) \subseteq Units
      /\ QuadletsOf(desired) \subseteq Wanted /\ QuadletsOf(desired) \cap Natives = {}
  BY PlanForParts, PlanForPartsNext, ClassesDisjoint DEF Wanted, QuadletsOf, Units, Natives
<1>1. CASE EnsureUser
  BY <1>1, TodoEnsureUser DEF EnsureUser, passVars, InputsKnown, NamedAs
<1>2. CASE Begin
  BY <1>2, TodoBegin DEF Begin, hostVars, InputsKnown, NamedAs
<1>3. CASE Step
  <2>1. /\ Todo = plan /\ Todo' = plan' /\ UNCHANGED <<desired, record>> /\ busy
        /\ Within(plan', plan) /\ Within(plan, PlanFor(desired))
    BY <1>3, TodoStep, StepShrinks, StepBusy DEF PlanSound
  <2>2. ASSUME NEW u \in QuadletsOf(desired), run'[u] # Absent
        PROVE  /\ u \notin plan'.start
               /\ u \in plan'.restart => NamedAs(u, record.files, record.secrets)'
               /\ u \notin plan'.restart => NamedAs(u, desired.files, desired.secrets)'
    <3>1. u \in Units /\ u \in Wanted /\ u \notin plan.enable \cup plan.restartNative
      BY <1>0 DEF TypeOK, Plan
    <3>2. u \notin plan'.restartNative /\ u \notin plan.stop \cup plan.disable
          /\ ~(u \in plan.start /\ u \in plan.restart)
      BY <1>0, <2>1, <3>1 DEF Within, PlanParts, Restarted, TypeOK, Plan
    <3>3. CASE Keeps(u) \/ Finds(u)
      BY <2>1, <2>2, <3>1, <3>2, <3>3 DEF Keeps, Finds, Within, InputsKnown, NamedAs
    <3>4. CASE Ups(u)
      <4>1. u \notin plan'.start /\ u \notin plan'.restart
        BY <2>1, <3>1, <3>2, <3>4 DEF Ups, Within
      <4>2. \A k \in SecretRefs[desired.files[u]] : desired.secrets[k] # Absent
        BY DEF SecretsShipped, TypeOK
      <4>. QED
        BY <2>1, <3>1, <3>4, <4>1, <4>2, StartedFresh DEF NamedAs
    <3>. QED
      BY <1>3, <3>1, <3>2, <3>3, <3>4, StepRuns DEF Downs
  <2>3. stopFailed' \cap QuadletsOf(desired) = {}
    BY <1>0, <1>3, <2>1, StepShrinks DEF InputsKnown, Within, PlanParts, TypeOK, Plan
  <2>. QED
    BY <2>1, <2>2, <2>3 DEF InputsKnown, QuadletsOf, Present
<1>4. CASE Save
  <2>1. /\ UNCHANGED <<run, desired>> /\ Todo = plan /\ plan.restart = {} /\ stopFailed' = {}
        /\ Todo' = PlanFor(desired)' /\ Base' = record' /\ QuadletsOf(desired) \subseteq record'.units
        /\ record'.files = [n \in Names |-> IF n \in stopFailed /\ record.files[n] # Absent
                                            THEN record.files[n] ELSE desired.files[n]]
        /\ record'.secrets = desired.secrets /\ stopFailed \subseteq record.units \cup record.natives
    BY <1>4, SaveUser, TodoSave DEF hostVars
  <2>2. ASSUME NEW u \in QuadletsOf(desired), run[u] # Absent
        PROVE  /\ u \notin Todo'.start /\ NamedAs(u, desired.files, desired.secrets)
               /\ NamedAs(u, record'.files, record'.secrets)
    <3>1. u \notin Todo'.start /\ NamedAs(u, desired.files, desired.secrets)
      BY <1>0, <2>1, <2>2 DEF PlanParts, InputsKnown
    <3>2. ASSUME NEW n \in {u} \cup Supports
          PROVE  record'.files[n] = desired.files[n]
      <4>1. desired.files[u] # Absent /\ n \in Names /\ Supports \cap Units = {}
            /\ stopFailed \subseteq Units
        BY <2>2, ClassesDisjoint DEF QuadletsOf, Present, Names, Units, Natives, TypeOK
      <4>2. n \notin stopFailed
        BY <2>1, <4>1 DEF InputsKnown
      <4>. QED
        BY <2>1, <4>1, <4>2
    <3>3. desired.files[u] \in Contents
      BY CadresTyped DEF QuadletsOf, Present, TypeOK, Cadre, FileMap
    <3>. QED
      BY <2>1, <3>1, <3>2, <3>3, RefsTyped DEF NamedAs
  <2>. QED
    BY <2>1, <2>2 DEF InputsKnown, NamedAs, QuadletsOf, Present
<1>5. CASE Abort
  <2>1. ~Blocked
    BY NeverBlocked
  <2>. QED
    BY <1>5, <2>1, BoundsTyped DEF Abort, TypeOK
<1>6. CASE ChangeDesired
  <2>1. /\ UNCHANGED <<run, record>> /\ desired' \in Cadres /\ record \in Record
        /\ Todo = EmptyPlan /\ Todo' = PlanFor(desired)' /\ Base' = record
        /\ record.units = QuadletsOf(desired) /\ record.files = desired.files
        /\ record.secrets = desired.secrets /\ stopFailed = {} /\ stopFailed' = {}
    BY <1>6, TodoChange DEF hostVars, TypeOK, NextState, PlanSound
  <2>2. ASSUME NEW u \in QuadletsOf(desired'), run[u] # Absent
        PROVE  /\ u \in record.units /\ NamedAs(u, record.files, record.secrets)
               /\ u \notin Restarted(desired', record) => NamedAs(u, desired'.files, desired'.secrets)
    <3>1. u \in Quadlets /\ u \in Units
      BY DEF QuadletsOf, Units
    <3>2. u \in record.units
      BY <2>1, <2>2, <3>1, ClassesDisjoint
      DEF StopsFollow, EmptyPlan, Wanted, NativesOf, Natives
    <3>3. NamedAs(u, record.files, record.secrets)
      BY <2>1, <2>2, <3>2 DEF InputsKnown, EmptyPlan
    <3>. QED
      BY <2>1, <3>2, <3>3, NamedScope
  <2>3. /\ Todo'.start = QuadletsOf(desired') \ record.units
        /\ Todo'.restart = Restarted(desired', record)
    BY <1>0, <2>1 DEF PlanParts, QuadletsOf, Present
  <2>. QED
    BY <2>1, <2>2, <2>3 DEF InputsKnown, NamedAs, QuadletsOf, Present
<1>7. CASE DeleteUser
  BY <1>0, <1>7, TodoDeleteUser DEF DeleteUser, HostUserGone, InputsKnown, QuadletsOf, Present
<1>8. CASE UNCHANGED vars
  BY <1>8, TodoStutter DEF vars, hostVars, passVars, InputsKnown, NamedAs
<1>. QED
  BY <1>1, <1>2, <1>3, <1>4, <1>5, <1>6, <1>7, <1>8 DEF Next

(* With a patient operator, no re-use of uids, cadres that ship the        *)
(* secrets their units name, and no pass that dies, a pass restarts a unit *)
(* only if an input that it reads changed, or a support file that no unit  *)
(* names did.  A pass that dies restarts units which the next one restarts *)
(* again.                                                                  *)
THEOREM NoRestartUnasked ==
  ASSUME ChangeWhen = "converged", ~ReuseUid, MaxAborts = 0, SecretsShipped
  PROVE  Spec => RestartsHaveReason
<1> DEFINE Inv == FilesFollow /\ SecretsReady /\ LoadsFollow /\ InputsKnown
           Reasoned ==
             \A u \in QuadletsOf(desired) : Restart(u) =>
               \/ run'[u] # run[u]
               \/ OrphanChanged(desired, {s \in Supports : desired.files[s] # Absent
                                               /\ desired.files[s] # record.files[s]})
<1>1. TypeOK /\ TypeOK' /\ RecordSound /\ PlanSound /\ StopsFollow /\ Inv /\ [Next]_vars => Inv'
  BY FilesFollowStep, SecretsReadyStep, LoadsFollowStep, InputsKnownStep
<1>2. Init => Inv
  BY FollowInit DEF Init, HostInit, InputsKnown, QuadletsOf, Present, Units
<1>3. TypeOK /\ TypeOK' /\ PlanSound /\ Inv /\ [Next]_vars => [Reasoned]_vars
  <2> SUFFICES ASSUME TypeOK, TypeOK', PlanSound, Inv, NEW u \in QuadletsOf(desired), Restart(u),
                      run'[u] = run[u]
               PROVE  OrphanChanged(desired, {s \in Supports : desired.files[s] # Absent
                                                   /\ desired.files[s] # record.files[s]})
    OBVIOUS
  <2> DEFINE c == desired.files[u]
  <2>1. busy /\ Settled /\ u \in plan.restart /\ UNCHANGED <<disk, psecrets>>
    BY Settling DEF Restart, AtRestart, AtStart, AtReload, AtLogin, AtDrop, AtCreate, AtRemove,
                    AtWrite, AtStop
  <2>2. u \in Units /\ u \in Names /\ u \in Wanted /\ desired \in Cadres
    BY DEF QuadletsOf, Units, Names, Wanted, TypeOK
  <2>3. loaded[u] \in Contents /\ run'[u] = InputsOf(loaded[u], disk, psecrets)
    BY <2>2 DEF Restart, HostRestart, Startable, TypeOK, HostTypeOK
  <2>4. run[u] # Absent /\ NamedAs(u, desired.files, desired.secrets)
    <3>1. Ups(u)
      BY <2>1, <2>2, <2>3 DEF Restart, Ups, TypeOK, Plan
    <3>2. \A k \in SecretRefs[c] : desired.secrets[k] # Absent
      BY <2>2 DEF SecretsShipped
    <3>. QED
      BY <2>1, <2>2, <3>1, <3>2, StartedFresh DEF NamedAs
  <2>5. NamedAs(u, record.files, record.secrets)
    BY <2>1, <2>4 DEF InputsKnown, Todo
  <2>6. record.files[u] = c
    BY <2>4, <2>5 DEF NamedAs
  <2>7. u \in Restarted(desired, record)
    <3>1. u \in Restarted(desired, Base)
      BY <2>1, PlanForParts DEF PlanSound, Within, PlanParts
    <3>2. Base.units # {}
      BY <3>1 DEF Restarted
    <3>. QED
      BY <3>1, <3>2 DEF Base, EmptyRecord
  <2>8. u \notin Written(desired, record)
    BY <2>6 DEF Written
  <2>9. SecretRefs[c] \cap Created(desired, record) = {}
    BY <2>4, <2>5, <2>6 DEF NamedAs, Created
  <2>10. FileRefs[c] \cap (Written(desired, record) \cup Removed(desired, record)) = {}
    BY <2>4, <2>5, <2>6 DEF NamedAs, Written, Removed, Present
  <2>11. OrphanChanged(desired, Written(desired, record) \cap Supports)
    BY <2>7, <2>8, <2>9, <2>10 DEF Restarted
  <2>12. Written(desired, record) \cap Supports
         = {s \in Supports : desired.files[s] # Absent /\ desired.files[s] # record.files[s]}
    BY DEF Written, Present, Names
  <2>. QED
    BY <2>11, <2>12
<1>4. ChangeWhen # "any"
  OBVIOUS
<1>5. Spec => []StopsFollow
  BY <1>4, StopsFollowAlways, PTL
<1>. QED
  BY <1>1, <1>2, <1>3, <1>5, TypeCorrect, Soundness, PTL DEF Spec, RestartsHaveReason, Reasoned
=============================================================================

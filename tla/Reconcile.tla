------------------------------ MODULE Reconcile ------------------------------
(***************************************************************************)
(* reconcile.Apply: one pass reads the record, computes a plan and carries *)
(* it out on the host step by step, and commits a new record at the very   *)
(* end.  A pass may fail or die at any step; the next one starts over from *)
(* the record alone, for it never looks at the host.                       *)
(*                                                                         *)
(* A pass holds the node lock, so there is one at a time.  Every command   *)
(* it issues is one step here.  The code works through each kind of item   *)
(* in sorted order; the model takes the items of a kind in any order.      *)
(***************************************************************************)
EXTENDS UserHost, Naturals

CONSTANTS
  Cadres,       \* the cadres the operator may ask for, a subset of Cadre
  ChangeWhen,   \* when the operator may change their mind (see ChangeDesired)
  ReuseUid,     \* may a re-created user get the uid of the deleted one?
  MaxAborts,    \* bound: passes that fail or die
  MaxStopFails, \* bound: stop/disable commands that fail on a live unit
  MaxDeletions  \* bound: deletions of the OS user behind rucher's back

ASSUME CadresTyped == Cadres \subseteq Cadre /\ Cadres # {}

(* quadletref.Extract is asked of Quadlet units only: what a native unit   *)
(* reads is Hidden.                                                        *)
ASSUME NativesNameNothing ==
  \A c \in Cadres : \A n \in Natives \cap Present(c) :
    FileRefs[c.files[n]] = {} /\ SecretRefs[c.files[n]] = {}

(* A registry's password is one of the cadre's secrets, and a cadre that   *)
(* has some brings one to the node: those it lists, or all.                *)
ASSUME LoginsNeedSecrets ==
  \A c \in Cadres : (\E r \in Registries : c.logins[r] # Absent)
                      => \E k \in Secrets : c.secrets[k] # Absent

ASSUME PolicyTyped ==
  /\ ChangeWhen \in {"converged", "committed", "any"}
  /\ ReuseUid \in BOOLEAN

ASSUME BoundsTyped == {MaxAborts, MaxStopFails, MaxDeletions} \subseteq Nat

VARIABLES
  desired,      \* the cadre as it is in the store now
  record,       \* the state file
  busy,         \* a pass is running
  committed,    \* the last pass got as far as state.Save
  plan,         \* what is left to do of the running pass
  stopFailed,   \* units whose stop or disable failed in the running pass
  aborts, stopFails, deletions   \* how much of each bound is used up

passVars   == <<record, busy, committed, plan, stopFailed>>
budgetVars == <<aborts, stopFails, deletions>>
vars       == <<hostVars, passVars, desired, budgetVars>>

TypeOK ==
  /\ HostTypeOK
  /\ desired \in Cadres
  /\ record \in Record
  /\ busy \in BOOLEAN
  /\ committed \in BOOLEAN
  /\ plan \in Plan
  /\ stopFailed \in SUBSET Units
  /\ aborts \in 0..MaxAborts
  /\ stopFails \in 0..MaxStopFails
  /\ deletions \in 0..MaxDeletions

Init ==
  /\ HostInit
  /\ desired \in Cadres
  /\ record = EmptyRecord
  /\ busy = FALSE
  /\ committed = FALSE
  /\ plan = EmptyPlan
  /\ stopFailed = {}
  /\ aborts = 0 /\ stopFails = 0 /\ deletions = 0

-----------------------------------------------------------------------------
(* The user behind the record is not the user of this pass. *)
UidChanged == record.uid # NoUid /\ uid # record.uid

BaseRecorded == record    \* mutant of Base: no zeroed baseline

(* What a pass diffs against. *)
Base == IF UidChanged THEN EmptyRecord ELSE record

(* EnsureUser on a node without the user. *)
EnsureUser ==
  /\ ~busy /\ uid = NoUid
  /\ \E u \in Uids : (u = record.uid => ReuseUid) /\ uid' = u
  /\ UNCHANGED <<disk, loaded, run, enabled, psecrets, auth, slice,
                 passVars, desired, budgetVars>>

(* Registry logins are due when anything else is, or when the login block  *)
(* changed since the record.                                               *)
LoginDue(c, p) == p # EmptyPlan \/ c.logins # record.logins

WithLogins(c, p) ==
  [p EXCEPT !.login = {r \in Registries : c.logins[r] # Absent /\ LoginDue(c, p)}]

(* A plan against an empty base removes nothing: take the stops and        *)
(* removals from the plan against the real record.                         *)
Folded(fresh, real) ==
  [fresh EXCEPT !.stop = real.stop, !.disable = real.disable,
                !.remove = real.remove, !.reload = @ \cup real.reload]

DiffPlan(c) ==
  IF UidChanged THEN Folded(Compute(c, Base), Compute(c, record)) ELSE Compute(c, Base)

(* The plan of a pass. *)
PlanFor(c) == WithLogins(c, DiffPlan(c))

Begin ==
  /\ ~busy /\ uid # NoUid
  /\ plan' = PlanFor(desired)
  /\ busy' = TRUE
  /\ stopFailed' = {}
  /\ UNCHANGED <<hostVars, record, committed, desired, budgetVars>>

(* The order of the stages: each starts when all before it are done. *)
AtStop    == busy      /\ plan.limits = {}
AtWrite   == AtStop    /\ plan.stop = {} /\ plan.disable = {}
AtRemove  == AtWrite   /\ plan.write = {}
AtCreate  == AtRemove  /\ plan.remove = {}
AtDrop    == AtCreate  /\ plan.create = {}
AtLogin   == AtDrop    /\ plan.drop = {}
AtReload  == AtLogin   /\ plan.login = {}
AtStart   == AtReload  /\ plan.reload = {}
AtRestart == AtStart   /\ plan.start = {}
AtEnable  == AtRestart /\ plan.restart = {}
AtNative  == AtEnable  /\ plan.enable = {}
AtSave    == AtNative  /\ plan.restartNative = {}

SetLimits(l) ==
  /\ busy /\ l \in plan.limits
  /\ slice' = [slice EXCEPT ![uid] = l]
  /\ plan' = [plan EXCEPT !.limits = @ \ {l}]
  /\ UNCHANGED <<uid, disk, loaded, run, enabled, psecrets, auth, stopFailed, stopFails>>

(* A stop or disable that fails does not end the pass: the unit is set     *)
(* aside.  It fails when the host cannot resolve the unit, and may fail    *)
(* for reasons of its own.                                                 *)
Stop(u) ==
  /\ AtStop /\ u \in plan.stop
  /\ Stoppable(u) /\ HostStop(u)
  /\ plan' = [plan EXCEPT !.stop = @ \ {u}]
  /\ UNCHANGED <<uid, disk, loaded, enabled, psecrets, auth, slice, stopFailed, stopFails>>

StopFails(u) ==
  /\ AtStop /\ u \in plan.stop
  /\ \/ ~Stoppable(u) /\ UNCHANGED stopFails
     \/ stopFails < MaxStopFails /\ stopFails' = stopFails + 1
  /\ stopFailed' = stopFailed \cup {u}
  /\ plan' = [plan EXCEPT !.stop = @ \ {u}]
  /\ UNCHANGED hostVars

Disable(u) ==
  /\ AtStop /\ plan.stop = {} /\ u \in plan.disable
  /\ Disableable(u) /\ HostDisable(u)
  /\ plan' = [plan EXCEPT !.disable = @ \ {u}]
  /\ UNCHANGED <<uid, disk, psecrets, auth, slice, stopFailed, stopFails>>

DisableFails(u) ==
  /\ AtStop /\ plan.stop = {} /\ u \in plan.disable
  /\ \/ ~Disableable(u) /\ UNCHANGED stopFails
     \/ stopFails < MaxStopFails /\ stopFails' = stopFails + 1
  /\ stopFailed' = stopFailed \cup {u}
  /\ plan' = [plan EXCEPT !.disable = @ \ {u}]
  /\ UNCHANGED hostVars

(* Mutant of Write: the exit code of tee is not looked at. *)
WriteSwallowed(n) ==
  /\ AtWrite /\ n \in plan.write
  /\ \E c \in {desired.files[n], Torn} : disk' = [disk EXCEPT ![n] = c]
  /\ plan' = [plan EXCEPT !.write = @ \ {n}]
  /\ UNCHANGED <<uid, loaded, run, enabled, psecrets, auth, slice, stopFailed, stopFails>>

Write(n) ==
  /\ AtWrite /\ n \in plan.write
  /\ disk' = [disk EXCEPT ![n] = desired.files[n]]
  /\ plan' = [plan EXCEPT !.write = @ \ {n}]
  /\ UNCHANGED <<uid, loaded, run, enabled, psecrets, auth, slice, stopFailed, stopFails>>

(* Mutant of Remove: the file goes although its stop failed. *)
RemoveRegardless(n) ==
  /\ AtRemove /\ n \in plan.remove
  /\ disk' = [disk EXCEPT ![n] = Absent]
  /\ plan' = [plan EXCEPT !.remove = @ \ {n}]
  /\ UNCHANGED <<uid, loaded, run, enabled, psecrets, auth, slice, stopFailed, stopFails>>

(* A file whose stop failed stays, for the next pass to retry the stop.    *)
Remove(n) ==
  /\ AtRemove /\ n \in plan.remove
  /\ IF n \in stopFailed THEN UNCHANGED disk ELSE disk' = [disk EXCEPT ![n] = Absent]
  /\ plan' = [plan EXCEPT !.remove = @ \ {n}]
  /\ UNCHANGED <<uid, loaded, run, enabled, psecrets, auth, slice, stopFailed, stopFails>>

CreateSecret(k) ==
  /\ AtCreate /\ k \in plan.create
  /\ psecrets' = [psecrets EXCEPT ![k] = desired.secrets[k]]
  /\ plan' = [plan EXCEPT !.create = @ \ {k}]
  /\ UNCHANGED <<uid, disk, loaded, run, enabled, auth, slice, stopFailed, stopFails>>

DropSecret(k) ==
  /\ AtDrop /\ k \in plan.drop
  /\ psecrets' = [psecrets EXCEPT ![k] = Absent]
  /\ plan' = [plan EXCEPT !.drop = @ \ {k}]
  /\ UNCHANGED <<uid, disk, loaded, run, enabled, auth, slice, stopFailed, stopFails>>

Login(r) ==
  /\ AtLogin /\ r \in plan.login
  /\ auth' = [auth EXCEPT ![r] = desired.logins[r]]
  /\ plan' = [plan EXCEPT !.login = @ \ {r}]
  /\ UNCHANGED <<uid, disk, loaded, run, enabled, psecrets, slice, stopFailed, stopFails>>

Reload ==
  /\ AtReload /\ plan.reload # {}
  /\ HostReload
  /\ plan' = [plan EXCEPT !.reload = {}]
  /\ UNCHANGED <<uid, disk, run, enabled, psecrets, auth, slice, stopFailed, stopFails>>

Start(u) ==
  /\ AtStart /\ u \in plan.start
  /\ HostStart(u)
  /\ plan' = [plan EXCEPT !.start = @ \ {u}]
  /\ UNCHANGED <<uid, disk, loaded, enabled, psecrets, auth, slice, stopFailed, stopFails>>

Restart(u) ==
  /\ AtRestart /\ u \in plan.restart
  /\ HostRestart(u)
  /\ plan' = [plan EXCEPT !.restart = @ \ {u}]
  /\ UNCHANGED <<uid, disk, loaded, enabled, psecrets, auth, slice, stopFailed, stopFails>>

Enable(u) ==
  /\ AtEnable /\ u \in plan.enable
  /\ HostEnable(u)
  /\ plan' = [plan EXCEPT !.enable = @ \ {u}]
  /\ UNCHANGED <<uid, disk, psecrets, auth, slice, stopFailed, stopFails>>

RestartNative(u) ==
  /\ AtNative /\ u \in plan.restartNative
  /\ HostRestart(u)
  /\ plan' = [plan EXCEPT !.restartNative = @ \ {u}]
  /\ UNCHANGED <<uid, disk, loaded, enabled, psecrets, auth, slice, stopFailed, stopFails>>

(* Mutants of Retaining: the failed units are forgotten; all of them are   *)
(* filed under the Quadlet units.                                          *)
RetainingNone(next, failed) == next

RetainingUnfiled(next, failed) ==
  [next EXCEPT !.files = [n \in Names |-> IF n \in failed /\ record.files[n] # Absent
                                          THEN record.files[n] ELSE next.files[n]],
               !.units = @ \cup failed]

(* nextState, with the units set aside put back as they were recorded. *)
Retaining(next, failed) ==
  [next EXCEPT !.files   = [n \in Names |-> IF n \in failed /\ record.files[n] # Absent
                                            THEN record.files[n] ELSE next.files[n]],
               !.units   = @ \cup (failed \cap Quadlets),
               !.natives = @ \cup (failed \cap Natives)]

Save ==
  /\ AtSave
  /\ record' = Retaining(NextState(desired, uid), stopFailed)
  /\ busy' = FALSE
  /\ committed' = TRUE
  /\ stopFailed' = {}
  /\ UNCHANGED <<hostVars, plan, desired, budgetVars>>

Command ==
  \/ \E l \in Limits : SetLimits(l)
  \/ \E u \in Quadlets : Stop(u) \/ StopFails(u) \/ Start(u) \/ Restart(u)
  \/ \E u \in Natives : Disable(u) \/ DisableFails(u) \/ Enable(u) \/ RestartNative(u)
  \/ \E n \in Names : Write(n) \/ Remove(n)
  \/ \E k \in Secrets : CreateSecret(k) \/ DropSecret(k)
  \/ \E r \in Registries : Login(r)
  \/ Reload

Step == Command /\ UNCHANGED <<record, busy, committed, desired, aborts, deletions>>

(* The unit due next cannot start: its command fails whenever it is tried. *)
Blocked ==
  \/ AtStart   /\ \E u \in plan.start : run[u] = Absent /\ ~Startable(u)
  \/ AtRestart /\ \E u \in plan.restart : ~Startable(u)
  \/ AtEnable  /\ \E u \in plan.enable : run[u] = Absent /\ ~Startable(u)
  \/ AtNative  /\ \E u \in plan.restartNative : ~Startable(u)

(* The pass returns an error, or its process dies.  A write in progress    *)
(* may leave a torn file; SecretCreate removes before it creates.          *)
Abort ==
  /\ busy
  /\ IF Blocked THEN UNCHANGED aborts ELSE aborts < MaxAborts /\ aborts' = aborts + 1
  /\ busy' = FALSE
  /\ committed' = FALSE
  /\ plan' = EmptyPlan
  /\ stopFailed' = {}
  /\ \/ UNCHANGED <<disk, psecrets>>
     \/ /\ AtWrite
        /\ \E n \in plan.write : disk' = [disk EXCEPT ![n] = Torn]
        /\ UNCHANGED psecrets
     \/ /\ AtCreate
        /\ \E k \in plan.create : psecrets' = [psecrets EXCEPT ![k] = Absent]
        /\ UNCHANGED disk
  /\ UNCHANGED <<uid, loaded, run, enabled, auth, slice, record, desired, stopFails, deletions>>

-----------------------------------------------------------------------------
(* The environment.                                                        *)

(* The record says exactly what the operator wants, of the user there is. *)
Recorded  == uid # NoUid /\ record = NextState(desired, uid)
Converged == ~busy /\ Recorded

(* A pass reads the cadre when it begins and works on that copy: a change  *)
(* made while it runs is for the next pass.  "converged": the operator     *)
(* waits for the last change to be fully recorded; "committed": for a pass *)
(* to finish; "any": not at all.                                           *)
ChangeDesired ==
  /\ ~busy
  /\ ChangeWhen = "converged" => Converged
  /\ ChangeWhen = "committed" => committed
  /\ desired' \in Cadres \ {desired}
  /\ committed' = FALSE
  /\ UNCHANGED <<hostVars, record, busy, plan, stopFailed, budgetVars>>

(* userdel behind rucher's back, or state restored onto a rebuilt node. *)
DeleteUser ==
  /\ ~busy /\ uid # NoUid
  /\ deletions < MaxDeletions /\ deletions' = deletions + 1
  /\ HostUserGone
  /\ UNCHANGED <<passVars, desired, aborts, stopFails>>

Next == EnsureUser \/ Begin \/ Step \/ Save \/ Abort \/ ChangeDesired \/ DeleteUser

Spec == Init /\ [][Next]_vars

(* The agent's timer keeps starting passes, and a pass that is running     *)
(* gets on with it: systemd and podman answer every command.  Nothing is   *)
(* assumed of failures, the operator or deletions.                         *)
FairSpec == Spec /\ WF_vars(EnsureUser \/ Begin \/ Step \/ Save \/ (Blocked /\ Abort))

-----------------------------------------------------------------------------
(* Properties.                                                             *)

(* When the record says what the operator wants, so does the host: every   *)
(* file and every secret, whatever failed on the way there (the comment on *)
(* userWrite: "the next reconcile idempotently retries").                  *)
FilesLanded ==
  Converged => disk = desired.files /\ psecrets = desired.secrets

(* Unit u runs with what it would be started with now: its text, the       *)
(* secrets there are of those it names, the support files it names, and    *)
(* those there are of the others it reads.                                 *)
Fresh(u, files, secrets) ==
  /\ run[u] # Absent /\ run[u].unit = files[u]
  /\ \A k \in SecretRefs[files[u]] : secrets[k] # Absent => run[u].secrets[k] = secrets[k]
  /\ \A s \in FileRefs[files[u]] : run[u].files[s] = files[s]
  /\ \A s \in Hidden[files[u]] : files[s] # Absent => run[u].files[s] = files[s]

Wanted == QuadletsOf(desired) \cup NativesOf(desired)

(* When the record says what the operator wants, every wanted unit runs    *)
(* with the wanted inputs, no other unit runs, and exactly the wanted      *)
(* natives are enabled: the restart scope of plan.Compute misses nothing.  *)
(* A unit whose secret is no longer shipped is excepted: it runs on with   *)
(* the old value, for only a changed secret restarts it.                   *)
RunsFresh ==
  Converged =>
    /\ \A u \in Wanted : Fresh(u, desired.files, desired.secrets)
    /\ \A u \in Units \ Wanted : run[u] = Absent
    /\ enabled = NativesOf(desired)

(* When the record says what the operator wants, the uid the user has now  *)
(* carries the wanted resource cap and every wanted registry is logged in  *)
(* to with the current password, also after the user was re-created.  From *)
(* the second time on the uid may be one that served before, whose cap is  *)
(* replaced by another, but not taken off for a manifest that asks for     *)
(* none.                                                                   *)
CapsAndLogins ==
  Converged =>
    /\ slice[uid] = desired.limits \/ (desired.limits = NoLimits /\ deletions > 1)
    /\ \A r \in Registries : desired.logins[r] # Absent => auth[r] = desired.logins[r]

(* Applying an applied cadre again is a no-op: no write, restart or login. *)
Idempotent == Converged => PlanFor(desired) = EmptyPlan

(* No workload is forgotten: a unit that runs is one the record would have *)
(* a later pass (or a removal) stop, or one the operator wants.            *)
NothingForgotten ==
  \A u \in Units : run[u] # Absent =>
    u \in record.units \cup record.natives \cup Wanted

(* A pass deletes the file of a Quadlet unit only when the unit no longer  *)
(* runs: once the file is gone systemd cannot map the name to stop it.     *)
StopBeforeRemove ==
  [][\A u \in Quadlets : disk[u] # Absent /\ disk'[u] = Absent => run'[u] = Absent]_vars

(* A pass restarts a unit only for a reason: an input it reads changed, or *)
(* a support file that no unit names did.                                  *)
RestartsHaveReason ==
  [][\A u \in QuadletsOf(desired) : Restart(u) =>
       \/ run'[u] # run[u]
       \/ OrphanChanged(desired, {s \in Supports : desired.files[s] # Absent
                                       /\ desired.files[s] # record.files[s]})]_vars

(* A cadre the operator leaves alone is eventually recorded as applied,    *)
(* however the passes before failed.                                       *)
Converges == \A c \in Cadres : <>[](desired = c) => <>[](desired = c /\ Recorded)
=============================================================================

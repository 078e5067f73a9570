------------------------------ MODULE Lifecycle ------------------------------
(***************************************************************************)
(* A cadre from assignment to removal: passes of reconcile.Apply while it  *)
(* is assigned to the node, reconcile.Remove once it no longer is.  The    *)
(* agent finds what to remove by its state file (reconcile.List), so a     *)
(* cadre without one is none of its business; an operator may also remove  *)
(* with --purge, which takes the OS user down as well.                     *)
(*                                                                         *)
(* Remove looks at no exit code but that of userdel: each of its commands  *)
(* may fail and the next is issued all the same.                           *)
(***************************************************************************)
EXTENDS Reconcile

CONSTANTS
  Modes,        \* what is in use on this node, a subset of {"keep", "purge"}
  MaxRmFails,   \* bound: commands of Remove that fail and are not noticed
  MaxRmCrashes  \* bound: removals whose process dies

ASSUME ModesTyped ==
  /\ Modes \subseteq {"keep", "purge"}
  /\ {MaxRmFails, MaxRmCrashes} \subseteq Nat

VARIABLES
  assigned,   \* placement.yml assigns the cadre to this node
  rm,         \* the removal in progress: where it is, and what it has read
  forgot,     \* the uids of users whose state file is gone
  halfway,    \* "died": a removal died before it dropped the state file, and none
              \* has dropped it since; "back": the cadre came back on top of that
  rmFails, rmCrashes

lvars == <<vars, assigned, rm, forgot, halfway, rmFails, rmCrashes>>

NoRemoval == [at |-> "idle", mode |-> "keep", uid |-> NoUid, stop |-> {}, disable |-> {}]

LInit == /\ Init
         /\ assigned = TRUE /\ rm = NoRemoval /\ forgot = {} /\ halfway = "no"
         /\ rmFails = 0 /\ rmCrashes = 0

-----------------------------------------------------------------------------
(* A command of Remove takes effect, or it fails and nobody notices.  It   *)
(* is issued to the user of the uid in the record, and fails without one.  *)
Issued(effect, unchanged) ==
  \/ rm.uid = uid /\ effect /\ UNCHANGED rmFails
  \/ /\ IF rm.uid = uid THEN rmFails < MaxRmFails /\ rmFails' = rmFails + 1
                        ELSE UNCHANGED rmFails
     /\ unchanged

(* Mutant of RmBegin: a state file that cannot be read counts as empty. *)
RmBeginBlind(mode) ==
  /\ ~busy /\ rm.at = "idle" /\ ~assigned
  /\ mode = "keep" => record # EmptyRecord
  /\ mode = "purge" => uid # NoUid
  /\ \E readable \in BOOLEAN :
       LET read == IF readable THEN record ELSE EmptyRecord
       IN  rm' = [at      |-> IF read.uid = NoUid THEN "forget" ELSE "stop",
                  mode    |-> mode,
                  uid     |-> read.uid,
                  stop    |-> read.units,
                  disable |-> read.natives]
  /\ UNCHANGED <<hostVars, record, rmFails>>

(* Load the record; without a uid in it there is nothing to stop. *)
RmBegin(mode) ==
  /\ ~busy /\ rm.at = "idle" /\ ~assigned
  /\ mode = "keep" => record # EmptyRecord
  /\ mode = "purge" => uid # NoUid
  /\ rm' = [at      |-> IF record.uid = NoUid THEN "forget" ELSE "stop",
            mode    |-> mode,
            uid     |-> record.uid,
            stop    |-> record.units,
            disable |-> record.natives]
  /\ UNCHANGED <<hostVars, record, rmFails>>

RmStop(u) ==
  /\ rm.at = "stop" /\ u \in rm.stop
  /\ \/ Issued(Stoppable(u) /\ HostStop(u), UNCHANGED run)
     \/ ~Stoppable(u) /\ UNCHANGED <<run, rmFails>>
  /\ rm' = [rm EXCEPT !.stop = @ \ {u}]
  /\ UNCHANGED <<uid, disk, loaded, enabled, psecrets, auth, slice, record>>

RmDisable(u) ==
  /\ rm.at = "stop" /\ rm.stop = {} /\ u \in rm.disable
  /\ \/ Issued(Disableable(u) /\ HostDisable(u), UNCHANGED <<enabled, run, loaded>>)
     \/ ~Disableable(u) /\ UNCHANGED <<enabled, run, loaded, rmFails>>
  /\ rm' = [rm EXCEPT !.disable = @ \ {u}]
  /\ UNCHANGED <<uid, disk, psecrets, auth, slice, record>>

Wiped(ns) == [n \in Names |-> IF n \in ns THEN Absent ELSE disk[n]]

(* rm -rf of the Quadlet directory, which has the support files, too. *)
RmWipeQuadlets ==
  /\ rm.at = "stop" /\ rm.stop = {} /\ rm.disable = {}
  /\ Issued(disk' = Wiped(Quadlets \cup Supports), UNCHANGED disk)
  /\ rm' = [rm EXCEPT !.at = "wipe"]
  /\ UNCHANGED <<uid, loaded, run, enabled, psecrets, auth, slice, record>>

(* rm -rf of the user unit directory. *)
RmWipeNatives ==
  /\ rm.at = "wipe"
  /\ Issued(disk' = Wiped(Natives), UNCHANGED disk)
  /\ rm' = [rm EXCEPT !.at = "reload"]
  /\ UNCHANGED <<uid, loaded, run, enabled, psecrets, auth, slice, record>>

RmReload ==
  /\ rm.at = "reload"
  /\ Issued(HostReload, UNCHANGED loaded)
  /\ rm' = [rm EXCEPT !.at = "forget"]
  /\ UNCHANGED <<uid, disk, run, enabled, psecrets, auth, slice, record>>

(* Mutant of RmForget: the state file stays. *)
RmForgetKeeps ==
  /\ rm.at = "forget"
  /\ rm' = IF rm.mode = "purge" THEN [rm EXCEPT !.at = "kill"] ELSE NoRemoval
  /\ UNCHANGED <<hostVars, record, rmFails>>

(* Drop the state file; a plain removal ends here. *)
RmForget ==
  /\ rm.at = "forget"
  /\ record' = EmptyRecord
  /\ rm' = IF rm.mode = "purge" THEN [rm EXCEPT !.at = "kill"] ELSE NoRemoval
  /\ UNCHANGED <<hostVars, rmFails>>

(* Linger off, services stopped, the manager down, leftovers killed. *)
RmKill ==
  /\ rm.at = "kill"
  /\ run' = [u \in Units |-> Absent]
  /\ rm' = [rm EXCEPT !.at = "userdel"]
  /\ UNCHANGED <<uid, disk, loaded, enabled, psecrets, auth, slice, record, rmFails>>

RmUserdel ==
  /\ rm.at = "userdel" /\ uid # NoUid
  /\ HostUserGone
  /\ rm' = IF rm.uid = NoUid THEN NoRemoval ELSE [rm EXCEPT !.at = "cap"]
  /\ UNCHANGED <<record, rmFails>>

(* Mutant of RmCap: asks for the uid now, when there is no user any more.  *)
RmCapCurrent ==
  /\ rm.at = "cap"
  /\ slice' = [u \in Uids |-> IF u = uid THEN NoLimits ELSE slice[u]]
  /\ rm' = NoRemoval
  /\ UNCHANGED <<uid, disk, loaded, run, enabled, psecrets, auth, record, rmFails>>

(* The slice drop-in of the uid the record named. *)
RmCap ==
  /\ rm.at = "cap"
  /\ slice' = [slice EXCEPT ![rm.uid] = NoLimits]
  /\ rm' = NoRemoval
  /\ UNCHANGED <<uid, disk, loaded, run, enabled, psecrets, auth, record, rmFails>>

RmStep ==
  /\ \/ \E u \in Quadlets : RmStop(u)
     \/ \E u \in Natives : RmDisable(u)
     \/ RmWipeQuadlets \/ RmWipeNatives \/ RmReload \/ RmForget \/ RmKill \/ RmUserdel \/ RmCap
  /\ forgot' = IF record' # record /\ rm'.at # "kill" THEN forgot \cup ({record.uid} \ {NoUid})
                                                      ELSE forgot
  /\ halfway' = IF record' # record /\ halfway = "died" THEN "no" ELSE halfway
  /\ UNCHANGED <<busy, committed, plan, stopFailed, desired, budgetVars, assigned, rmCrashes>>

(* The process dies, or userdel fails, which ends Remove with an error. *)
RmCrash ==
  /\ rm.at # "idle" /\ rmCrashes < MaxRmCrashes
  /\ rmCrashes' = rmCrashes + 1
  /\ rm' = NoRemoval
  /\ forgot' = IF rm.at \in {"kill", "userdel", "cap"} 
               THEN forgot \cup ({rm.uid} \ {NoUid}) ELSE forgot
  /\ halfway' = IF record # EmptyRecord /\ halfway = "no" THEN "died" ELSE halfway
  /\ UNCHANGED <<vars, assigned, rmFails>>

-----------------------------------------------------------------------------
(* The store assigns the cadre elsewhere, or here again, perhaps changed,  *)
(* and that before, after, or half-way through its removal.  The patient   *)
(* operator waits for it to be recorded before they take it away.          *)
Reassign ==
  /\ ~busy /\ rm.at = "idle"
  /\ ChangeWhen = "converged" /\ assigned => Recorded
  /\ assigned' = ~assigned
  /\ IF assigned THEN UNCHANGED <<desired, committed>>
                 ELSE desired' \in Cadres /\ committed' = FALSE
  /\ halfway' = IF ~assigned /\ halfway = "died" THEN "back" ELSE halfway
  /\ UNCHANGED <<hostVars, record, busy, plan, stopFailed, budgetVars, rm, forgot, rmFails, rmCrashes>>

RmStart ==
  /\ \E mode \in Modes : RmBegin(mode)
  /\ UNCHANGED <<busy, committed, plan, stopFailed, desired, budgetVars, assigned, forgot, halfway, rmCrashes>>

Applying ==
  /\ assigned /\ Next
  /\ UNCHANGED <<assigned, rm, forgot, halfway, rmFails, rmCrashes>>

LNext == Applying \/ RmStart \/ RmStep \/ RmCrash \/ Reassign

LSpec == LInit /\ [][LNext]_lvars

(* As in FairSpec; the agent also keeps removing what is not assigned.     *)
LFairSpec ==
  /\ LSpec
  /\ WF_vars(assigned /\ (EnsureUser \/ Begin \/ Step \/ Save \/ (Blocked /\ Abort)))
  /\ WF_lvars(RmStep \/ (record # EmptyRecord /\ RmStart))

-----------------------------------------------------------------------------
(* Properties.                                                             *)

Unmanaged == ~assigned /\ record = EmptyRecord /\ rm.at = "idle"

(* Remove checks no exit code, so what it promises holds where none of its *)
(* commands has failed; its process may still have died anywhere.          *)
RmHeard == rmFails = 0

(* A cadre that is not assigned and has no state file has nothing running  *)
(* or enabled: nobody would look for it again, "leaving the workloads      *)
(* running but unmanaged" (reconcile.Remove, on a corrupted state file).   *)
(* A cadre that came back on top of a removal that died is excepted: its   *)
(* passes restart a native whose file is gone, as systemd still holds it,  *)
(* and the next removal cannot disable it for lack of the file.            *)
NothingLeftRunning ==
  Unmanaged /\ RmHeard /\ halfway # "back" => enabled = {} /\ \A u \in Units : run[u] = Absent

(* ... nor does it have a unit file left that would start it on boot.      *)
NothingLeftOnDisk == Unmanaged /\ RmHeard => disk = [n \in Names |-> Absent]

(* An assigned cadre whose record is what the operator wants runs it, also *)
(* when it was removed from this node and came back, before its removal    *)
(* began or after it was done.  (A removal that died leaves a state file   *)
(* that lists what it has taken down, and a cadre that comes back on top   *)
(* of that compares with this file: what has not changed stays down.)      *)
ReturnsRunning == assigned /\ RmHeard /\ halfway # "back" => RunsFresh

(* No cap is left for a uid that has no user: a later user with that uid   *)
(* would be bound by it (the comment before Remove's last step).  The uid  *)
(* comes from the state file, so it is forgotten by a plain removal, and   *)
(* by one that died, before the one with --purge.                          *)
NoOrphanedCap ==
  Unmanaged /\ uid = NoUid => \A u \in Uids \ forgot : slice[u] = NoLimits

(* The cap of an applied cadre is the one its manifest asks for, also when *)
(* the uid served another user before.  One that was forgotten is replaced *)
(* by another, but not taken off for a manifest that asks for none.        *)
CapAsAsked ==
  assigned /\ Converged =>
    slice[uid] = desired.limits \/ (uid \in forgot /\ desired.limits = NoLimits)

(* What is no longer assigned eventually loses its state file.             *)
LetGo == <>[]~assigned => <>[](record = EmptyRecord)
=============================================================================

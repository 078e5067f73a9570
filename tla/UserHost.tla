------------------------------- MODULE UserHost -------------------------------
(***************************************************************************)
(* What rucher drives and does not implement: one cadre's OS user on a     *)
(* node, its home directory, its systemd user manager and its podman       *)
(* secrets and registry logins.  Nothing here is rucher's code; each       *)
(* operator is what a command line of internal/ops and internal/provision  *)
(* does to the host.                                                       *)
(***************************************************************************)
EXTENDS CadrePlan

CONSTANTS
  Torn,     \* a file whose write was cut short
  Hidden    \* [Contents -> SUBSET Supports]: files a unit reads that its
            \* text does not name (a config that includes another, say)

ASSUME HiddenTyped == /\ Hidden \in [Contents -> SUBSET Supports]
                      /\ Torn \notin Contents \cup {Absent}

VARIABLES
  uid,        \* the user's uid, NoUid while there is no such user
  disk,       \* the unit and support files in its home
  loaded,     \* the unit files as the user manager last read them
  run,        \* per unit: Absent, or the inputs it was started with
  enabled,    \* native units that have a wants-symlink
  psecrets,   \* podman secrets
  auth,       \* registry passwords in auth.json
  slice       \* per uid, the limits in user-<uid>.slice.d (NoLimits: no cap)

hostVars == <<uid, disk, loaded, run, enabled, psecrets, auth, slice>>

DiskContents == Contents \cup {Torn, Absent}

Inputs == [unit    : Contents,
           files   : [Supports -> DiskContents],
           secrets : [Secrets -> Values \cup {Absent}]]

ASSUME AbsentIsNoInput == Absent \notin Inputs

HostTypeOK ==
  /\ uid \in Uids \cup {NoUid}
  /\ disk \in [Names -> DiskContents]
  /\ loaded \in [Units -> DiskContents]
  /\ run \in [Units -> Inputs \cup {Absent}]
  /\ enabled \in SUBSET Natives
  /\ psecrets \in SecretMap
  /\ auth \in LoginMap
  /\ slice \in [Uids -> Limits]

HostInit ==
  /\ uid      = NoUid
  /\ disk     = [n \in Names |-> Absent]
  /\ loaded   = [u \in Units |-> Absent]
  /\ run      = [u \in Units |-> Absent]
  /\ enabled  = {}
  /\ psecrets = [k \in Secrets |-> Absent]
  /\ auth     = [r \in Registries |-> Absent]
  /\ slice    = [u \in Uids |-> NoLimits]

-----------------------------------------------------------------------------
(* What unit u reads when it starts with content c, in a home that holds   *)
(* files and secrets.                                                      *)
InputsOf(c, files, secrets) ==
  [unit    |-> c,
   files   |-> [s \in Supports |-> IF s \in FileRefs[c] \cup Hidden[c] THEN files[s] ELSE Absent],
   secrets |-> [k \in Secrets |-> IF k \in SecretRefs[c] THEN secrets[k] ELSE Absent]]

(* A unit starts if the manager knows it and podman finds its secrets. *)
Startable(u) ==
  /\ loaded[u] \in Contents
  /\ \A k \in SecretRefs[loaded[u]] : psecrets[k] # Absent

HostRestart(u) ==
  /\ Startable(u)
  /\ run' = [run EXCEPT ![u] = InputsOf(loaded[u], disk, psecrets)]

(* systemctl start: nothing happens to a unit that is already active. *)
HostStart(u) ==
  IF run[u] = Absent THEN HostRestart(u) ELSE UNCHANGED run

(* systemctl stop needs a unit the manager has read, or one still active. *)
Stoppable(u) == loaded[u] # Absent \/ run[u] # Absent

HostStop(u) == run' = [run EXCEPT ![u] = Absent]

(* disable --now needs the unit file; enabling and disabling reload. *)
Disableable(u) == disk[u] # Absent

HostReload == loaded' = [u \in Units |-> disk[u]]

HostDisable(u) ==
  /\ enabled' = enabled \ {u}
  /\ HostStop(u)
  /\ HostReload

HostEnable(u) ==
  /\ enabled' = enabled \cup {u}
  /\ HostStart(u)
  /\ HostReload

(* userdel -r: the user, its home and everything it ran are gone; the      *)
(* slice drop-in is under /etc and stays.                                  *)
HostUserGone ==
  /\ uid'      = NoUid
  /\ disk'     = [n \in Names |-> Absent]
  /\ loaded'   = [u \in Units |-> Absent]
  /\ run'      = [u \in Units |-> Absent]
  /\ enabled'  = {}
  /\ psecrets' = [k \in Secrets |-> Absent]
  /\ auth'     = [r \in Registries |-> Absent]
  /\ UNCHANGED slice
=============================================================================

------------------------------ MODULE AgentPass ------------------------------
(***************************************************************************)
(* The agent (internal/agent, cmdAgentRun): a timer starts pass after      *)
(* pass, one at a time.  A pass syncs the store, applies every cadre that  *)
(* placement.yml assigns to this node, removes every managed cadre that it *)
(* does not, and last writes a status.  The operator's commands take the   *)
(* node lock, so they come between two passes.                             *)
(*                                                                         *)
(* What Apply and Remove do to the host is in Reconcile and Lifecycle;     *)
(* here Apply records the revision it applied, or fails, and Remove drops  *)
(* the record, or does not.                                                *)
(***************************************************************************)
EXTENDS Identity, Naturals, Sequences

CONSTANTS
  BadFile,      \* a placement.yml that is missing or cannot be parsed
  Contents,     \* what a revision can hold: placement.yml, and a directory per cadre
  MaxRevs,      \* bound: revisions of the store
  MaxFailures,  \* bound: commands that fail, passes that die
  MaxTouches    \* bound: operator's commands, and damage to a record

ASSUME BoundsOfAgent == {MaxRevs, MaxFailures, MaxTouches} \subseteq Nat /\ MaxRevs > 0

(* A cadre's directory: it loads or not, the identity sealed in it and     *)
(* whether to this node, too, and the key its secrets are encrypted to.    *)
Bundle    == [loads : BOOLEAN, sealed : Keys \cup {None}, here : BOOLEAN, sops : Keys \cup {None}]
Placement == SUBSET Cadres

ASSUME ContentsTyped ==
  Contents \subseteq [placement : Placement \cup {BadFile}, bundle : [Cadres -> Bundle]]

VARIABLES
  revs,     \* the revisions of the store, the newest last
  applied,  \* the revision each state file records, 0 where there is no state file
  corrupt,  \* the cadres whose state file cannot be parsed
  status,   \* agent-status.json
  pass,     \* the pass under way: where it is, what is left, its Status
  synced,   \* the newest revision a Sync has returned
  touched,  \* cadres the operator removed by hand since they were applied
  failures, touches

passVars == <<revs, applied, corrupt, status, pass, synced, touched, failures, touches>>
avars    == <<idVars, passVars>>

Results == [Cadres -> {"none", "ok", "failed"}]
NoStatus == [rev |-> 0, error |-> FALSE, results |-> [c \in Cadres |-> "none"], removed |-> {}]
Statuses == [rev : 0..MaxRevs, error : BOOLEAN, results : Results, removed : SUBSET Cadres]
Idle == [at |-> "idle", todo |-> {}, st |-> NoStatus]

ATypeOK ==
  /\ ITypeOK
  /\ revs \in Seq(Contents) /\ Len(revs) \in 1..MaxRevs
  /\ applied \in [Cadres -> 0..MaxRevs]
  /\ corrupt \in SUBSET Cadres
  /\ status \in Statuses \cup {None}
  /\ pass \in [at : {"idle", "sync", "apply", "list", "remove", "write"},
               todo : SUBSET Cadres, st : Statuses]
  /\ synced \in 0..MaxRevs
  /\ touched \in SUBSET Cadres
  /\ failures \in 0..MaxFailures /\ touches \in 0..MaxTouches

AInit ==
  /\ IInit
  /\ \E content \in Contents : revs = <<content>>
  /\ applied = [c \in Cadres |-> 0] /\ corrupt = {}
  /\ status = None /\ pass = Idle
  /\ synced = 0 /\ touched = {}
  /\ failures = 0 /\ touches = 0

Newest == Len(revs)
Fails  == failures < MaxFailures /\ failures' = failures + 1
Of(r)  == revs[r].bundle
Assigned(r) == IF revs[r].placement = BadFile THEN {} ELSE revs[r].placement

-----------------------------------------------------------------------------
(* One pass. *)

(* agent.yml, the node's name, its key and the lock come first; a pass     *)
(* that lacks one of them ends here, and writes no status.                 *)
Start ==
  /\ pass.at = "idle" /\ nodeKey # None
  /\ pass' = [Idle EXCEPT !.at = "sync"]
  /\ UNCHANGED <<idVars, revs, applied, corrupt, status, synced, touched, failures, touches>>

(* Sync returns the newest revision, or the last one it returned. *)
Sync ==
  /\ pass.at = "sync"
  /\ \E r \in {Newest, synced} \ {0} :
       /\ synced' = IF r > synced THEN r ELSE synced
       /\ r # Newest => Fails
       /\ r = Newest => UNCHANGED failures
       /\ pass' = IF revs[r].placement = BadFile
                    THEN [pass EXCEPT !.at = "write", !.st.rev = r, !.st.error = TRUE]
                    ELSE [pass EXCEPT !.at = "apply", !.st.rev = r, !.todo = Assigned(r)]
  /\ UNCHANGED <<idVars, revs, applied, corrupt, status, touched, touches>>

SyncFails ==
  /\ pass.at = "sync" /\ Fails
  /\ pass' = [pass EXCEPT !.at = "write", !.st.error = TRUE]
  /\ UNCHANGED <<idVars, revs, applied, corrupt, status, synced, touched, touches>>

ResultStops(c, result) ==    \* mutant of Result: a failure ends the pass
  pass' = [pass EXCEPT !.todo = IF result = "ok" THEN @ \ {c} ELSE {}, !.st.results[c] = result]

Result(c, result) ==
  pass' = [pass EXCEPT !.todo = @ \ {c}, !.st.results[c] = result]

(* applyOne: user, identity, load and Apply, which decrypts the secrets    *)
(* and reads the record.                                                   *)
ApplyOne(c) ==
  LET b == Of(pass.st.rev)[c] IN
  /\ pass.at = "apply" /\ c \in pass.todo
  /\ IF b.sealed = None THEN UNCHANGED idVars ELSE InstallIdentity(c, b.sealed, b.here)
  /\ b.loads /\ c \notin corrupt /\ b.sops \in {None, identity'[c]}
  /\ applied' = [applied EXCEPT ![c] = pass.st.rev]
  /\ touched' = touched \ {c}
  /\ Result(c, "ok")
  /\ UNCHANGED <<revs, corrupt, status, synced, failures, touches>>

(* The cadre cannot be applied as things are, for a reason before or after *)
(* its identity is installed; or a command fails.                          *)
ApplyFails(c) ==
  LET b == Of(pass.st.rev)[c]
      unseals == b.sealed # None /\ nodeKey = "made" /\ b.here
      hopeless == \/ ~b.loads \/ c \in corrupt
                  \/ b.sealed # None /\ ~unseals
                  \/ b.sops \notin {None, IF unseals THEN b.sealed ELSE identity[c]}
  IN
  /\ pass.at = "apply" /\ c \in pass.todo
  /\ IF hopeless
       THEN /\ UNCHANGED failures
            /\ IF unseals THEN InstallIdentity(c, b.sealed, TRUE) ELSE UNCHANGED idVars
       ELSE /\ Fails
            /\ IF unseals THEN InstallFails(c, b.here) \/ InstallIdentity(c, b.sealed, b.here)
                          ELSE UNCHANGED idVars
  /\ Result(c, "failed")
  /\ UNCHANGED <<revs, applied, corrupt, status, synced, touched, touches>>

Managed == {c \in Cadres : applied[c] # 0}

AppliedAllOrNone ==    \* mutant of AppliedAll: nothing is removed after a failure
  /\ pass.at = "apply" /\ pass.todo = {}
  /\ pass' = IF \E c \in Cadres : pass.st.results[c] = "failed"
               THEN [pass EXCEPT !.at = "write"]
               ELSE [pass EXCEPT !.at = "remove", !.todo = Managed \ Assigned(pass.st.rev)]
  /\ UNCHANGED <<idVars, revs, applied, corrupt, status, synced, touched, failures, touches>>

(* List the state files; what is managed and not assigned is to go. *)
AppliedAll ==
  /\ pass.at = "apply" /\ pass.todo = {}
  /\ \/ pass' = [pass EXCEPT !.at = "remove", !.todo = Managed \ Assigned(pass.st.rev)]
        /\ UNCHANGED failures
     \/ Fails /\ pass' = [pass EXCEPT !.at = "write", !.st.error = TRUE]
  /\ UNCHANGED <<idVars, revs, applied, corrupt, status, synced, touched, touches>>

(* Remove refuses a record that it cannot parse, and none of its commands  *)
(* is checked; what it returns is not looked at.                           *)
RemoveOne(c) ==
  /\ pass.at = "remove" /\ c \in pass.todo
  /\ pass' = [pass EXCEPT !.todo = @ \ {c}, !.st.removed = @ \cup {c}]
  /\ \/ c \notin corrupt /\ applied' = [applied EXCEPT ![c] = 0] /\ UNCHANGED failures
     \/ c \notin corrupt /\ UNCHANGED applied /\ Fails
     \/ c \in corrupt /\ UNCHANGED <<applied, failures>>
  /\ UNCHANGED <<idVars, revs, corrupt, status, synced, touched, touches>>

RemovedAll ==
  /\ pass.at = "remove" /\ pass.todo = {}
  /\ pass' = [pass EXCEPT !.at = "write"]
  /\ UNCHANGED <<idVars, revs, applied, corrupt, status, synced, touched, failures, touches>>

(* The status goes to a temporary file that is renamed; a failure of that  *)
(* is a warning.                                                           *)
WriteStatus ==
  /\ pass.at = "write" /\ pass' = Idle
  /\ \/ status' = pass.st /\ UNCHANGED failures
     \/ UNCHANGED status /\ Fails
  /\ UNCHANGED <<idVars, revs, applied, corrupt, synced, touched, touches>>

Dies ==
  /\ pass.at # "idle" /\ Fails
  /\ pass' = Idle
  /\ UNCHANGED <<idVars, revs, applied, corrupt, status, synced, touched, touches>>

PassStep ==
  \/ Start \/ Sync \/ AppliedAll \/ RemovedAll \/ WriteStatus
  \/ \E c \in Cadres : ApplyOne(c) \/ ApplyFails(c) \/ RemoveOne(c)

-----------------------------------------------------------------------------
(* Around the passes: the store, `node key init`, the operator's commands. *)

Publish ==
  /\ Len(revs) < MaxRevs
  /\ \E content \in Contents : revs' = Append(revs, content)
  /\ UNCHANGED <<idVars, applied, corrupt, status, pass, synced, touched, failures, touches>>

KeyInit == EnsureIdentity /\ UNCHANGED passVars

Touch == pass.at = "idle" /\ touches < MaxTouches /\ touches' = touches + 1

CadreNew ==
  /\ Touch
  /\ \E c \in Cadres, k \in Keys : New(c, k)
  /\ UNCHANGED <<revs, applied, corrupt, status, pass, synced, touched, failures>>

CadreRm(c) ==
  /\ Touch /\ c \notin corrupt
  /\ applied' = [applied EXCEPT ![c] = 0]
  /\ touched' = touched \cup {c}
  /\ UNCHANGED <<idVars, revs, corrupt, status, pass, synced, failures>>

(* The disk damages a state file. *)
Corrupt(c) ==
  /\ Touch /\ applied[c] # 0
  /\ corrupt' = corrupt \cup {c}
  /\ UNCHANGED <<idVars, revs, applied, status, pass, synced, touched, failures>>

ANext ==
  \/ PassStep \/ SyncFails \/ Dies \/ Publish \/ KeyInit \/ CadreNew
  \/ \E c \in Cadres : CadreRm(c) \/ Corrupt(c)

ASpec == AInit /\ [][ANext]_avars

(* The timer starts passes for ever, and a pass goes on.  Deploy makes the *)
(* node key before it installs the timer.                                  *)
AFairSpec == ASpec /\ WF_avars(PassStep) /\ WF_avars(KeyInit)

-----------------------------------------------------------------------------
(* Properties. *)

(* Of what the store holds in the end, what can be applied here. *)
Appliable(c) ==
  LET b == Of(Newest)[c] IN
  /\ b.loads /\ c \notin corrupt
  /\ b.sealed # None => nodeKey = "made" /\ b.here
  /\ b.sops \in {None, IF b.sealed = None THEN identity[c] ELSE b.sealed}

(* Whatever else on the node fails for good, each assigned cadre that can  *)
(* be applied comes to be applied as the store has it: a cadre that fails  *)
(* does not hold up the others, and an identity that was cut short is put  *)
(* right by a later pass.                                                  *)
EachConverges ==
  \A c \in Cadres : <>[](c \in Assigned(Newest) /\ Appliable(c) => applied[c] = Newest)

(* A cadre that is assigned elsewhere comes to be unmanaged here, whatever *)
(* fails; unless its record is damaged, which Remove refuses every time.   *)
GoneInTheEnd ==
  \A c \in Cadres : <>[](revs[Newest].placement # BadFile /\ c \notin Assigned(Newest)
                           => c \in corrupt \/ applied[c] = 0)

(* The keys that `cadre new` printed and `cadre recipient` prints, which   *)
(* secrets are then encrypted to, stay the cadre's: "Idempotent:           *)
(* re-running returns the existing recipient" (docs/cli.md), until the     *)
(* store brings another: recipient.txt does not follow that one.           *)
PrintedIsIdentity ==
  \A c \in Cadres : \A k \in {printed[c], Recipient(c)} \cap Keys :
    identity[c] = k \/ \E r \in 1..Newest : Of(r)[c].sealed # None
=============================================================================

-------------------------------- MODULE Store --------------------------------
(***************************************************************************)
(* What the agent relies on (internal/store, the Store interface): "Sync   *)
(* returns a local checkout path and the fetched revision", or an error.   *)
(* A revision that is returned is one the configured source has or had,    *)
(* and the checkout holds that revision's tree, all of it and nothing      *)
(* else, unless the directory was damaged since it was last cloned.        *)
(***************************************************************************)
CONSTANTS
  Sources,    \* what agent.yml can name
  Revs,       \* the revisions of all sources
  Checkouts,  \* what can be in the checkout directory
  Tree,       \* [Revs -> Checkouts]: the tree of a revision
  NoAnswer    \* no Sync has returned a checkout for this configuration

VARIABLES
  source,  \* the configured source
  had,     \* the revisions that each source has or had at its tip
  sound,   \* nothing has damaged the checkout since it was cloned
  answer   \* what the last Sync returned

vars == <<source, had, sound, answer>>

Answers == [rev : Revs, files : Checkouts]

Init ==
  /\ source \in Sources
  /\ \A s \in Sources : had[s] \in SUBSET Revs
  /\ sound = TRUE
  /\ answer = NoAnswer

(* The operator: a source gets a revision, or agent.yml names another. *)
Publish(s) ==
  /\ \E r \in Revs : had' = [had EXCEPT ![s] = @ \cup {r}]
  /\ UNCHANGED <<source, sound, answer>>

Configure(s) ==
  /\ source' = s /\ answer' = NoAnswer
  /\ UNCHANGED <<had, sound>>

(* Sync is under way, or it has failed: the agent has nothing to apply. *)
Refuse ==
  /\ answer' = NoAnswer
  /\ sound' \in BOOLEAN
  /\ UNCHANGED <<source, had>>

Reply ==
  /\ answer' \in Answers
  /\ answer'.rev \in had[source]
  /\ sound' => answer'.files = Tree[answer'.rev]
  /\ sound' \in BOOLEAN
  /\ UNCHANGED <<source, had>>

Next ==
  \/ Refuse \/ Reply
  \/ \E s \in Sources : Configure(s) \/ Publish(s)

Spec == Init /\ [][Next]_vars
=============================================================================

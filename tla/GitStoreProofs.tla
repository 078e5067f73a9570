---------------------------- MODULE GitStoreProofs ----------------------------
(***************************************************************************)
(* Git.Sync keeps the promise of the Store interface, for any number of    *)
(* repositories, branches, commits, force-pushes, changes of agent.yml and *)
(* failures.                                                               *)
(***************************************************************************)
EXTENDS GitStore, TLAPS

(* HEAD is a revision that its branch has or had; a Sync that pulls or     *)
(* writes files has a clone of the configured source, one that clones has  *)
(* an empty place; and no answer stands while a Sync runs.                 *)
HeadsKnown ==
  /\ \A s \in Sources : tip[s] \in had[s]
  /\ repo.at = "ready" => repo.head \in had[repo.origin]
  /\ pc \in {"pull", "pulling", "cloning"} => CacheMatches
  /\ pc # "idle" => answer = NoAnswer

(* What a repository is, at each stage of its life. *)
LEMMA RepoCases ==
  ASSUME repo \in Repos
  PROVE  /\ repo.at \in {"none", "half", "broken", "ready"}
         /\ repo.at = "ready" =>
              /\ repo.origin \in Sources /\ repo.head \in Revs
              /\ \A r \in Revs : /\ [repo EXCEPT !.head = r] \in Repos
                                 /\ [repo EXCEPT !.head = r].at = "ready"
                                 /\ [repo EXCEPT !.head = r].origin = repo.origin
                                 /\ [repo EXCEPT !.head = r].head = r
BY DEF Repos

(* A commit and a force-push give the branch a revision. *)
LEMMA NextRevs ==
  ASSUME GTypeOK, NEW s \in Sources
  PROVE  /\ tip[s].n < MaxCommits => [tip[s] EXCEPT !.n = @ + 1] \in Revs
         /\ tip[s].line < MaxRewrites => [First(s) EXCEPT !.line = tip[s].line + 1] \in Revs
<1>1. tip[s] \in Revs
  BY DEF GTypeOK
<1>2. tip[s].source \in Sources /\ tip[s].line \in 0..MaxRewrites /\ tip[s].n \in 0..MaxCommits
  BY <1>1 DEF Revs
<1>3. MaxCommits \in Nat /\ MaxRewrites \in Nat
  BY BoundsTyped
<1>4. /\ tip[s].n < MaxCommits => tip[s].n + 1 \in 0..MaxCommits
      /\ tip[s].line < MaxRewrites => tip[s].line + 1 \in 0..MaxRewrites
      /\ 0 \in 0..MaxCommits
  BY <1>2, <1>3
<1>5. tip[s] = [source |-> tip[s].source, line |-> tip[s].line, n |-> tip[s].n]
  BY <1>1 DEF Revs
<1>6. [tip[s] EXCEPT !.n = @ + 1]
        = [source |-> tip[s].source, line |-> tip[s].line, n |-> tip[s].n + 1]
  BY <1>5
<1>7. [First(s) EXCEPT !.line = tip[s].line + 1]
        = [source |-> s, line |-> tip[s].line + 1, n |-> 0]
  BY DEF First
<1>. QED
  BY <1>2, <1>4, <1>6, <1>7 DEF Revs

(* Every state has the right type, and HEAD is as HeadsKnown says.         *)
THEOREM GitTypeCorrect == GSpec => [](GTypeOK /\ HeadsKnown)
<1> DEFINE Inv == GTypeOK /\ HeadsKnown
<1>1. GInit => Inv
  <2>1. \A s \in Sources : First(s) \in Revs
    BY BoundsTyped DEF First, Revs
  <2>2. NoRepo \in Repos /\ Nothing \in Checkouts
    BY DEF NoRepo, Repos, Nothing, Checkouts
  <2>. QED
    BY <2>1, <2>2, BoundsTyped DEF GInit, GTypeOK, HeadsKnown, NoRepo
<1>2. Inv /\ [Next]_gitVars => Inv'
  <2> SUFFICES ASSUME GTypeOK, HeadsKnown, [Next]_gitVars PROVE Inv'
    OBVIOUS
  <2>0. repo \in Repos /\ tip[source] \in Revs /\ source \in Sources
    BY DEF GTypeOK
  <2>a. /\ NoRepo \in Repos /\ [at |-> "half"] \in Repos /\ [at |-> "broken"] \in Repos
        /\ Nothing \in Checkouts
    BY DEF NoRepo, Repos, Nothing, Checkouts
  <2>b. failures + 1 \in 0..MaxFailures \/ ~(failures < MaxFailures)
    BY BoundsTyped DEF GTypeOK
  <2>1. ASSUME NEW s \in Sources, Commit(s) \/ Rewrite(s) PROVE Inv'
    <3>1. PICK r \in Revs : Moves(s, r)
      BY <2>1, NextRevs DEF Commit, Rewrite
    <3>2. /\ tip' \in [Sources -> Revs] /\ had' \in [Sources -> SUBSET Revs]
          /\ \A t \in Sources : tip'[t] \in had'[t] /\ had[t] \subseteq had'[t]
      BY <3>1 DEF Moves, GTypeOK, HeadsKnown
    <3>3. UNCHANGED <<source, repo, files, pc, answer, switches, failures>>
      BY <3>1 DEF Moves
    <3>. QED
      BY <2>0, <3>2, <3>3, RepoCases DEF GTypeOK, HeadsKnown, CacheMatches
  <2>2. ASSUME NEW s \in Sources, Reconfigure(s) PROVE Inv'
    BY <2>2, BoundsTyped DEF Reconfigure, GTypeOK, HeadsKnown, CacheMatches
  <2>3. CASE GBegin
    BY <2>3, <2>a DEF GBegin, GTypeOK, HeadsKnown, CacheMatches, NoRepo
  <2>4. CASE Refused
    BY <2>4, <2>b DEF Refused, Fails, GTypeOK, HeadsKnown, CacheMatches
  <2>5. CASE RemoveFails
    <3>1. files' \in Checkouts
      BY <2>5 DEF RemoveFails, GTypeOK, Checkouts
    <3>2. repo' \in Repos /\ (repo'.at = "ready" => repo' = repo)
      BY <2>0, <2>5, <2>a DEF RemoveFails, NoRepo
    <3>. QED
      BY <2>5, <2>b, <3>1, <3>2 DEF RemoveFails, Fails, GTypeOK, HeadsKnown, CacheMatches
  <2>6. CASE Fetched
    <3>1. repo' \in Repos
      BY <2>0, <2>6 DEF Fetched, Repos
    <3>2. repo'.at = "ready" /\ repo'.origin = source /\ repo'.head = tip[source]
      BY <2>6 DEF Fetched
    <3>. QED
      BY <2>0, <2>6, <3>1, <3>2 DEF Fetched, GTypeOK, HeadsKnown, CacheMatches
  <2>7. CASE CloneFails
    BY <2>7, <2>a, <2>b DEF CloneFails, Fails, GTypeOK, HeadsKnown, CacheMatches, NoRepo
  <2>8. ASSUME NEW head \in Revs, head \in had[source], pc \in {"pull", "pulling", "cloning"},
               repo' \in {repo, [repo EXCEPT !.head = head]},
               files' \in Checkouts, pc' \in {"idle", "pulling", pc},
               pc' = "idle" => answer' \in {answer, [rev |-> repo'.head, files |-> files']},
               pc' # "idle" => answer' = answer,
               failures' \in 0..MaxFailures, UNCHANGED <<tip, had, source, switches>>
        PROVE  Inv'
    <3>1. repo.at = "ready" /\ repo.origin = source
      BY <2>8 DEF HeadsKnown, CacheMatches
    <3>2. repo' \in Repos /\ repo'.at = "ready" /\ repo'.origin = source /\ repo'.head \in had[source]
      <4>1. repo.head \in had[source]
        BY <3>1 DEF HeadsKnown
      <4>2. CASE repo' = repo
        BY <2>0, <3>1, <4>1, <4>2
      <4>3. CASE repo' = [repo EXCEPT !.head = head]
        BY <2>0, <2>8, <3>1, <4>3, RepoCases
      <4>. QED
        BY <2>8, <4>2, <4>3
    <3>3. repo'.head \in Revs
      BY <2>0, <2>8, <3>1, RepoCases
    <3>4. answer' \in [rev : Revs, files : Checkouts] \cup {NoAnswer}
      BY <2>8, <3>3 DEF GTypeOK
    <3>. QED
      BY <2>8, <3>2, <3>4 DEF GTypeOK, HeadsKnown, CacheMatches
  <2>9. tip[source] \in had[source]
    BY <2>0 DEF HeadsKnown
  <2>10. failures \in 0..MaxFailures /\ files \in Checkouts
    BY DEF GTypeOK
  <2>11. CASE PullCurrent
    BY <2>0, <2>8, <2>9, <2>10, <2>11 DEF PullCurrent, Return
  <2>12. CASE PullMoves
    BY <2>0, <2>8, <2>9, <2>10, <2>12 DEF PullMoves
  <2>13. CASE PullFails
    BY <2>0, <2>8, <2>9, <2>10, <2>13, <2>b DEF PullFails, LastGood, Return, Fails
  <2>14. ASSUME NEW k \in Keys, Write(k) PROVE Inv'
    <3>1. files' \in Checkouts
      BY <2>0, <2>14, RepoCases DEF Write, GTypeOK, Checkouts, HeadsKnown, CacheMatches
    <3>. QED
      BY <2>0, <2>8, <2>9, <2>10, <2>14, <3>1 DEF Write
  <2>15. CASE Checked
    BY <2>0, <2>8, <2>9, <2>10, <2>15 DEF Checked, Return
  <2>16. CASE WriteFails
    BY <2>0, <2>8, <2>9, <2>10, <2>16, <2>b DEF WriteFails, LastGood, Return, Fails
  <2>17. CASE Dies
    BY <2>17, <2>a, <2>b DEF Dies, Fails, GTypeOK, HeadsKnown, CacheMatches, NoRepo
  <2>18. CASE UNCHANGED gitVars
    BY <2>18 DEF gitVars, GTypeOK, HeadsKnown, CacheMatches
  <2>. QED
    BY <2>1, <2>2, <2>3, <2>4, <2>5, <2>6, <2>7, <2>11, <2>12, <2>13, <2>14, <2>15, <2>16, <2>17,
       <2>18 DEF Next, SyncStep
<1>. QED
  BY <1>1, <1>2, PTL DEF GSpec

(* A Sync that is not through yet, or that fails, is a refusal; one that   *)
(* returns has set HEAD to a revision of the configured source, and where  *)
(* the files are not those of HEAD they were damaged.                      *)
THEOREM GitImplementsStore == GSpec => RefinesStore
<1>1. GInit => Abstract!Init
  <2>1. \A s \in Sources : First(s) \in Revs
    BY BoundsTyped DEF First, Revs
  <2>. QED
    BY <2>1 DEF GInit, Abstract!Init, Torn, NoRepo
<1>2. GTypeOK /\ HeadsKnown /\ [Next]_gitVars => [Abstract!Next]_Abstract!vars
  <2> SUFFICES ASSUME GTypeOK, HeadsKnown, [Next]_gitVars
               PROVE  Abstract!Next \/ UNCHANGED Abstract!vars
    OBVIOUS
  <2> USE DEF Abstract!Next
  <2>0. repo \in Repos /\ tip[source] \in Revs /\ source \in Sources
        /\ tip[source] \in had[source] /\ files \in Checkouts
    BY DEF GTypeOK, HeadsKnown
  <2>1. ASSUME NEW s \in Sources, Commit(s) \/ Rewrite(s)
        PROVE  Abstract!Publish(s)
    <3>1. PICK r \in Revs : Moves(s, r)
      BY <2>1, NextRevs DEF Commit, Rewrite
    <3>. QED
      BY <3>1 DEF Moves, Abstract!Publish, Torn, Dirty
  <2>2. ASSUME NEW s \in Sources, Reconfigure(s)
        PROVE  Abstract!Configure(s)
    BY <2>2 DEF Reconfigure, Abstract!Configure, Torn, Dirty
  <2>3. ASSUME answer' = NoAnswer, UNCHANGED <<had, source>>
        PROVE  Abstract!Refuse
    BY <2>3 DEF Abstract!Refuse
  <2>4. CASE GBegin \/ Refused \/ RemoveFails
    BY <2>3, <2>4 DEF GBegin, Refused, RemoveFails
  <2>5. CASE Fetched \/ CloneFails \/ PullMoves \/ Dies \/ \E k \in Keys : Write(k)
    BY <2>3, <2>5 DEF Fetched, CloneFails, PullMoves, Dies, Write, HeadsKnown
  <2>6. ASSUME Return, repo'.at = "ready", repo'.head \in Revs, repo'.head \in had[source],
               files' \in Checkouts, pc' = "idle", UNCHANGED <<had, source>>
        PROVE  Abstract!Reply
    <3>1. answer' \in Abstract!Answers
      BY <2>6 DEF Return, Abstract!Answers
    <3>2. ~Torn' => answer'.files = Tree[answer'.rev]
      BY <2>6 DEF Return, Torn, Dirty
    <3>. QED
      BY <2>6, <3>1, <3>2 DEF Return, Abstract!Reply
  <2>7. CASE PullCurrent \/ PullFails \/ Checked \/ WriteFails
    <3>1. repo.at = "ready" /\ repo.origin = source
      BY <2>7 DEF PullCurrent, PullFails, Checked, WriteFails, HeadsKnown, CacheMatches
    <3>2. repo' \in {repo, [repo EXCEPT !.head = tip[source]]}
      BY <2>7 DEF PullCurrent, PullFails, Checked, WriteFails
    <3>3. repo'.at = "ready" /\ repo'.head \in Revs /\ repo'.head \in had[source]
      BY <2>0, <3>1, <3>2, RepoCases DEF HeadsKnown
    <3>4. Return /\ pc' = "idle" /\ UNCHANGED <<files, had, source>>
      BY <2>7 DEF PullCurrent, PullFails, Checked, WriteFails, LastGood
    <3>. QED
      BY <2>0, <2>6, <3>3, <3>4
  <2>8. CASE UNCHANGED gitVars
    BY <2>8 DEF gitVars, Abstract!vars, Torn, Dirty
  <2>. QED
    BY <2>1, <2>2, <2>4, <2>5, <2>7, <2>8 DEF Next, SyncStep
<1>. QED
  BY <1>1, <1>2, GitTypeCorrect, PTL DEF GSpec, RefinesStore, Abstract!Spec
=============================================================================

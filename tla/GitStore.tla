------------------------------ MODULE GitStore -------------------------------
(***************************************************************************)
(* The git store (internal/store, Git.Sync): clone into the cache, or pull *)
(* into a clone of the configured URL and branch, and when the pull fails  *)
(* go on with what HEAD names.  The agent reads the cadres from the        *)
(* directory that Sync returns.                                            *)
(*                                                                         *)
(* go-git is external.  A clone that fails takes its new directory away; a *)
(* pull is fast-forward only; both set HEAD before they write the files    *)
(* one by one.  Every file is another one in every revision, so a file in  *)
(* the cache is named by the revision it is from.                          *)
(***************************************************************************)
EXTENDS Naturals

CONSTANTS
  Sources,      \* [url, branch] pairs that agent.yml can name
  Keys,         \* files of a tree
  Absent,       \* no such file
  NoAnswer,     \* Sync has returned no checkout
  MaxCommits,   \* bound: commits on a branch, per line of history
  MaxRewrites,  \* bound: force-pushes of a branch
  MaxSwitches,  \* bound: changes of the source in agent.yml
  MaxFailures   \* bound: requests, writes and processes that fail

ASSUME BoundsTyped == {MaxCommits, MaxRewrites, MaxSwitches, MaxFailures} \subseteq Nat

Revs      == [source : Sources, line : 0..MaxRewrites, n : 0..MaxCommits]
Tree      == [r \in Revs |-> [k \in Keys |-> r]]
Checkouts == [Keys -> Revs \cup {Absent}]
Nothing   == [k \in Keys |-> Absent]

(* b is a, or a fast-forward of a. *)
Descends(a, b) == a.source = b.source /\ a.line = b.line /\ a.n <= b.n

NoRepo == [at |-> "none"]

VARIABLES
  tip,     \* what every branch points at
  had,     \* what it has ever pointed at
  source,  \* the source agent.yml names
  repo,    \* .git in the cache: its origin and HEAD, once it has both
  files,   \* the files in the cache
  pc,      \* where the running Sync is
  answer,  \* what the last Sync returned
  switches, failures   \* how much of each bound is used up

gitVars == <<tip, had, source, repo, files, pc, answer, switches, failures>>

Repos == [at : {"none", "half", "broken"}] \cup [at : {"ready"}, origin : Sources, head : Revs]

GTypeOK ==
  /\ tip \in [Sources -> Revs]
  /\ had \in [Sources -> SUBSET Revs]
  /\ source \in Sources
  /\ repo \in Repos
  /\ files \in Checkouts
  /\ pc \in {"idle", "clone", "pull", "cloning", "pulling"}
  /\ answer \in [rev : Revs, files : Checkouts] \cup {NoAnswer}
  /\ switches \in 0..MaxSwitches
  /\ failures \in 0..MaxFailures

First(s) == [source |-> s, line |-> 0, n |-> 0]

GInit ==
  /\ tip = [s \in Sources |-> First(s)]
  /\ had = [s \in Sources |-> {First(s)}]
  /\ source \in Sources
  /\ repo = NoRepo /\ files = Nothing
  /\ pc = "idle" /\ answer = NoAnswer
  /\ switches = 0 /\ failures = 0

-----------------------------------------------------------------------------
(* The operator. *)

Moves(s, r) ==
  /\ tip' = [tip EXCEPT ![s] = r]
  /\ had' = [had EXCEPT ![s] = @ \cup {r}]
  /\ UNCHANGED <<source, repo, files, pc, answer, switches, failures>>

Commit(s)  == tip[s].n < MaxCommits /\ Moves(s, [tip[s] EXCEPT !.n = @ + 1])
Rewrite(s) == tip[s].line < MaxRewrites /\ Moves(s, [First(s) EXCEPT !.line = tip[s].line + 1])

Reconfigure(s) ==
  /\ pc = "idle" /\ s # source
  /\ switches < MaxSwitches /\ switches' = switches + 1
  /\ source' = s /\ answer' = NoAnswer
  /\ UNCHANGED <<tip, had, repo, files, pc, failures>>

-----------------------------------------------------------------------------
(* One Sync. *)

CacheMatchesUrl ==    \* mutant of CacheMatches: the branch is not compared
  repo.at = "ready" /\ repo.origin.url = source.url

(* The cache was cloned from this URL, and HEAD is on this branch. *)
CacheMatches == repo.at = "ready" /\ repo.origin = source

Return == answer' = [rev |-> repo'.head, files |-> files']

Fails == failures < MaxFailures /\ failures' = failures + 1

GBeginInPlace ==    \* mutant of GBegin: clones over another store's cache, and fails
  /\ pc = "idle" /\ repo.at # "broken"
  /\ answer' = NoAnswer
  /\ IF CacheMatches
       THEN pc' = "pull" /\ UNCHANGED <<repo, files>>
       ELSE pc' = (IF repo.at = "none" THEN "clone" ELSE pc) /\ UNCHANGED <<repo, files>>
  /\ UNCHANGED <<tip, had, source, switches, failures>>

(* Open the cache; another store's is removed, and cloned anew. *)
GBegin ==
  /\ pc = "idle" /\ repo.at # "broken"
  /\ answer' = NoAnswer
  /\ IF CacheMatches
       THEN pc' = "pull" /\ UNCHANGED <<repo, files>>
       ELSE /\ pc' = "clone" /\ repo' = NoRepo
            /\ files' = IF repo.at = "none" THEN files ELSE Nothing
  /\ UNCHANGED <<tip, had, source, switches, failures>>

(* No credentials, or a cache that cannot be opened: an error. *)
Refused ==
  /\ pc = "idle" /\ answer' = NoAnswer
  /\ Fails \/ (repo.at = "broken" /\ UNCHANGED failures)
  /\ UNCHANGED <<tip, had, source, repo, files, pc, switches>>

(* Removing another store's cache fails or dies half-way. *)
RemoveFails ==
  /\ pc = "idle" /\ repo.at \in {"half", "ready"} /\ ~CacheMatches
  /\ Fails /\ answer' = NoAnswer
  /\ repo' \in {repo, NoRepo, [at |-> "half"], [at |-> "broken"]}
  /\ \E gone \in SUBSET Keys : files' = [k \in Keys |-> IF k \in gone THEN Absent ELSE files[k]]
  /\ UNCHANGED <<tip, had, source, pc, switches>>

FetchedUnborn ==    \* mutant of Fetched: a repository whose HEAD is not set counts as one
  /\ pc = "clone" /\ pc' = "cloning"
  /\ repo' = [at |-> "ready", origin |-> source, head |-> Absent]
  /\ UNCHANGED <<tip, had, source, files, answer, switches, failures>>

(* The clone has fetched the branch and set HEAD; the files come next. *)
Fetched ==
  /\ pc = "clone" /\ pc' = "cloning"
  /\ repo' = [at |-> "ready", origin |-> source, head |-> tip[source]]
  /\ UNCHANGED <<tip, had, source, files, answer, switches, failures>>

(* A clone that fails leaves no directory. *)
CloneFails ==
  /\ pc \in {"clone", "cloning"} /\ pc' = "idle"
  /\ Fails
  /\ repo' = NoRepo /\ files' = Nothing
  /\ UNCHANGED <<tip, had, source, answer, switches>>

Dirty == files # Tree[repo.head]

Current == tip[source] = repo.head

PullCurrent ==
  /\ pc = "pull" /\ pc' = "idle"
  /\ Current
  /\ UNCHANGED <<tip, had, source, repo, files, switches, failures>>
  /\ Return

(* HEAD and the files move to the branch's new tip, also where the files   *)
(* were not those of HEAD.                                                 *)
PullMoves ==
  /\ pc = "pull" /\ pc' = "pulling"
  /\ ~Current /\ Descends(repo.head, tip[source])
  /\ repo' = [repo EXCEPT !.head = tip[source]]
  /\ UNCHANGED <<tip, had, source, files, answer, switches, failures>>

(* A valid checkout exists: HEAD resolves. *)
LastGood == Return

(* The remote is away or has been force-pushed, or go-git will not touch   *)
(* files that were changed, before or after it has set HEAD.               *)
PullFails ==
  /\ pc = "pull" /\ pc' = "idle"
  /\ \/ Fails /\ UNCHANGED repo
     \/ ~Current /\ ~Descends(repo.head, tip[source]) /\ UNCHANGED <<repo, failures>>
     \/ /\ Dirty /\ ~Current /\ Descends(repo.head, tip[source])
        /\ repo' \in {repo, [repo EXCEPT !.head = tip[source]]}
        /\ UNCHANGED failures
  /\ UNCHANGED <<tip, had, source, files, switches>>
  /\ LastGood

Write(k) ==
  /\ pc \in {"cloning", "pulling"} /\ files[k] # repo.head
  /\ files' = [files EXCEPT ![k] = repo.head]
  /\ UNCHANGED <<tip, had, source, repo, pc, answer, switches, failures>>

Checked ==
  /\ pc \in {"cloning", "pulling"} /\ ~Dirty
  /\ pc' = "idle"
  /\ UNCHANGED <<tip, had, source, repo, files, switches, failures>>
  /\ Return

(* A file cannot be written: the pull has failed, and HEAD resolves. *)
WriteFails ==
  /\ pc = "pulling" /\ pc' = "idle"
  /\ Fails
  /\ UNCHANGED <<tip, had, source, repo, files, switches>>
  /\ LastGood

(* The process dies; a .git that was being made may be without a HEAD, or  *)
(* such that it cannot be opened.                                          *)
Dies ==
  /\ pc # "idle" /\ pc' = "idle"
  /\ Fails
  /\ IF pc = "clone" THEN repo' \in {NoRepo, [at |-> "half"], [at |-> "broken"]}
                     ELSE UNCHANGED repo
  /\ UNCHANGED <<tip, had, source, files, answer, switches>>

SyncStep ==
  \/ GBegin \/ Fetched \/ PullCurrent \/ PullMoves \/ Checked
  \/ \E k \in Keys : Write(k)
  \/ PullFails

Next ==
  \/ SyncStep \/ Refused \/ RemoveFails \/ CloneFails \/ WriteFails \/ Dies
  \/ \E s \in Sources : Commit(s) \/ Rewrite(s) \/ Reconfigure(s)

GSpec == GInit /\ [][Next]_gitVars

(* The timer starts pass after pass, and five minutes bound a Sync. *)
GFairSpec == GSpec /\ WF_gitVars(SyncStep)

-----------------------------------------------------------------------------
(* Properties. *)

(* The cache was damaged and not cloned anew since: a write, a removal or  *)
(* a process ended half-way, and HEAD does not tell.                       *)
Torn == repo.at = "ready" /\ pc \in {"idle", "pull"} /\ Dirty

(* Git.Sync keeps the promise of Store: the tree it returns is that of the *)
(* revision it returns, which is the configured source's and never         *)
(* another's, through failed pulls, force-pushes and reconfigurations.     *)
Abstract == INSTANCE Store WITH sound <- ~Torn

RefinesStore == Abstract!Spec

(* The checkout can no longer follow its branch by itself: the branch was  *)
(* force-pushed, .git cannot be opened, or the files are torn.             *)
Stuck == repo.at = "broken" \/ Torn \/ (CacheMatches /\ ~Descends(repo.head, tip[source]))

(* Once the operator leaves the branch alone and nothing fails any more,   *)
(* the cache comes to be the branch's tip, or is stuck.                    *)
FollowsTip == <>[](Stuck \/ (CacheMatches /\ files = Tree[tip[source]]))
=============================================================================

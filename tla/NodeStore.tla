------------------------------ MODULE NodeStore ------------------------------
(***************************************************************************)
(* The two stores as a node has them (cmdAgentRun): agent.yml says which   *)
(* kind a pass uses, and both kinds keep their checkout in one directory,  *)
(* /var/lib/rucher/store.  The git clone has its .git in it; the state     *)
(* file of the S3 mirror is beside it and outlives a change of kind.       *)
(***************************************************************************)
EXTENDS S3Store

CONSTANTS
  GitSources,      \* [url, branch] pairs
  NoAnswer,
  MaxKindSwitches  \* bound: changes of store.kind in agent.yml

VARIABLES kind, kindSwitches, tip, had, source, repo, gpc, answer

Git == INSTANCE GitStore WITH
  Sources <- GitSources, files <- cache, pc <- gpc,
  MaxCommits <- 0, MaxRewrites <- 0

gitOnly == <<tip, had, source, repo, gpc, answer>>
nodeVars == <<vars, gitOnly, kind, kindSwitches>>

NodeInit ==
  /\ Init
  /\ tip = [s \in GitSources |-> Git!First(s)]
  /\ had = [s \in GitSources |-> {Git!First(s)}]
  /\ source \in GitSources
  /\ repo = Git!NoRepo /\ gpc = "idle" /\ answer = NoAnswer
  /\ kind \in {"git", "s3"} /\ kindSwitches = 0

GitSync ==
  /\ kind = "git" /\ Git!SyncStep
  /\ dir' = (repo'.at # "none" \/ cache' # Nothing)
  /\ UNCHANGED <<remote, past, cfg, left, kept, saved, pc, pending, listing, served, changes>>

(* Clearing the cache of another S3 store takes a .git along. *)
S3Sync ==
  /\ kind = "s3" /\ (Sync \/ ListFails)
  /\ repo' = IF pc = "list" /\ pc' = "get" /\ saved.store # cfg THEN Git!NoRepo ELSE repo
  /\ UNCHANGED <<tip, had, source, gpc, answer>>

SwitchKind ==
  /\ pc = "idle" /\ gpc = "idle"
  /\ kindSwitches < MaxKindSwitches /\ kindSwitches' = kindSwitches + 1
  /\ kind' = IF kind = "git" THEN "s3" ELSE "git"
  /\ served' = "nothing" /\ answer' = NoAnswer
  /\ UNCHANGED <<storeVars, dir, cache, kept, saved, pc, pending, listing, changes, switches, failures,
                 tip, had, source, repo, gpc>>

NodeNext == ((GitSync \/ S3Sync) /\ UNCHANGED <<kind, kindSwitches>>) \/ SwitchKind

NodeSpec == NodeInit /\ [][NodeNext]_nodeVars

(* "The cache belongs to one store ... start clean rather than mix two     *)
(* stores" (the comment in S3.Sync): what a Sync returns is of the store   *)
(* that agent.yml names, file by file.                                     *)
OneStore ==
  /\ served # "nothing" =>
       \A k \in Keys : cache[k] \in {Absent, remote[cfg][k]} \cup past[cfg][k]
  /\ answer # NoAnswer => answer.files = Git!Tree[answer.rev]
=============================================================================

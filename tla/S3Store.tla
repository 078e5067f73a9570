------------------------------- MODULE S3Store -------------------------------
(***************************************************************************)
(* The incremental S3 mirror (internal/store, S3.Sync): list the bucket,   *)
(* download what changed by ETag since the last recorded listing, delete   *)
(* what left, and record the listing last.  The agent reads the cadres     *)
(* from the cache directory that a successful Sync returns.                *)
(*                                                                         *)
(* A content stands for its ETag too (an MD5 of the content), so equal     *)
(* contents have equal ETags.  A map of objects is a total function that   *)
(* is Absent where there is no object.  The names under a prefix are the   *)
(* same in the bucket and in the cache.                                    *)
(*                                                                         *)
(* Nobody looks at whether the deletion of a file succeeded; the state     *)
(* file forgets its object all the same.                                   *)
(***************************************************************************)
EXTENDS Naturals

CONSTANTS
  Keys,        \* object names below the prefix
  Contents,    \* object contents
  Absent,      \* no object
  Stores,      \* endpoint|bucket|prefix identities
  NoStore,     \* the empty identity, of a missing or unreadable state file
  Reverts,     \* may an object, or agent.yml, go back to what it was before?
  Racing,      \* may an object change while a Sync runs?
  MaxChanges,  \* bound: changes of an object in a bucket
  MaxSwitches, \* bound: changes of the store in agent.yml
  MaxFailures  \* bound: requests and deletions that fail, runs that die

ASSUME SentinelsOutside == Absent \notin Contents /\ NoStore \notin Stores

ASSUME ParametersTyped ==
  /\ {Reverts, Racing} \subseteq BOOLEAN
  /\ {MaxChanges, MaxSwitches, MaxFailures} \subseteq Nat

Value   == Contents \cup {Absent}
Objects == [Keys -> Value]
Nothing == [k \in Keys |-> Absent]

VARIABLES
  remote,   \* the objects of every store
  past,     \* what each object was before, and is no longer
  cfg,      \* the store agent.yml names
  left,     \* the stores it named before
  dir,      \* the cache directory exists
  cache,    \* the files in it
  kept,     \* the files in it that could not be deleted
  saved,    \* the state file: which store, and its objects when last synced
  pc,       \* where the running Sync is
  pending,  \* what is left to do of that step
  listing,  \* the objects this Sync listed
  served,   \* what the last Sync returned
  changes, switches, failures   \* how much of each bound is used up

storeVars == <<remote, past, cfg, left>>
syncVars  == <<dir, cache, kept, saved, pc, pending, listing, served>>
vars      == <<storeVars, syncVars, changes, switches, failures>>

TypeOK ==
  /\ remote \in [Stores -> Objects]
  /\ past \in [Stores -> [Keys -> SUBSET Value]]
  /\ cfg \in Stores
  /\ left \in SUBSET Stores
  /\ dir \in BOOLEAN
  /\ cache \in Objects
  /\ kept \in SUBSET Keys
  /\ saved \in [store : Stores \cup {NoStore}, objects : Objects]
  /\ pc \in {"idle", "list", "get", "drop", "save"}
  /\ pending \in SUBSET Keys
  /\ listing \in Objects
  /\ served \in {"nothing", "fresh", "lastgood"}
  /\ changes \in 0..MaxChanges
  /\ switches \in 0..MaxSwitches
  /\ failures \in 0..MaxFailures

Init ==
  /\ remote \in [Stores -> Objects]
  /\ past = [s \in Stores |-> [k \in Keys |-> {}]]
  /\ cfg \in Stores
  /\ left = {}
  /\ dir = FALSE /\ cache = Nothing /\ kept = {}
  /\ saved = [store |-> NoStore, objects |-> Nothing]
  /\ pc = "idle" /\ pending = {} /\ listing = Nothing
  /\ served = "nothing"
  /\ changes = 0 /\ switches = 0 /\ failures = 0

-----------------------------------------------------------------------------
(* The operator: objects change at any time, agent.yml between two passes. *)

Change(s, k) ==
  /\ Racing \/ pc = "idle"
  /\ changes < MaxChanges /\ changes' = changes + 1
  /\ \E v \in Value \ {remote[s][k]} :
       /\ Reverts \/ v \notin past[s][k]
       /\ remote' = [remote EXCEPT ![s][k] = v]
  /\ past' = [past EXCEPT ![s][k] = @ \cup {remote[s][k]}]
  /\ UNCHANGED <<cfg, left, syncVars, switches, failures>>

Switch(s) ==
  /\ pc = "idle" /\ s # cfg
  /\ Reverts \/ s \notin left
  /\ switches < MaxSwitches /\ switches' = switches + 1
  /\ left' = left \cup {cfg}
  /\ cfg' = s
  /\ served' = "nothing"
  /\ UNCHANGED <<remote, past, dir, cache, kept, saved, pc, pending, listing, changes, failures>>

(* The state file is deleted or damaged, which reads as an empty state. *)
LoseState ==
  /\ pc = "idle"
  /\ failures < MaxFailures /\ failures' = failures + 1
  /\ saved' = [store |-> NoStore, objects |-> Nothing]
  /\ served' = "nothing"
  /\ UNCHANGED <<storeVars, dir, cache, kept, pc, pending, listing, changes, switches>>

-----------------------------------------------------------------------------
(* One Sync.                                                               *)

(* What the state file says of the configured store. *)
Prev == IF saved.store = cfg THEN saved.objects ELSE Nothing

Begin ==
  /\ pc = "idle"
  /\ pc' = "list"
  /\ pending' = Keys
  /\ listing' = Nothing
  /\ served' = "nothing"
  /\ UNCHANGED <<storeVars, dir, cache, kept, saved, changes, switches, failures>>

(* A listing comes in pages; the bucket may change between two of them. *)
List(k) ==
  /\ pc = "list" /\ k \in pending
  /\ listing' = [listing EXCEPT ![k] = remote[cfg][k]]
  /\ pending' = pending \ {k}
  /\ UNCHANGED <<storeVars, dir, cache, kept, saved, pc, served, changes, switches, failures>>

(* The cache still belongs to this store, and is there. *)
LastGood == saved.store = cfg /\ dir

(* A page that fails: go on with the last checkout, or without any. *)
ListFails ==
  /\ pc = "list"
  /\ failures < MaxFailures /\ failures' = failures + 1
  /\ served' = IF LastGood THEN "lastgood" ELSE "nothing"
  /\ pc' = "idle" /\ pending' = {}
  /\ UNCHANGED <<storeVars, dir, cache, kept, saved, listing, changes, switches>>

(* Mutant of ToGet: an ETag that is recorded is not compared. *)
ToGetNew(files) ==
  {k \in Keys : listing[k] # Absent /\ (Prev[k] = Absent \/ files[k] = Absent)}

(* New or changed since the recorded listing, or not in the cache. *)
ToGet(files) ==
  {k \in Keys : listing[k] # Absent /\ (Prev[k] # listing[k] \/ files[k] = Absent)}

(* Mutant of Listed: the cache of the store before is kept. *)
ListedMixing ==
  /\ pc = "list" /\ pending = {}
  /\ dir' = TRUE
  /\ pending' = ToGet(cache)
  /\ pc' = "get"
  /\ UNCHANGED <<storeVars, cache, kept, saved, listing, served, changes, switches, failures>>

(* The listing is complete: the cache of another store is cleared first.   *)
Listed ==
  /\ pc = "list" /\ pending = {}
  /\ dir' = TRUE
  /\ IF saved.store = cfg THEN UNCHANGED <<cache, kept>>
                         ELSE cache' = Nothing /\ kept' = {}
  /\ pending' = ToGet(cache')
  /\ pc' = "get"
  /\ UNCHANGED <<storeVars, saved, listing, served, changes, switches, failures>>

(* A download replaces the file by what the object is now, which may be    *)
(* newer than its ETag in the listing.                                     *)
Get(k) ==
  /\ pc = "get" /\ k \in pending /\ remote[cfg][k] # Absent
  /\ cache' = [cache EXCEPT ![k] = remote[cfg][k]]
  /\ kept' = kept \ {k}
  /\ pending' = pending \ {k}
  /\ UNCHANGED <<storeVars, dir, saved, pc, listing, served, changes, switches, failures>>

GotAll ==
  /\ pc = "get" /\ pending = {}
  /\ pc' = "drop"
  /\ pending' = {k \in Keys : Prev[k] # Absent /\ listing[k] = Absent}
  /\ UNCHANGED <<storeVars, dir, cache, kept, saved, listing, served, changes, switches, failures>>

Drop(k) ==
  /\ pc = "drop" /\ k \in pending
  /\ cache' = [cache EXCEPT ![k] = Absent]
  /\ kept' = kept \ {k}
  /\ pending' = pending \ {k}
  /\ UNCHANGED <<storeVars, dir, saved, pc, listing, served, changes, switches, failures>>

(* The file cannot be deleted, and the Sync goes on.                       *)
DropFails(k) ==
  /\ pc = "drop" /\ k \in pending /\ cache[k] # Absent
  /\ failures < MaxFailures /\ failures' = failures + 1
  /\ kept' = kept \cup {k}
  /\ pending' = pending \ {k}
  /\ UNCHANGED <<storeVars, dir, cache, saved, pc, listing, served, changes, switches>>

DroppedAll ==
  /\ pc = "drop" /\ pending = {}
  /\ pc' = "save"
  /\ UNCHANGED <<storeVars, dir, cache, kept, saved, pending, listing, served, changes, switches, failures>>

Save ==
  /\ pc = "save"
  /\ saved' = [store |-> cfg, objects |-> listing]
  /\ served' = "fresh"
  /\ pc' = "idle"
  /\ UNCHANGED <<storeVars, dir, cache, kept, pending, listing, changes, switches, failures>>

(* An object to be downloaded has left the bucket. *)
Vanished == pc = "get" /\ \E k \in pending : remote[cfg][k] = Absent

(* Mutant of Fails: what was listed is recorded all the same. *)
FailsRecorded ==
  /\ pc \in {"get", "drop", "save"}
  /\ IF Vanished THEN UNCHANGED failures
                 ELSE failures < MaxFailures /\ failures' = failures + 1
  /\ saved' = [store |-> cfg, objects |-> listing]
  /\ pc' = "idle" /\ pending' = {}
  /\ UNCHANGED <<storeVars, dir, cache, kept, listing, served, changes, switches>>

(* Sync returns an error, or its process dies: nothing is recorded.  The   *)
(* download of an object that has left the bucket always fails.            *)
Fails ==
  /\ pc \in {"get", "drop", "save"}
  /\ IF Vanished THEN UNCHANGED failures
                 ELSE failures < MaxFailures /\ failures' = failures + 1
  /\ pc' = "idle" /\ pending' = {}
  /\ UNCHANGED <<storeVars, dir, cache, kept, saved, listing, served, changes, switches>>

(* It may die in the middle of clearing the cache of another store. *)
ClearFails ==
  /\ pc = "list" /\ pending = {} /\ saved.store # cfg
  /\ failures < MaxFailures /\ failures' = failures + 1
  /\ \E gone \in SUBSET Keys :
       /\ cache' = [k \in Keys |-> IF k \in gone THEN Absent ELSE cache[k]]
       /\ kept' = kept \ gone
       /\ dir' = (dir /\ gone # Keys)
  /\ pc' = "idle"
  /\ UNCHANGED <<storeVars, saved, pending, listing, served, changes, switches>>

Sync ==
  \/ Begin \/ Listed \/ GotAll \/ DroppedAll \/ Save
  \/ \E k \in Keys : List(k) \/ Get(k) \/ Drop(k)

Next ==
  \/ Sync \/ ListFails \/ ClearFails \/ Fails \/ LoseState
  \/ \E s \in Stores : Switch(s)
  \/ \E k \in Keys : DropFails(k)
  \/ \E s \in Stores, k \in Keys : Change(s, k)

Spec == Init /\ [][Next]_vars

(* The timer keeps starting passes; a Sync that is running gets on, for    *)
(* the context bounds every request by five minutes.                       *)
FairSpec == Spec /\ WF_vars(Sync \/ (Vanished /\ Fails))

-----------------------------------------------------------------------------
(* Properties.                                                             *)

(* A file that outlives its object, since its one deletion failed: it is   *)
(* in no state file, so no later Sync deletes it.                          *)
Leftover(k) == k \in kept /\ remote[cfg][k] = Absent

(* A Sync that succeeded on a listing that still stands served that very   *)
(* listing, whatever failed before: no stale file, and of the files that   *)
(* left none but those that could not be deleted.                          *)
FreshIsCurrent ==
  served = "fresh" /\ listing = remote[cfg] =>
    \A k \in Keys : cache[k] = listing[k] \/ Leftover(k)

(* Nothing of another store, or of none, is ever served: each file is what *)
(* the configured store has or had under that name.                        *)
OwnFiles ==
  served # "nothing" =>
    \A k \in Keys : cache[k] \in {Absent, remote[cfg][k]} \cup past[cfg][k]

(* Once the operator leaves the store alone and requests stop failing, the *)
(* cache comes to mirror the bucket, and stays so, leftovers excepted.     *)
CatchesUp == <>[](\A k \in Keys : cache[k] = remote[cfg][k] \/ Leftover(k))

-----------------------------------------------------------------------------
(* What makes the safety properties inductive when nothing ever goes back  *)
(* to what it was (the theorems are in S3StoreProofs).                     *)

Stays(k, v) == v = Absent /\ k \in kept
Gone(k, v)  == v \in past[cfg][k]
Known(k, v) == v = remote[cfg][k] \/ Gone(k, v)

NeverBack ==
  /\ \A s \in Stores, k \in Keys : remote[s][k] \notin past[s][k]
  /\ cfg \notin left
  /\ saved.store \in {cfg, NoStore} \cup left

(* What the state file says of an object was so once, and a file that is   *)
(* not as the state file says is one whose object has changed since, or    *)
(* one that should have been deleted.                                      *)
SavedTrue ==
  saved.store = cfg =>
    \A k \in Keys : /\ Known(k, saved.objects[k])
                    /\ cache[k] # saved.objects[k]
                         => Gone(k, saved.objects[k]) \/ Stays(k, saved.objects[k])

Seen == IF pc = "idle" THEN {} ELSE IF pc = "list" THEN Keys \ pending ELSE Keys

(* A listing is newer than the state file. *)
ListingTrue ==
  \A k \in Seen : /\ Known(k, listing[k])
                  /\ saved.store = cfg /\ listing[k] # saved.objects[k]
                       => Gone(k, saved.objects[k])

Settled(k) == cache[k] = listing[k] \/ Gone(k, listing[k]) \/ Stays(k, listing[k])

(* What a Sync no longer has to do is done. *)
Landed ==
  /\ pc = "get"  => /\ \A k \in Keys \ pending : listing[k] # Absent => Settled(k)
                    /\ \A k \in pending : listing[k] # Absent
  /\ pc = "drop" => /\ \A k \in Keys \ pending : Settled(k)
                    /\ \A k \in pending : listing[k] = Absent
  /\ pc = "save" => \A k \in Keys : Settled(k)
  /\ pc \in {"get", "drop", "save"} /\ saved.store # cfg
       => \A k \in Keys : listing[k] = Absent => cache[k] = Absent

OwnCache ==
  saved.store = cfg \/ pc \in {"get", "drop", "save"} =>
    \A k \in Keys : cache[k] = Absent \/ Known(k, cache[k])

ServedTrue ==
  /\ served = "fresh" => pc = "idle" /\ saved = [store |-> cfg, objects |-> listing]
  /\ served = "lastgood" => pc = "idle" /\ saved.store = cfg

Inv == NeverBack /\ SavedTrue /\ ListingTrue /\ Landed /\ OwnCache /\ ServedTrue
=============================================================================

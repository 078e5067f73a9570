----------------------------- MODULE S3StoreProofs -----------------------------
(***************************************************************************)
(* What holds of the S3 mirror for every bucket, every number of objects   *)
(* and stores, and every number of failed requests.                        *)
(***************************************************************************)
EXTENDS S3Store, TLAPS

(* Every state has the right type. *)
THEOREM StoreTypeCorrect == Spec => []TypeOK
<1>1. Init => TypeOK
  <2> SUFFICES ASSUME Init PROVE TypeOK
    OBVIOUS
  <2>1. Nothing \in Objects
    BY DEF Nothing, Objects, Value
  <2>2. past \in [Stores -> [Keys -> SUBSET Value]]
    BY DEF Init
  <2>3. changes \in 0..MaxChanges /\ switches \in 0..MaxSwitches /\ failures \in 0..MaxFailures
    BY ParametersTyped DEF Init
  <2>4. saved \in [store : Stores \cup {NoStore}, objects : Objects]
    BY <2>1 DEF Init
  <2>. QED
    BY <2>1, <2>2, <2>3, <2>4 DEF Init, TypeOK
<1>2. TypeOK /\ [Next]_vars => TypeOK'
  <2> SUFFICES ASSUME TypeOK, [Next]_vars
               PROVE  TypeOK'
    OBVIOUS
  <2> USE DEF TypeOK
  <2>1. ASSUME NEW s \in Stores, NEW k \in Keys, Change(s, k)
        PROVE  TypeOK'
    <3>1. PICK v \in Value : remote' = [remote EXCEPT ![s][k] = v]
      BY <2>1 DEF Change
    <3>2. remote' \in [Stores -> Objects] /\ past' \in [Stores -> [Keys -> SUBSET Value]]
      BY <2>1, <3>1 DEF Change, Objects
    <3>3. changes' \in 0..MaxChanges
      BY <2>1, ParametersTyped DEF Change
    <3>. QED
      BY <2>1, <3>2, <3>3 DEF Change, syncVars
  <2>2. ASSUME NEW s \in Stores, Switch(s)
        PROVE  TypeOK'
    BY <2>2, ParametersTyped DEF Switch
  <2>3. CASE LoseState
    BY <2>3, ParametersTyped DEF LoseState, storeVars, Objects, Nothing, Value
  <2>4. CASE Begin
    BY <2>4 DEF Begin, storeVars, Objects, Nothing, Value
  <2>5. ASSUME NEW k \in Keys, List(k) \/ Get(k) \/ Drop(k) \/ DropFails(k)
        PROVE  TypeOK'
    <3>1. CASE List(k)
      BY <3>1 DEF List, storeVars, Objects
    <3>2. CASE Get(k)
      BY <3>2 DEF Get, storeVars, Objects
    <3>3. CASE Drop(k)
      BY <3>3 DEF Drop, storeVars, Objects, Value
    <3>4. CASE DropFails(k)
      BY <3>4, ParametersTyped DEF DropFails, storeVars
    <3>. QED
      BY <2>5, <3>1, <3>2, <3>3, <3>4
  <2>6. CASE Listed
    BY <2>6 DEF Listed, ToGet, storeVars, Objects, Nothing, Value
  <2>7. CASE GotAll \/ DroppedAll \/ Save
    BY <2>7 DEF GotAll, DroppedAll, Save, storeVars
  <2>8. CASE ListFails \/ Fails
    BY <2>8, ParametersTyped DEF ListFails, Fails, storeVars
  <2>9. CASE ClearFails
    <3>1. cache' \in Objects /\ dir' \in BOOLEAN
      BY <2>9 DEF ClearFails, Objects, Value
    <3>. QED
      BY <2>9, <3>1, ParametersTyped DEF ClearFails, storeVars
  <2>10. CASE UNCHANGED vars
    BY <2>10 DEF vars, storeVars, syncVars
  <2>. QED
    BY <2>1, <2>2, <2>3, <2>4, <2>5, <2>6, <2>7, <2>8, <2>9, <2>10 DEF Next, Sync
<1>. QED
  BY <1>1, <1>2, PTL DEF Spec

-----------------------------------------------------------------------------
(* The steps, one lemma each kind.                                         *)

(* An object changes, for good: what was true of it is now past.           *)
LEMMA ChangeKeeps ==
  ASSUME ~Reverts, TypeOK, Inv, NEW s \in Stores, NEW k \in Keys, Change(s, k)
  PROVE  Inv'
<1> USE DEF TypeOK, Inv
<1>1. /\ UNCHANGED <<cfg, left, dir, cache, kept, saved, pc, pending, listing, served>>
      /\ past' = [past EXCEPT ![s][k] = @ \cup {remote[s][k]}]
  BY DEF Change, syncVars
<1>2. PICK v \in Value : /\ v # remote[s][k] /\ v \notin past[s][k]
                         /\ remote' = [remote EXCEPT ![s][k] = v]
  BY DEF Change
<1>3. \A t \in Stores, j \in Keys :
         IF t = s /\ j = k
           THEN remote'[t][j] = v /\ past'[t][j] = past[t][j] \cup {remote[t][j]}
           ELSE remote'[t][j] = remote[t][j] /\ past'[t][j] = past[t][j]
  BY <1>1, <1>2 DEF Objects
<1>4. NeverBack'
  BY <1>1, <1>2, <1>3 DEF NeverBack
<1>5. \A j \in Keys : \A w : /\ Gone(j, w) => Gone(j, w)'
                             /\ Known(j, w) => Known(j, w)'
  BY <1>1, <1>3 DEF Gone, Known
<1>6. SavedTrue' /\ OwnCache' /\ ServedTrue'
  BY <1>1, <1>5 DEF SavedTrue, Stays, OwnCache, ServedTrue
<1>7. ListingTrue'
  BY <1>1, <1>5 DEF ListingTrue, Seen
<1>8. \A j \in Keys : Settled(j) => Settled(j)'
  BY <1>1, <1>5 DEF Settled, Stays
<1>9. Landed'
  BY <1>1, <1>8 DEF Landed
<1>. QED
  BY <1>4, <1>6, <1>7, <1>9

(* The agent is pointed at a store it has not been at before.              *)
LEMMA SwitchKeeps ==
  ASSUME ~Reverts, TypeOK, Inv, NEW s \in Stores, Switch(s)
  PROVE  Inv'
<1> USE DEF TypeOK, Inv
<1>1. /\ pc = "idle" /\ s # cfg /\ s \notin left /\ left' = left \cup {cfg} /\ cfg' = s
      /\ served' = "nothing"
      /\ UNCHANGED <<remote, past, dir, cache, kept, saved, pc, pending, listing>>
  BY DEF Switch
<1>2. saved.store # s
  BY <1>1, SentinelsOutside DEF NeverBack
<1>3. NeverBack'
  BY <1>1 DEF NeverBack
<1>. QED
  BY <1>1, <1>2, <1>3 DEF SavedTrue, Stays, ListingTrue, Seen, Landed, OwnCache, ServedTrue

(* A page of the listing: what is listed is newer than the state file.     *)
LEMMA ListKeeps ==
  ASSUME TypeOK, Inv, NEW k \in Keys, List(k)
  PROVE  Inv'
<1> USE DEF TypeOK, Inv
<1>1. /\ pc = "list" /\ k \in pending
      /\ listing' = [listing EXCEPT ![k] = remote[cfg][k]] /\ pending' = pending \ {k}
      /\ UNCHANGED <<remote, past, cfg, left, dir, cache, kept, saved, pc, served>>
  BY DEF List, storeVars
<1>2. \A j \in Keys : \A w : (Gone(j, w)' <=> Gone(j, w)) /\ (Known(j, w)' <=> Known(j, w))
  BY <1>1 DEF Gone, Known
<1>3. Known(k, remote[cfg][k])
      /\ (saved.store = cfg /\ remote[cfg][k] # saved.objects[k] => Gone(k, saved.objects[k]))
  BY DEF Known, SavedTrue, Stays
<1>4. ListingTrue'
  <2>1. \A j \in Keys : listing'[j] = IF j = k THEN remote[cfg][k] ELSE listing[j]
    BY <1>1 DEF Objects
  <2>2. Seen = Keys \ pending /\ Seen' = Seen \cup {k}
    BY <1>1 DEF Seen
  <2>. QED
    BY <1>1, <1>2, <1>3, <2>1, <2>2 DEF ListingTrue
<1>5. NeverBack' /\ SavedTrue' /\ Landed' /\ OwnCache' /\ ServedTrue'
  BY <1>1, <1>2 DEF NeverBack, SavedTrue, Stays, Landed, OwnCache, ServedTrue
<1>. QED
  BY <1>4, <1>5

(* What the complete listing does not download is settled already.         *)
LEMMA ListedKeeps ==
  ASSUME TypeOK, Inv, Listed
  PROVE  Inv'
<1> USE DEF TypeOK, Inv
<1>1. /\ pc = "list" /\ pending = {} /\ pc' = "get"
      /\ saved.store = cfg => UNCHANGED <<cache, kept>>
      /\ saved.store # cfg => cache' = Nothing /\ kept' = {}
      /\ pending' = ToGet(cache')
      /\ UNCHANGED <<remote, past, cfg, left, saved, listing, served>>
  BY DEF Listed, storeVars
<1>2. \A j \in Keys : \A w : (Gone(j, w)' <=> Gone(j, w)) /\ (Known(j, w)' <=> Known(j, w))
  BY <1>1 DEF Gone, Known
<1>3. ListingTrue' /\ NeverBack' /\ ServedTrue'
  BY <1>1, <1>2 DEF ListingTrue, Seen, NeverBack, ServedTrue
<1>4. CASE saved.store = cfg
  <2>1. SavedTrue' /\ OwnCache'
    BY <1>1, <1>2, <1>4 DEF SavedTrue, Stays, OwnCache
  <2>2. ASSUME NEW k \in Keys, k \notin pending', listing[k] # Absent
        PROVE  Settled(k)'
    <3>1. saved.objects[k] = listing[k]
      BY <1>1, <1>4, <2>2 DEF ToGet, Prev
    <3>. QED
      BY <1>1, <1>2, <1>4, <3>1 DEF SavedTrue, Settled, Stays
  <2>3. Landed'
    BY <1>1, <1>4, <2>2 DEF Landed, ToGet
  <2>. QED
    BY <1>3, <2>1, <2>3
<1>5. CASE saved.store # cfg
  <2>1. SavedTrue' /\ OwnCache'
    BY <1>1, <1>2, <1>5 DEF SavedTrue, Stays, OwnCache, Nothing
  <2>2. pending' = {k \in Keys : listing[k] # Absent}
    BY <1>1, <1>5 DEF ToGet, Prev, Nothing
  <2>3. Landed'
    BY <1>1, <1>5, <2>2 DEF Landed, Nothing
  <2>. QED
    BY <1>3, <2>1, <2>3
<1>. QED
  BY <1>4, <1>5

(* A download settles its object, and leaves no file that the state file   *)
(* would wrongly vouch for.                                                *)
LEMMA GetKeeps ==
  ASSUME TypeOK, Inv, NEW k \in Keys, Get(k)
  PROVE  Inv'
<1> USE DEF TypeOK, Inv
<1>1. /\ pc = "get" /\ k \in pending
      /\ cache' = [cache EXCEPT ![k] = remote[cfg][k]] /\ pending' = pending \ {k} /\ kept' = kept \ {k}
      /\ UNCHANGED <<remote, past, cfg, left, saved, pc, listing, served>>
  BY DEF Get, storeVars
<1>2. \A j \in Keys : \A w : (Gone(j, w)' <=> Gone(j, w)) /\ (Known(j, w)' <=> Known(j, w))
  BY <1>1 DEF Gone, Known
<1>3. \A j \in Keys : cache'[j] = IF j = k THEN remote[cfg][k] ELSE cache[j]
  BY <1>1 DEF Objects
<1>4. Known(k, listing[k])
      /\ (saved.store = cfg /\ listing[k] # saved.objects[k] => Gone(k, saved.objects[k]))
  BY <1>1 DEF ListingTrue, Seen
<1>5. SavedTrue'
  BY <1>1, <1>2, <1>3, <1>4 DEF SavedTrue, Stays, Known
<1>6. Settled(k)' /\ \A j \in Keys \ {k} : Settled(j)' <=> Settled(j)
  BY <1>1, <1>2, <1>3, <1>4 DEF Settled, Stays, Known
<1>7. Landed'
  BY <1>1, <1>3, <1>6 DEF Landed
<1>8. OwnCache'
  BY <1>1, <1>2, <1>3 DEF OwnCache, Known
<1>9. NeverBack' /\ ListingTrue' /\ ServedTrue'
  BY <1>1, <1>2 DEF NeverBack, ListingTrue, Seen, ServedTrue
<1>. QED
  BY <1>5, <1>7, <1>8, <1>9

(* An object neither listed now nor before left no file, or one that will  *)
(* be seen to be of the past.                                              *)
LEMMA GotAllKeeps ==
  ASSUME TypeOK, Inv, GotAll
  PROVE  Inv'
<1> USE DEF TypeOK, Inv
<1>1. /\ pc = "get" /\ pending = {} /\ pc' = "drop"
      /\ pending' = {k \in Keys : Prev[k] # Absent /\ listing[k] = Absent}
      /\ UNCHANGED <<remote, past, cfg, left, cache, kept, saved, listing, served>>
  BY DEF GotAll, storeVars
<1>2. \A j \in Keys : \A w : (Gone(j, w)' <=> Gone(j, w)) /\ (Known(j, w)' <=> Known(j, w))
  BY <1>1 DEF Gone, Known
<1>3. ASSUME NEW k \in Keys, k \notin pending'
      PROVE  Settled(k)'
  <2>1. CASE listing[k] # Absent
    BY <1>1, <1>2, <2>1 DEF Landed, Settled, Stays
  <2>2. CASE listing[k] = Absent /\ saved.store = cfg
    BY <1>1, <1>2, <1>3, <2>2 DEF Prev, SavedTrue, Settled, Stays
  <2>3. CASE listing[k] = Absent /\ saved.store # cfg
    BY <1>1, <1>2, <2>3 DEF Landed, Settled, Stays
  <2>. QED
    BY <2>1, <2>2, <2>3
<1>4. Landed'
  BY <1>1, <1>3 DEF Landed
<1>5. NeverBack' /\ SavedTrue' /\ ListingTrue' /\ OwnCache' /\ ServedTrue'
  BY <1>1, <1>2 DEF NeverBack, SavedTrue, Stays, ListingTrue, Seen, OwnCache, ServedTrue
<1>. QED
  BY <1>4, <1>5

(* Deleting the file of an object that left the bucket. *)
LEMMA DropKeeps ==
  ASSUME TypeOK, Inv, NEW k \in Keys, Drop(k)
  PROVE  Inv'
<1> USE DEF TypeOK, Inv
<1>1. /\ pc = "drop" /\ k \in pending
      /\ cache' = [cache EXCEPT ![k] = Absent] /\ pending' = pending \ {k} /\ kept' = kept \ {k}
      /\ UNCHANGED <<remote, past, cfg, left, saved, pc, listing, served>>
  BY DEF Drop, storeVars
<1>2. \A j \in Keys : \A w : (Gone(j, w)' <=> Gone(j, w)) /\ (Known(j, w)' <=> Known(j, w))
  BY <1>1 DEF Gone, Known
<1>3. \A j \in Keys : cache'[j] = IF j = k THEN Absent ELSE cache[j]
  BY <1>1 DEF Objects
<1>4. listing[k] = Absent
  BY <1>1 DEF Landed
<1>5. SavedTrue'
  BY <1>1, <1>2, <1>3, <1>4 DEF SavedTrue, Stays, ListingTrue, Seen
<1>6. Settled(k)' /\ \A j \in Keys \ {k} : Settled(j)' <=> Settled(j)
  BY <1>1, <1>2, <1>3, <1>4 DEF Settled, Stays
<1>7. Landed'
  BY <1>1, <1>3, <1>6 DEF Landed
<1>8. NeverBack' /\ ListingTrue' /\ OwnCache' /\ ServedTrue'
  BY <1>1, <1>2, <1>3 DEF NeverBack, ListingTrue, Seen, OwnCache, ServedTrue
<1>. QED
  BY <1>5, <1>7, <1>8

(* A file that cannot be deleted stays, and is known to. *)
LEMMA DropFailsKeeps ==
  ASSUME TypeOK, Inv, NEW k \in Keys, DropFails(k)
  PROVE  Inv'
<1> USE DEF TypeOK, Inv
<1>1. /\ pc = "drop" /\ k \in pending
      /\ pending' = pending \ {k} /\ kept' = kept \cup {k}
      /\ UNCHANGED <<remote, past, cfg, left, cache, saved, pc, listing, served>>
  BY DEF DropFails, storeVars
<1>2. \A j \in Keys : \A w : (Gone(j, w)' <=> Gone(j, w)) /\ (Known(j, w)' <=> Known(j, w))
  BY <1>1 DEF Gone, Known
<1>3. listing[k] = Absent
  BY <1>1 DEF Landed
<1>4. \A j \in Keys : \A w : Stays(j, w) => Stays(j, w)'
  BY <1>1 DEF Stays
<1>5. Settled(k)' /\ \A j \in Keys : Settled(j) => Settled(j)'
  BY <1>1, <1>2, <1>3, <1>4 DEF Settled, Stays
<1>6. Landed'
  BY <1>1, <1>5 DEF Landed
<1>7. SavedTrue'
  BY <1>1, <1>2, <1>4 DEF SavedTrue
<1>8. NeverBack' /\ ListingTrue' /\ OwnCache' /\ ServedTrue'
  BY <1>1, <1>2 DEF NeverBack, ListingTrue, Seen, OwnCache, ServedTrue
<1>. QED
  BY <1>6, <1>7, <1>8

(* The listing becomes the state file once everything is settled. *)
LEMMA SaveKeeps ==
  ASSUME TypeOK, Inv, Save
  PROVE  Inv'
<1> USE DEF TypeOK, Inv
<1>1. /\ pc = "save" /\ pc' = "idle" /\ served' = "fresh"
      /\ saved' = [store |-> cfg, objects |-> listing]
      /\ UNCHANGED <<remote, past, cfg, left, cache, kept, listing>>
  BY DEF Save, storeVars
<1>2. \A j \in Keys : \A w : (Gone(j, w)' <=> Gone(j, w)) /\ (Known(j, w)' <=> Known(j, w))
  BY <1>1 DEF Gone, Known
<1>3. \A k \in Keys : Settled(k) /\ Known(k, listing[k])
  BY <1>1 DEF Landed, ListingTrue, Seen
<1>4. SavedTrue'
  BY <1>1, <1>2, <1>3 DEF SavedTrue, Settled, Stays
<1>5. NeverBack' /\ ListingTrue' /\ Landed' /\ OwnCache' /\ ServedTrue'
  BY <1>1, <1>2 DEF NeverBack, ListingTrue, Seen, Landed, OwnCache, ServedTrue
<1>. QED
  BY <1>4, <1>5

(* Beginning, going on to record, and giving up. *)
LEMMA OthersKeep ==
  ASSUME TypeOK, Inv,
         Begin \/ DroppedAll \/ ListFails \/ ClearFails \/ Fails \/ LoseState \/ UNCHANGED vars
  PROVE  Inv'
<1> USE DEF TypeOK, Inv
<1>1. UNCHANGED <<remote, past, cfg, left>>
  BY DEF Begin, DroppedAll, ListFails, ClearFails, Fails, LoseState, vars, storeVars
<1>2. \A j \in Keys : \A w : (Gone(j, w)' <=> Gone(j, w)) /\ (Known(j, w)' <=> Known(j, w))
  BY <1>1 DEF Gone, Known
<1> USE DEF NeverBack, SavedTrue, Stays, ListingTrue, Seen, Landed, OwnCache, ServedTrue
<1>3. CASE Begin
  BY <1>1, <1>2, <1>3 DEF Begin
<1>4. CASE DroppedAll
  BY <1>1, <1>2, <1>4 DEF DroppedAll, Settled, Stays
<1>5. CASE ListFails
  BY <1>1, <1>2, <1>5 DEF ListFails, LastGood
<1>6. CASE ClearFails
  BY <1>1, <1>2, <1>6 DEF ClearFails
<1>7. CASE Fails
  BY <1>1, <1>2, <1>7 DEF Fails
<1>8. CASE LoseState
  BY <1>1, <1>2, <1>8, SentinelsOutside DEF LoseState
<1>9. CASE UNCHANGED vars
  BY <1>1, <1>2, <1>9 DEF vars, syncVars, Settled, Stays
<1>. QED
  BY <1>3, <1>4, <1>5, <1>6, <1>7, <1>8, <1>9

-----------------------------------------------------------------------------
(* The invariant holds when nothing goes back to what it was. *)
LEMMA StoreInvariant ==
  ASSUME ~Reverts
  PROVE  Spec => []Inv
<1>1. Init => Inv
  BY SentinelsOutside
  DEF Init, Inv, NeverBack, SavedTrue, Stays, ListingTrue, Seen, Landed, OwnCache, ServedTrue, Nothing
<1>2. TypeOK /\ Inv /\ [Next]_vars => Inv'
  BY ChangeKeeps, SwitchKeeps, ListKeeps, ListedKeeps, GetKeeps, GotAllKeeps, DropKeeps, DropFailsKeeps,
     SaveKeeps, OthersKeep DEF Next, Sync
<1>. QED
  BY <1>1, <1>2, StoreTypeCorrect, PTL DEF Spec

(* If no object and no store setting ever goes back to what it was, a Sync *)
(* that succeeds on a listing that still stands serves exactly that        *)
(* listing, but for files whose deletion failed, however many runs and     *)
(* deletions failed before and wherever they did.                          *)
THEOREM FreshServesListing ==
  ASSUME ~Reverts
  PROVE  Spec => []FreshIsCurrent
<1>1. TypeOK /\ Inv => FreshIsCurrent
  <2> SUFFICES ASSUME TypeOK, Inv, served = "fresh", listing = remote[cfg], NEW k \in Keys
               PROVE  cache[k] = listing[k] \/ Leftover(k)
    BY DEF FreshIsCurrent
  <2>1. saved.store = cfg /\ saved.objects = listing
    BY DEF Inv, ServedTrue
  <2>. QED
    BY <2>1 DEF Inv, SavedTrue, Stays, Leftover, NeverBack, Gone, TypeOK
<1>. QED
  BY <1>1, StoreInvariant, StoreTypeCorrect, PTL

(* Under the same condition, nothing is served that the configured store   *)
(* did not hold under that name, also on a transient failure.              *)
THEOREM ServesOwnFiles ==
  ASSUME ~Reverts
  PROVE  Spec => []OwnFiles
<1>1. TypeOK /\ Inv => OwnFiles
  <2> SUFFICES ASSUME TypeOK, Inv, served # "nothing", NEW k \in Keys
               PROVE  cache[k] \in {Absent, remote[cfg][k]} \cup past[cfg][k]
    BY DEF OwnFiles
  <2>1. saved.store = cfg
    BY DEF Inv, ServedTrue, TypeOK
  <2>. QED
    BY <2>1 DEF Inv, OwnCache, Known, Gone
<1>. QED
  BY <1>1, StoreInvariant, StoreTypeCorrect, PTL
=============================================================================

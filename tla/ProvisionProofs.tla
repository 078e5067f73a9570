---------------------------- MODULE ProvisionProofs ----------------------------
(***************************************************************************)
(* What holds of the allocation of subordinate ids for every number of     *)
(* cadres, users and commands.                                             *)
(***************************************************************************)
EXTENDS Provision, TLAPS

(* A new block of a cadre is a line of a map. *)
LEMMA BlockType ==
  ASSUME TypeOK, NEW p \in Procs, target[p] \in Cadres, NEW s \in 0..MaxId
  PROVE  Block(p, s) \in Line
BY IdsTyped DEF Block, Line

(* useradd leaves a map as it is, or adds one free line, of the new user.  *)
LEMMA UseraddAdds ==
  ASSUME NEW p \in Procs, target[p] \in Cadres, Useradd(p)
  PROVE  /\ \/ subuid' = subuid
            \/ \E line \in Line : /\ FreeIn(line, subuid) /\ subuid' = subuid \cup {line}
                                 /\ line.user = target[p] /\ target[p] \notin users
         /\ \/ subgid' = subgid
            \/ \E line \in Line : /\ FreeIn(line, subgid) /\ subgid' = subgid \cup {line}
                                 /\ line.user = target[p] /\ target[p] \notin users
<1>1. \A s \in Starts : [user |-> target[p], start |-> s, count |-> Count] \in Line
  BY IdsTyped DEF Line
<1>. QED
  BY <1>1 DEF Useradd

(* Of the lines of a map that gets one more, another user's are the same.  *)
LEMMA OthersLines ==
  ASSUME NEW map, NEW line, NEW c, line.user # c
  PROVE  {e \in map \cup {line} : e.user = c} = {e \in map : e.user = c}
OBVIOUS

(* Every state has the right type, and one command is past the lock.       *)
THEOREM ProvisionTypeCorrect == Spec => [](TypeOK /\ Exclusive)
<1>1. Init => TypeOK /\ Exclusive
  BY BoundsTyped DEF Init, TypeOK, Exclusive
<1>2. TypeOK /\ Exclusive /\ [Next]_vars => (TypeOK /\ Exclusive)'
  <2> SUFFICES ASSUME TypeOK, Exclusive, [Next]_vars
               PROVE  (TypeOK /\ Exclusive)'
    OBVIOUS
  <2> USE DEF TypeOK, Exclusive, Goto
  <2>1. ASSUME NEW p \in Procs, Lock(p)
        PROVE  (TypeOK /\ Exclusive)'
    BY <2>1, NamesDisjoint DEF Lock
  <2>2. ASSUME NEW p \in Procs, Useradd(p)
        PROVE  (TypeOK /\ Exclusive)'
    <3>1. target[p] \in Cadres
      BY <2>2 DEF Useradd
    <3>2. subuid' \in SUBSET Line /\ subgid' \in SUBSET Line
      BY <2>2, <3>1, UseraddAdds
    <3>. QED
      BY <2>2, <3>1, <3>2 DEF Useradd
  <2>3. ASSUME NEW p \in Procs, CatSubuid(p) \/ CatSubgid(p) \/ Allotted(p)
        PROVE  (TypeOK /\ Exclusive)'
    BY <2>3 DEF CatSubuid, CatSubgid, Allotted
  <2>4. ASSUME NEW p \in Procs, Usermod(p) \/ UsermodGid(p)
        PROVE  (TypeOK /\ Exclusive)'
    <3>1. target[p] \in Cadres
      BY <2>4 DEF Usermod, UsermodGid
    <3>2. subuid' \in SUBSET Line /\ subgid' \in SUBSET Line
      BY <2>4, <3>1, BlockType DEF Usermod, UsermodGid
    <3>. QED
      BY <2>4, <3>2 DEF Usermod, UsermodGid
  <2>5. ASSUME NEW p \in Procs, Unlock(p) \/ Die(p)
        PROVE  (TypeOK /\ Exclusive)'
    <3>1. ready' \in SUBSET Cadres /\ deaths' \in 0..MaxDeaths
      BY <2>5, BoundsTyped DEF Unlock, Die
    <3>2. pc[p] # "idle" /\ Exit(p) /\ UNCHANGED <<users, subuid, subgid, others>>
      BY <2>5 DEF Unlock, Die
    <3>. QED
      BY <3>1, <3>2 DEF Exit
  <2>6. ASSUME NEW p \in Procs, Purge(p)
        PROVE  (TypeOK /\ Exclusive)'
    BY <2>6 DEF Purge
  <2>7. CASE GiveOther
    <3>1. \A u \in Others, s \in Starts : [user |-> u, start |-> s, count |-> Count] \in Line
      BY IdsTyped DEF Line
    <3>2. subuid' \in SUBSET Line /\ subgid' \in SUBSET Line
      BY <2>7, <3>1 DEF GiveOther
    <3>. QED
      BY <2>7, <3>2, BoundsTyped DEF GiveOther
  <2>8. CASE UNCHANGED vars
    BY <2>8 DEF vars
  <2>. QED
    BY <2>1, <2>2, <2>3, <2>4, <2>5, <2>6, <2>7, <2>8 DEF Next, Ensure
<1>. QED
  BY <1>1, <1>2, PTL DEF Spec

-----------------------------------------------------------------------------
(* The maps.                                                               *)

(* A line that is free in a map can be added to it. *)
LEMMA AddFree ==
  ASSUME NEW map \in SUBSET Line, NEW line \in Line, Apart(map), FreeIn(line, map)
  PROVE  Apart(map \cup {line})
BY DEF Apart, FreeIn, Overlap, Line

(* The block that nextSubidStart finds is free in whatever was read.       *)
LEMMA NextStartFree ==
  ASSUME TypeOK, NEW p \in Procs, NEW s \in 0..MaxId, NextStart(p, s)
  PROVE  FreeIn(Block(p, s), readUid[p]) /\ FreeIn(Block(p, s), readGid[p])
<1>1. ASSUME NEW e \in readUid[p] \cup readGid[p]
      PROVE  ~Overlap(Block(p, s), e)
  <2>1. e.start \in Nat /\ e.count \in Nat
    BY DEF TypeOK, Line
  <2>2. e.start + e.count <= s
    BY DEF NextStart
  <2>. QED
    BY <2>1, <2>2, IdsTyped DEF Overlap, Block
<1>. QED
  BY <1>1 DEF FreeIn

(* A map with more lines has what it had. *)
LEMMA HasSubidGrows ==
  ASSUME NEW map, NEW more, map \subseteq more, NEW c, HasSubid(map, c)
  PROVE  HasSubid(more, c)
BY DEF HasSubid

-----------------------------------------------------------------------------
(* Isolation.                                                              *)

(* The line useradd adds leaves the maps apart, and belongs to nobody who  *)
(* is set up.                                                              *)
LEMMA UseraddKeeps ==
  ASSUME TypeOK, Inv, NEW p \in Procs, Useradd(p)
  PROVE  Inv'
<1> USE DEF TypeOK, Inv
<1>1. /\ pc[p] = "id" /\ pc' = [pc EXCEPT ![p] = "catuid"] /\ users' = users \cup {target[p]}
      /\ UNCHANGED <<lock, target, readUid, readGid, ready>>
  BY DEF Useradd, Goto
<1>2. lock = p /\ target[p] \in Cadres
  BY <1>1 DEF Exclusive
<1>3. \A q \in Procs \ {p} : pc'[q] = "idle"
  BY <1>1, <1>2 DEF Exclusive
<1>5. Apart(subuid') /\ Apart(subgid')
  BY <1>2, UseraddAdds, AddFree DEF Isolation
<1>6. subuid \subseteq subuid' /\ subgid \subseteq subgid'
  BY <1>2, UseraddAdds
<1>7. ReadyMapped'
  BY <1>1, <1>6, HasSubidGrows DEF ReadyMapped
<1>8. Exclusive' /\ ReadsStand'
  BY <1>1, <1>2, <1>3 DEF Exclusive, ReadsStand
<1>. QED
  BY <1>1, <1>5, <1>7, <1>8 DEF Isolation

(* usermod adds to each map a block that is free there.                    *)
LEMMA UsermodKeeps ==
  ASSUME TypeOK, Inv, NEW p \in Procs, Usermod(p) \/ UsermodGid(p)
  PROVE  Inv'
<1> USE DEF TypeOK, Inv
<1>1. target[p] \in Cadres /\ lock = p
  BY DEF Exclusive, Usermod, UsermodGid
<1>2. \A q \in Procs \ {p} : pc[q] = "idle" /\ pc'[q] = "idle"
  BY <1>1 DEF Exclusive, Usermod, UsermodGid, Goto
<1>3. CASE Usermod(p)
  <2>1. PICK s \in 0..MaxId : NextStart(p, s) /\ subuid' = subuid \cup {Block(p, s)}
    BY <1>3 DEF Usermod
  <2>2. /\ pc[p] = "usermod" /\ ~HasBlock(p) /\ pc' = [pc EXCEPT ![p] = "usermodgid"]
        /\ UNCHANGED <<users, subgid, lock, target, readUid, readGid, ready>>
    BY <1>3 DEF Usermod, Goto
  <2>3. readUid[p] = subuid /\ readGid[p] = subgid /\ target[p] \in users
    BY <2>2 DEF ReadsStand
  <2>4. Apart(subuid')
    BY <1>1, <2>1, <2>3, BlockType, NextStartFree, AddFree DEF Isolation
  <2>5. target[p] \notin ready
    BY <2>2, <2>3 DEF HasBlock, ReadyMapped
  <2>6. HasSubid(subuid', target[p])
    <3>1. Block(p, s) \in subuid' /\ Block(p, s).user = target[p]
      BY <2>1 DEF Block
    <3>. QED
      BY <3>1 DEF HasSubid
  <2>7. ReadyMapped'
    BY <2>1, <2>2, HasSubidGrows DEF ReadyMapped
  <2>8. Exclusive' /\ ReadsStand'
    BY <1>1, <1>2, <2>2, <2>3, <2>5, <2>6 DEF Exclusive, ReadsStand
  <2>. QED
    BY <2>2, <2>4, <2>7, <2>8 DEF Isolation
<1>4. CASE UsermodGid(p)
  <2>1. PICK s \in 0..MaxId : NextStart(p, s) /\ subgid' = subgid \cup {Block(p, s)}
    BY <1>4 DEF UsermodGid
  <2>2. /\ pc[p] = "usermodgid" /\ pc' = [pc EXCEPT ![p] = "done"]
        /\ UNCHANGED <<users, subuid, lock, target, readUid, readGid, ready>>
    BY <1>4 DEF UsermodGid, Goto
  <2>3. readGid[p] = subgid /\ HasSubid(subuid, target[p]) /\ target[p] \in users
    BY <2>2 DEF ReadsStand
  <2>4. Apart(subgid')
    BY <1>1, <2>1, <2>3, BlockType, NextStartFree, AddFree DEF Isolation
  <2>5. HasSubid(subgid', target[p])
    <3>1. Block(p, s) \in subgid' /\ Block(p, s).user = target[p]
      BY <2>1 DEF Block
    <3>. QED
      BY <3>1 DEF HasSubid
  <2>6. ReadyMapped'
    BY <2>1, <2>2, HasSubidGrows DEF ReadyMapped
  <2>7. Exclusive' /\ ReadsStand'
    BY <1>1, <1>2, <2>2, <2>3, <2>5 DEF Exclusive, ReadsStand
  <2>. QED
    BY <2>2, <2>4, <2>6, <2>7 DEF Isolation
<1>. QED
  BY <1>3, <1>4

(* Reading, and finding a block allotted. *)
LEMMA ReadKeeps ==
  ASSUME TypeOK, Inv, NEW p \in Procs,
         Lock(p) \/ CatSubuid(p) \/ CatSubgid(p) \/ Allotted(p)
  PROVE  Inv'
<1> USE DEF TypeOK, Inv, Goto
<1>1. UNCHANGED <<users, subuid, subgid, ready>>
  BY DEF Lock, CatSubuid, CatSubgid, Allotted
<1>2. ReadyMapped' /\ Isolation' /\ (ready \subseteq users)'
  BY <1>1 DEF ReadyMapped, Isolation
<1>3. CASE Lock(p)
  BY <1>1, <1>2, <1>3, NamesDisjoint DEF Lock, Exclusive, ReadsStand
<1>4. CASE CatSubuid(p)
  BY <1>1, <1>2, <1>4 DEF CatSubuid, Exclusive, ReadsStand
<1>5. CASE CatSubgid(p)
  BY <1>1, <1>2, <1>5 DEF CatSubgid, Exclusive, ReadsStand
<1>6. CASE Allotted(p)
  BY <1>1, <1>2, <1>6 DEF Allotted, HasBlock, Exclusive, ReadsStand
<1>. QED
  BY <1>3, <1>4, <1>5, <1>6

(* Ending a command, one way or the other. *)
LEMMA ExitKeeps ==
  ASSUME TypeOK, Inv, NEW p \in Procs, Unlock(p) \/ Die(p)
  PROVE  Inv'
<1> USE DEF TypeOK, Inv
<1>1. pc[p] # "idle" /\ Exit(p) /\ UNCHANGED <<users, subuid, subgid>>
  BY DEF Unlock, Die
<1>2. ready' = ready \/ (pc[p] = "done" /\ ready' = ready \cup {target[p]})
  BY DEF Unlock, Die
<1>3. \A q \in Procs : pc'[q] = "idle"
  BY <1>1 DEF Exclusive, Exit, Goto
<1>4. Exclusive' /\ ReadsStand'
  BY <1>3 DEF Exclusive, ReadsStand
<1>5. ReadyMapped' /\ ready' \subseteq users'
  BY <1>1, <1>2 DEF ReadyMapped, ReadsStand
<1>6. Isolation'
  BY <1>1 DEF Isolation
<1>. QED
  BY <1>4, <1>5, <1>6

(* Removing a cadre's user while nobody is past the lock. *)
LEMMA PurgeKeeps ==
  ASSUME TypeOK, Inv, NEW p \in Procs, Purge(p)
  PROVE  Inv'
<1> USE DEF TypeOK, Inv
<1>1. lock = Free /\ UNCHANGED <<lock, pc, target, readUid, readGid>>
  BY DEF Purge
<1>2. PICK c \in users : /\ users' = users \ {c} /\ ready' = ready \ {c}
                         /\ subuid' \in {subuid, {e \in subuid : e.user # c}}
                         /\ subgid' \in {subgid, {e \in subgid : e.user # c}}
  BY DEF Purge
<1>3. \A q \in Procs : pc[q] = "idle"
  BY <1>1, NamesDisjoint DEF Exclusive
<1>4. Exclusive' /\ ReadsStand'
  BY <1>1, <1>3 DEF Exclusive, ReadsStand
<1>5. subuid' \subseteq subuid /\ subgid' \subseteq subgid
  BY <1>2
<1>6. Isolation'
  BY <1>5 DEF Isolation, Apart
<1>7. \A d \in Cadres \ {c} : /\ HasSubid(subuid, d) => HasSubid(subuid', d)
                              /\ HasSubid(subgid, d) => HasSubid(subgid', d)
  BY <1>2 DEF HasSubid
<1>8. ReadyMapped' /\ ready' \subseteq users'
  BY <1>2, <1>7 DEF ReadyMapped
<1>. QED
  BY <1>4, <1>6, <1>8

(* A range of somebody else's. *)
LEMMA GiveOtherKeeps ==
  ASSUME TypeOK, Inv, GiveOther
  PROVE  Inv'
<1> USE DEF TypeOK, Inv
<1>1. /\ \A p \in Procs : pc[p] \notin {"catgid", "usermod", "usermodgid"}
      /\ UNCHANGED <<users, lock, pc, target, readUid, readGid, ready>>
  BY DEF GiveOther
<1>2. \A u \in Others, s \in Starts : [user |-> u, start |-> s, count |-> Count] \in Line
  BY IdsTyped DEF Line
<1>3. Isolation'
  BY <1>2, AddFree DEF GiveOther, Isolation
<1>4. subuid \subseteq subuid' /\ subgid \subseteq subgid'
  BY DEF GiveOther
<1>5. ReadyMapped'
  BY <1>1, <1>4, HasSubidGrows DEF ReadyMapped
<1>6. Exclusive' /\ ReadsStand'
  BY <1>1, <1>4, HasSubidGrows DEF Exclusive, ReadsStand
<1>. QED
  BY <1>1, <1>3, <1>5, <1>6

(* The invariant holds in every state.                                     *)
LEMMA ProvisionInvariant == Spec => []Inv
<1>1. Init => Inv
  BY DEF Init, Inv, Exclusive, ReadsStand, ReadyMapped, Isolation, Apart
<1>2. TypeOK /\ Inv /\ [Next]_vars => Inv'
  <2>1. TypeOK /\ Inv /\ UNCHANGED vars => Inv'
    BY DEF vars, Inv, Exclusive, ReadsStand, ReadyMapped, Isolation
  <2>. QED
    BY <2>1, UseraddKeeps, UsermodKeeps, ReadKeeps, ExitKeeps, PurgeKeeps, GiveOtherKeeps
    DEF Next, Ensure
<1>. QED
  BY <1>1, <1>2, ProvisionTypeCorrect, PTL DEF Spec

(* No two users ever share a subordinate id, whatever commands run at the  *)
(* same time and wherever they die.                                        *)
THEOREM SubidsIsolated == Spec => []Isolation
BY ProvisionInvariant, PTL DEF Inv

(* A cadre that is set up has ids in both maps, also after a usermod that  *)
(* was cut short.                                                          *)
THEOREM SetUpIsMapped == Spec => []ReadyMapped
BY ProvisionInvariant, PTL DEF Inv

(* Once a cadre is set up its ranges never change. *)
THEOREM RangesNeverMove == Spec => RangesStay
<1> DEFINE Stay == \A c \in ready \cap ready' :
                     /\ {e \in subuid' : e.user = c} = {e \in subuid : e.user = c}
                     /\ {e \in subgid' : e.user = c} = {e \in subgid : e.user = c}
<1>1. TypeOK /\ Inv /\ [Next]_vars => [Stay]_vars
  <2> SUFFICES ASSUME TypeOK, Inv, Next, NEW c \in ready \cap ready'
               PROVE  /\ {e \in subuid' : e.user = c} = {e \in subuid : e.user = c}
                      /\ {e \in subgid' : e.user = c} = {e \in subgid : e.user = c}
    OBVIOUS
  <2> USE DEF TypeOK, Inv
  <2>1. ASSUME NEW p \in Procs, Lock(p) \/ CatSubuid(p) \/ CatSubgid(p) \/ Allotted(p)
                                \/ Unlock(p) \/ Die(p)
        PROVE  UNCHANGED <<subuid, subgid>>
    BY <2>1 DEF Lock, CatSubuid, CatSubgid, Allotted, Unlock, Die
  <2>2. ASSUME NEW p \in Procs, Useradd(p)
        PROVE  /\ {e \in subuid' : e.user = c} = {e \in subuid : e.user = c}
               /\ {e \in subgid' : e.user = c} = {e \in subgid : e.user = c}
    <3>1. target[p] \in Cadres /\ c \in users
      BY <2>2 DEF Useradd, Exclusive
    <3>2. target[p] \notin users => target[p] # c
      BY <3>1
    <3>. QED
      BY <2>2, <3>1, <3>2, UseraddAdds, OthersLines
  <2>3. ASSUME NEW p \in Procs, Usermod(p) \/ UsermodGid(p)
        PROVE  /\ {e \in subuid' : e.user = c} = {e \in subuid : e.user = c}
               /\ {e \in subgid' : e.user = c} = {e \in subgid : e.user = c}
    <3>1. target[p] # c
      BY <2>3 DEF Usermod, UsermodGid, ReadsStand, HasBlock, ReadyMapped
    <3>2. \A s \in 0..MaxId : Block(p, s).user # c
      BY <3>1 DEF Block
    <3>. QED
      BY <2>3, <3>2, OthersLines DEF Usermod, UsermodGid
  <2>4. ASSUME NEW p \in Procs, Purge(p)
        PROVE  /\ {e \in subuid' : e.user = c} = {e \in subuid : e.user = c}
               /\ {e \in subgid' : e.user = c} = {e \in subgid : e.user = c}
    BY <2>4 DEF Purge
  <2>5. CASE GiveOther
    BY <2>5, NamesDisjoint DEF GiveOther
  <2>. QED
    BY <2>1, <2>2, <2>3, <2>4, <2>5 DEF Next, Ensure
<1>. QED
  BY <1>1, ProvisionTypeCorrect, ProvisionInvariant, PTL DEF Spec, RangesStay, Stay
=============================================================================

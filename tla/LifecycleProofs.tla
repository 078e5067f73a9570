--------------------------- MODULE LifecycleProofs ---------------------------
(***************************************************************************)
(* What holds of a cadre that comes and goes, for every set of files,      *)
(* contents and cadres and every number of failed passes and interrupted   *)
(* removals.  While it is assigned the invariants of ReconcileProofs hold; *)
(* while it is not, its removal gets through what the record lists.        *)
(***************************************************************************)
EXTENDS Lifecycle, ReconcileProofs

-----------------------------------------------------------------------------
(* The invariants.                                                         *)

Removals == [at      : {"idle", "stop", "wipe", "reload", "forget", "kill", "userdel", "cap"},
             mode    : {"keep", "purge"},
             uid     : Uids \cup {NoUid},
             stop    : SUBSET Quadlets,
             disable : SUBSET Natives]

LTypeOK ==
  /\ TypeOK
  /\ assigned \in BOOLEAN
  /\ rm \in Removals
  /\ forgot \in SUBSET Uids
  /\ halfway \in {"no", "died", "back"}
  /\ rmFails \in 0..MaxRmFails
  /\ rmCrashes \in 0..MaxRmCrashes

(* A removal runs when no pass does, with the uid of the record; it drops  *)
(* the record on the way, and until one does, one that died is half done.  *)
RmSound ==
  /\ rm.at # "idle" => ~assigned
  /\ ~assigned => ~busy
  /\ rm.at \in {"stop", "wipe", "reload", "forget"} => rm.uid = record.uid
  /\ rm.at \in {"stop", "wipe", "reload"} => rm.uid # NoUid
  /\ rm.at \in {"kill", "userdel", "cap"} => record = EmptyRecord
  /\ halfway = "died" => ~assigned /\ record # EmptyRecord

(* Until a removal drops it, the record of a cadre that went is the one    *)
(* of the cadre as it was when it went.                                    *)
LeftRecorded == ~assigned /\ record # EmptyRecord => Recorded

(* The host is in step with the record: the cadre is assigned, or it went  *)
(* and no removal has begun; and it did not come back on a half-done one.  *)
InStep ==
  rm.at = "idle" /\ halfway = "no" /\ RmHeard /\ (assigned \/ record # EmptyRecord)

(* What ReconcileProofs shows of a cadre that is always assigned, but for  *)
(* the secrets: those of an earlier stay on this node are not dropped.     *)
Follows ==
  StopsFollow /\ WantedRecorded /\ FilesFollow /\ SecretsReady /\ LoadsFollow /\ EnabledFollow

AppliedSound == InStep => Follows

(* Nothing of the cadre is left but the user. *)
Clean ==
  /\ \A n \in Names : disk[n] = Absent
  /\ \A u \in Units : loaded[u] = Absent /\ run[u] = Absent
  /\ enabled = {}

(* What runs or is enabled is listed, and has its file if it is a native:  *)
(* without it systemctl disable would fail.                                *)
Listed(units, natives) ==
  /\ \A u \in Units : run[u] # Absent => u \in units \cup natives
  /\ enabled \subseteq natives
  /\ \A n \in Natives : n \in enabled \/ run[n] # Absent => disk[n] # Absent

(* Which files are left of a cadre that is not assigned, as its removal    *)
(* goes on.                                                                *)
DiskFollows ==
  ~assigned /\ RmHeard =>
    /\ record.uid \in {NoUid, uid}
    /\ rm.at = "wipe" => \A n \in Quadlets \cup Supports : disk[n] = Absent
    /\ record.uid = NoUid \/ rm.at \in {"reload", "forget"} => \A n \in Names : disk[n] = Absent

(* ... and what else. *)
RemovalFollows ==
  ~assigned /\ RmHeard /\ halfway # "back" =>
    /\ record.uid = NoUid => Clean
    /\ Listed(record.units, record.natives)
    /\ rm.at = "stop" => Listed(rm.stop, rm.disable)
    /\ rm.at \in {"wipe", "reload"} => Listed({}, {})
    /\ rm.at = "forget" => Clean

(* Of the uids that are not forgotten only the user's own has a cap, or    *)
(* the one whose cap a purge is about to drop.                             *)
CapsOwned ==
  /\ record.uid \in {NoUid, uid}
  /\ \A u \in Uids \ (forgot \cup {uid}) :
       slice[u] = NoLimits \/ (rm.at = "cap" /\ u = rm.uid)
  /\ rm.at \in {"kill", "userdel"} => rm.uid \in {NoUid, uid}
  /\ ~assigned /\ record.uid = NoUid /\ uid # NoUid =>
       uid \in forgot \/ (rm.at \in {"kill", "userdel"} /\ rm.uid = uid)

CapFollows ==
  (assigned \/ record # EmptyRecord) /\ uid # NoUid =>
    \/ slice[uid] = desired.limits \/ Todo.limits # {}
    \/ uid \in forgot /\ desired.limits = NoLimits

-----------------------------------------------------------------------------
(* Types.                                                                  *)

LEMMA NoRemovalType == NoRemoval \in Removals
BY DEF NoRemoval, Removals

(* The host after a command of a removal. *)
LEMMA RmHostType ==
  ASSUME LTypeOK, RmStep
  PROVE  HostTypeOK' /\ record' \in Record
<1> USE DEF LTypeOK, TypeOK, HostTypeOK
<1>1. CASE \E u \in Quadlets : RmStop(u)
  BY <1>1 DEF RmStop, Issued, HostStop
<1>2. CASE \E u \in Natives : RmDisable(u)
  BY <1>2, HostReloadType DEF RmDisable, Issued, HostDisable, HostStop
<1>3. CASE RmWipeQuadlets \/ RmWipeNatives
  BY <1>3 DEF RmWipeQuadlets, RmWipeNatives, Wiped, Issued, DiskContents
<1>4. CASE RmReload
  BY <1>4, HostReloadType DEF RmReload, Issued
<1>5. CASE RmForget
  BY <1>5, EmptyRecordType DEF RmForget, hostVars
<1>6. CASE RmKill
  BY <1>6 DEF RmKill
<1>7. CASE RmUserdel
  BY <1>7 DEF RmUserdel, HostUserGone, DiskContents, SecretMap, LoginMap
<1>8. CASE RmCap
  BY <1>8, SentinelsOutside DEF RmCap
<1>. QED
  BY <1>1, <1>2, <1>3, <1>4, <1>5, <1>6, <1>7, <1>8 DEF RmStep

LEMMA RmType ==
  ASSUME LTypeOK, RmStep
  PROVE  rm' \in Removals /\ rmFails' \in 0..MaxRmFails
<1> USE DEF LTypeOK
<1>1. CASE \E u \in Quadlets : RmStop(u)
  BY <1>1, ModesTyped DEF RmStop, Issued, Removals
<1>2. CASE \E u \in Natives : RmDisable(u)
  BY <1>2, ModesTyped DEF RmDisable, Issued, Removals
<1>3. CASE RmWipeQuadlets \/ RmWipeNatives \/ RmReload
  BY <1>3, ModesTyped DEF RmWipeQuadlets, RmWipeNatives, RmReload, Issued, Removals
<1>4. CASE RmForget \/ RmKill \/ RmUserdel \/ RmCap
  BY <1>4, NoRemovalType DEF RmForget, RmKill, RmUserdel, RmCap, Removals
<1>. QED
  BY <1>1, <1>2, <1>3, <1>4 DEF RmStep

LEMMA LTypeStep ==
  ASSUME LTypeOK, [LNext]_lvars
  PROVE  LTypeOK'
<1>1. CASE Applying
  BY <1>1, TypeStep DEF Applying, LTypeOK
<1>2. CASE RmStart
  <2>1. UNCHANGED vars /\ UNCHANGED <<assigned, forgot, halfway, rmFails, rmCrashes>>
    BY <1>2 DEF RmStart, RmBegin, vars, passVars
  <2>2. TypeOK'
    BY <2>1, TypeStep DEF LTypeOK
  <2>3. rm' \in Removals
    BY <1>2, ModesTyped DEF RmStart, RmBegin, Removals, LTypeOK, TypeOK, Record
  <2>. QED
    BY <2>1, <2>2, <2>3 DEF LTypeOK
<1>3. CASE RmStep
  <2>1. UNCHANGED <<busy, committed, plan, stopFailed, desired, budgetVars, assigned, rmCrashes>>
    BY <1>3 DEF RmStep
  <2>2. TypeOK'
    BY <1>3, <2>1, RmHostType DEF LTypeOK, TypeOK, budgetVars
  <2>3. forgot' \in SUBSET Uids /\ halfway' \in {"no", "died", "back"}
    BY <1>3 DEF RmStep, LTypeOK, TypeOK, Record
  <2>. QED
    BY <1>3, <2>1, <2>2, <2>3, RmType DEF LTypeOK
<1>4. CASE RmCrash
  <2>1. TypeOK'
    BY <1>4, TypeStep DEF RmCrash, LTypeOK
  <2>2. forgot' \in SUBSET Uids /\ halfway' \in {"no", "died", "back"}
    BY <1>4 DEF RmCrash, LTypeOK, Removals
  <2>3. rmCrashes' \in 0..MaxRmCrashes
    BY <1>4, ModesTyped DEF RmCrash, LTypeOK
  <2>. QED
    BY <1>4, <2>1, <2>2, <2>3, NoRemovalType DEF RmCrash, LTypeOK
<1>5. CASE Reassign
  <2>1. desired' \in Cadres /\ committed' \in BOOLEAN
    BY <1>5 DEF Reassign, LTypeOK, TypeOK
  <2>. QED
    BY <1>5, <2>1 DEF Reassign, LTypeOK, TypeOK, HostTypeOK, hostVars, budgetVars
<1>6. CASE UNCHANGED lvars
  BY <1>6, TypeStep DEF lvars, LTypeOK
<1>. QED
  BY <1>1, <1>2, <1>3, <1>4, <1>5, <1>6 DEF LNext

LEMMA LTypeInit == LInit => LTypeOK
BY TypeInit, NoRemovalType, ModesTyped DEF LInit, LTypeOK

LEMMA LTypeCorrect == LSpec => []LTypeOK
<1>1. LTypeOK /\ [LNext]_lvars => LTypeOK'
  BY LTypeStep
<1>. QED
  BY <1>1, LTypeInit, PTL DEF LSpec

-----------------------------------------------------------------------------
(* Passes and removals keep out of each other's way.                       *)

(* A step of a removal: no pass runs, and at most the record is dropped.   *)
LEMMA Removing ==
  ASSUME LTypeOK, RmSound, RmStep
  PROVE  /\ rm.at # "idle" /\ ~assigned /\ ~busy /\ UNCHANGED <<busy, stopFailed, assigned>>
         /\ record' = record \/ record' = EmptyRecord
BY DEF RmStep, RmStop, RmDisable, RmWipeQuadlets, RmWipeNatives, RmReload, RmForget, RmKill,
       RmUserdel, RmCap, RmSound

(* The one that ends it leaves no record. *)
LEMMA RmEnds ==
  ASSUME LTypeOK, RmSound, RmStep, rm'.at = "idle"
  PROVE  record' = EmptyRecord
<1> USE DEF LTypeOK, Removals
<1>1. CASE (\E u \in Quadlets : RmStop(u)) \/ (\E u \in Natives : RmDisable(u))
  BY <1>1 DEF RmStop, RmDisable
<1>2. CASE RmWipeQuadlets \/ RmWipeNatives \/ RmReload \/ RmKill
  BY <1>2 DEF RmWipeQuadlets, RmWipeNatives, RmReload, RmKill
<1>3. CASE RmForget \/ RmUserdel \/ RmCap
  BY <1>3 DEF RmForget, RmUserdel, RmCap, RmSound
<1>. QED
  BY <1>1, <1>2, <1>3 DEF RmStep

LEMMA RmSoundStep ==
  ASSUME LTypeOK, RecordSound, PlanSound, RmSound, [LNext]_lvars
  PROVE  RecordSound' /\ PlanSound' /\ RmSound'
<1> USE DEF LTypeOK
<1>1. CASE Applying
  BY <1>1, SoundStep DEF Applying, RmSound
<1>2. CASE RmStart
  <2>1. UNCHANGED vars /\ UNCHANGED assigned /\ ~assigned /\ ~busy
    BY <1>2 DEF RmStart, RmBegin, vars, passVars
  <2>2. RecordSound' /\ PlanSound'
    BY <2>1, SoundStep
  <2>3. RmSound'
    BY <1>2, <2>1 DEF RmStart, RmBegin, RmSound, vars, passVars
  <2>. QED
    BY <2>2, <2>3
<1>3. CASE RmStep
  <2>1. /\ UNCHANGED <<busy, stopFailed, assigned>> /\ rm.at # "idle" /\ ~assigned /\ ~busy
    BY <1>3, Removing
  <2>2. record' = record \/ record' = EmptyRecord
    BY <1>3, Removing
  <2>3. RecordSound'
    BY <2>2 DEF RecordSound, EmptyRecord, Names, Units
  <2>4. PlanSound'
    BY <2>1 DEF PlanSound
  <2>5. RmSound'
    <3> USE DEF RmSound, Removals
    <3>0. halfway' = "died" => ~assigned' /\ record' # EmptyRecord
      BY <1>3, <2>1, <2>2 DEF RmStep
    <3>1. CASE (\E u \in Quadlets : RmStop(u)) \/ (\E u \in Natives : RmDisable(u))
      BY <2>1, <3>0, <3>1 DEF RmStop, RmDisable
    <3>2. CASE RmWipeQuadlets \/ RmWipeNatives \/ RmReload
      BY <2>1, <3>0, <3>2 DEF RmWipeQuadlets, RmWipeNatives, RmReload
    <3>3. CASE RmForget
      BY <2>1, <3>0, <3>3 DEF RmForget, NoRemoval
    <3>4. CASE RmKill
      BY <2>1, <3>0, <3>4 DEF RmKill
    <3>5. CASE RmUserdel \/ RmCap
      BY <2>1, <3>0, <3>5 DEF RmUserdel, RmCap, NoRemoval
    <3>. QED
      BY <1>3, <3>1, <3>2, <3>3, <3>4, <3>5 DEF RmStep
  <2>. QED
    BY <2>3, <2>4, <2>5
<1>4. CASE RmCrash
  <2>1. UNCHANGED vars /\ UNCHANGED assigned /\ rm' = NoRemoval
    BY <1>4 DEF RmCrash
  <2>2. RecordSound' /\ PlanSound'
    BY <2>1, SoundStep
  <2>3. halfway' = "died" => ~assigned /\ record # EmptyRecord
    BY <1>4 DEF RmCrash, RmSound
  <2>. QED
    BY <2>1, <2>2, <2>3 DEF RmSound, NoRemoval, vars, passVars
<1>5. CASE Reassign
  BY <1>5 DEF Reassign, RecordSound, PlanSound, RmSound
<1>6. CASE UNCHANGED lvars
  <2>1. UNCHANGED vars /\ UNCHANGED <<assigned, rm, halfway, busy, record>>
    BY <1>6 DEF lvars, vars, passVars
  <2>. QED
    BY <2>1, SoundStep DEF RmSound
<1>. QED
  BY <1>1, <1>2, <1>3, <1>4, <1>5, <1>6 DEF LNext

LEMMA RmSoundAlways == LSpec => [](RecordSound /\ PlanSound /\ RmSound)
<1>1. LInit => RecordSound /\ PlanSound /\ RmSound
  BY SoundInit DEF LInit, RmSound, NoRemoval
<1>2. LTypeOK /\ RecordSound /\ PlanSound /\ RmSound /\ [LNext]_lvars
      => (RecordSound /\ PlanSound /\ RmSound)'
  BY RmSoundStep
<1>. QED
  BY <1>1, <1>2, LTypeCorrect, PTL DEF LSpec

-----------------------------------------------------------------------------
(* While the cadre is assigned.                                            *)

(* A cadre that comes back finds the node empty, and the record too. *)
LEMMA Returns ==
  ASSUME LTypeOK, LTypeOK', RecordSound, ~busy, ~busy', stopFailed' = {}, Clean,
         record = EmptyRecord, UNCHANGED <<hostVars, record>>, ~committed'
  PROVE  (StopsFollow /\ WantedRecorded /\ FilesFollow /\ SecretsReady /\ LoadsFollow
          /\ EnabledFollow /\ RunsFollow)'
<1>1. PlanParts' /\ Todo' = PlanFor(desired)' /\ Base' = EmptyRecord
  BY PlanForPartsNext DEF LTypeOK, Todo, Base, UidChanged, EmptyRecord
<1>2. Clean'
  BY DEF Clean, hostVars
<1>3. StopsFollow' /\ WantedRecorded'
  BY <1>2 DEF Clean, StopsFollow, WantedRecorded
<1>4. FilesFollow' /\ SecretsReady'
  BY <1>1, <1>2
  DEF Clean, FilesFollow, SecretsReady, PlanParts, Written, Created, Present, EmptyRecord
<1>5. LoadsFollow'
  BY <1>1, <1>2 DEF Clean, LoadsFollow, PlanParts, Units, Names
<1>6. EnabledFollow' /\ RunsFollow'
  BY <1>1, <1>2
  DEF Clean, EnabledFollow, RunsFollow, PlanParts, EmptyRecord, Wanted, QuadletsOf, NativesOf, Units
<1>. QED
  BY <1>3, <1>4, <1>5, <1>6

(* A cadre that goes leaves what its record lists. *)
LEMMA Leaving ==
  ASSUME TypeOK, PlanSound, StopsFollow, FilesFollow, EnabledFollow, ~busy, Recorded
  PROVE  record.uid = uid /\ uid # NoUid /\ Listed(record.units, record.natives)
<1>1. /\ record.uid = uid /\ uid # NoUid
      /\ record.units = QuadletsOf(desired) /\ record.natives = NativesOf(desired)
  BY DEF Recorded, NextState
<1>2. Todo = EmptyPlan /\ stopFailed = {}
  BY NothingToDo DEF Todo, PlanSound
<1>3. \A u \in Units : run[u] # Absent => u \in Wanted
  BY <1>2 DEF StopsFollow, EmptyPlan
<1>4. enabled \subseteq NativesOf(desired)
  BY <1>2 DEF EnabledFollow, EmptyPlan, TypeOK, HostTypeOK
<1>5. \A n \in Names : disk[n] = desired.files[n]
  BY <1>2 DEF FilesFollow, EmptyPlan
<1>6. ASSUME NEW n \in Natives, n \in Wanted
      PROVE  disk[n] # Absent
  BY <1>5, <1>6 DEF Wanted, QuadletsOf, NativesOf, Present
<1>. QED
  BY <1>1, <1>3, <1>4, <1>6 DEF Listed, Wanted, Units

(* A cadre that goes leaves a record of itself. *)
LEMMA LeftRecordedStep ==
  ASSUME LTypeOK, RmSound, LeftRecorded, [LNext]_lvars, ChangeWhen = "converged"
  PROVE  LeftRecorded'
<1>1. CASE Applying
  BY <1>1 DEF Applying, LeftRecorded
<1>2. CASE RmStart \/ RmCrash
  BY <1>2 DEF RmStart, RmBegin, RmCrash, LeftRecorded, Recorded, NextState, vars, hostVars, passVars
<1>3. CASE RmStep
  <2>1. (record' = record /\ uid' = uid) \/ record' = EmptyRecord
    BY <1>3
    DEF RmStep, RmStop, RmDisable, RmWipeQuadlets, RmWipeNatives, RmReload, RmForget, RmKill,
        RmUserdel, RmCap, RmSound
  <2>2. desired' = desired /\ assigned' = assigned
    BY <1>3 DEF RmStep
  <2>. QED
    BY <2>1, <2>2 DEF LeftRecorded, Recorded, NextState
<1>4. CASE Reassign
  <2>1. CASE assigned
    <3>1. Recorded /\ UNCHANGED <<uid, record, desired>>
      BY <1>4, <2>1 DEF Reassign, hostVars
    <3>. QED
      BY <3>1 DEF LeftRecorded, Recorded, NextState
  <2>. QED
    BY <1>4, <2>1 DEF Reassign, LeftRecorded
<1>5. CASE UNCHANGED lvars
  BY <1>5 DEF lvars, vars, hostVars, passVars, LeftRecorded, Recorded, NextState
<1>. QED
  BY <1>1, <1>2, <1>3, <1>4, <1>5 DEF LNext

(* When it comes back before a removal has begun, that is a change of mind *)
(* as any other.                                                           *)
LEMMA ComesBack ==
  ASSUME LTypeOK, RmSound, LeftRecorded, ChangeWhen = "converged",
         Reassign, ~assigned, record # EmptyRecord
  PROVE  \/ ChangeDesired
         \/ /\ UNCHANGED <<hostVars, record, busy, plan, stopFailed, desired>> /\ ~committed'
            /\ Todo' = Todo /\ Wanted' = Wanted
<1>1. /\ ~busy /\ Recorded /\ desired' \in Cadres /\ committed' = FALSE
      /\ UNCHANGED <<hostVars, record, busy, plan, stopFailed, budgetVars>>
  BY DEF Reassign, LeftRecorded
<1>2. CASE desired' = desired
  BY <1>1, <1>2
  DEF hostVars, Todo, PlanFor, WithLogins, LoginDue, DiffPlan, Base, UidChanged, Wanted
<1>3. CASE desired' # desired
  BY <1>1, <1>3 DEF ChangeDesired, Converged
<1>. QED
  BY <1>2, <1>3

(* Where the host is in step with the record of a cadre that is not        *)
(* assigned, nothing has begun to remove it.                               *)
LEMMA StaysInStep ==
  ASSUME LTypeOK, RmSound, RmStart \/ RmStep \/ RmCrash, InStep'
  PROVE  FALSE
<1>1. CASE RmStart
  BY <1>1 DEF RmStart, RmBegin, InStep
<1>2. CASE RmStep
  BY <1>2, Removing, RmEnds DEF InStep
<1>3. CASE RmCrash
  BY <1>3 DEF RmCrash, RmSound, InStep, vars, passVars
<1>. QED
  BY <1>1, <1>2, <1>3

LEMMA AppliedSoundStep ==
  ASSUME LTypeOK, LTypeOK', RecordSound, PlanSound, PlanSound', RmSound, LeftRecorded, AppliedSound,
         RemovalFollows, [LNext]_lvars, ChangeWhen = "converged", ~ReuseUid
  PROVE  AppliedSound'
<1> USE DEF LTypeOK
<1> SUFFICES ASSUME InStep' PROVE Follows'
  BY DEF AppliedSound
<1>1. CASE Applying
  <2>1. Follows /\ Next
    BY <1>1 DEF Applying, AppliedSound, InStep, RmHeard
  <2>. QED
    BY <2>1, StopsFollowStep, FilesFollowStep, SecretsReadyStep, LoadsFollowStep, EnabledFollowStep
    DEF Follows
<1>2. CASE RmStart \/ RmStep \/ RmCrash
  BY <1>2, StaysInStep
<1>3. CASE Reassign
  <2>1. CASE assigned
    <3>1. InStep /\ UNCHANGED <<hostVars, record, busy, plan, stopFailed, desired, committed>>
      BY <1>3, <2>1 DEF Reassign, InStep, RmHeard
    <3>2. Todo' = Todo /\ Wanted' = Wanted
      BY <3>1
      DEF hostVars, Todo, PlanFor, WithLogins, LoginDue, DiffPlan, Base, UidChanged, Wanted
    <3>. QED
      BY <3>1, <3>2
      DEF AppliedSound, Follows, StopsFollow, WantedRecorded, FilesFollow, SecretsReady, LoadsFollow,
          EnabledFollow, hostVars
  <2>2. CASE ~assigned /\ record # EmptyRecord
    <3>1. Follows
      BY <1>3, <2>2 DEF Reassign, InStep, RmHeard, AppliedSound
    <3>2. CASE ChangeDesired
      BY <3>1, <3>2, StopsFollowStep, FilesFollowStep, SecretsReadyStep, LoadsFollowStep,
         EnabledFollowStep
      DEF Follows, Next
    <3>3. CASE ~ChangeDesired
      <4>1. /\ UNCHANGED <<hostVars, record, busy, plan, stopFailed, desired>> /\ ~committed'
            /\ Todo' = Todo /\ Wanted' = Wanted
        BY <1>3, <2>2, <3>3, ComesBack
      <4>. QED
        BY <3>1, <4>1
        DEF Follows, StopsFollow, WantedRecorded, FilesFollow, SecretsReady, LoadsFollow,
            EnabledFollow, hostVars
    <3>. QED
      BY <3>2, <3>3
  <2>3. CASE ~assigned /\ record = EmptyRecord
    <3>1. /\ ~busy /\ ~busy' /\ ~committed' /\ halfway # "back" /\ RmHeard
          /\ UNCHANGED <<hostVars, record>>
      BY <1>3, <2>3 DEF Reassign, InStep, RmHeard
    <3>2. Clean /\ stopFailed' = {}
      BY <2>3, <3>1 DEF RemovalFollows, PlanSound, EmptyRecord
    <3>. QED
      BY <2>3, <3>1, <3>2, Returns DEF Follows
  <2>. QED
    BY <2>1, <2>2, <2>3
<1>4. CASE UNCHANGED lvars
  <2>1. InStep /\ UNCHANGED vars
    BY <1>4 DEF lvars, vars, passVars, InStep, RmHeard
  <2>2. Todo' = Todo /\ Wanted' = Wanted /\ UNCHANGED <<hostVars, passVars, desired>>
    BY <2>1, TodoStutter DEF vars
  <2>. QED
    BY <2>1, <2>2
    DEF AppliedSound, Follows, StopsFollow, WantedRecorded, FilesFollow, SecretsReady, LoadsFollow,
        EnabledFollow, hostVars, passVars
<1>. QED
  BY <1>1, <1>2, <1>3, <1>4 DEF LNext

-----------------------------------------------------------------------------
(* While it is not.                                                        *)

(* The files go, whatever the passes before have left running. *)
LEMMA DiskFollowsStep ==
  ASSUME LTypeOK, RmSound, DiskFollows, [LNext]_lvars, ChangeWhen = "converged"
  PROVE  DiskFollows'
<1> USE DEF LTypeOK
<1>0. rmFails \in Nat /\ EmptyRecord.uid = NoUid
  BY ModesTyped DEF EmptyRecord
<1>1. CASE Applying
  BY <1>1 DEF Applying, DiskFollows
<1>2. CASE RmStart \/ RmCrash
  <2>1. UNCHANGED <<disk, uid, record, assigned, rmFails>> /\ rm'.at \in {"idle", "stop", "forget"}
        /\ (rm'.at = "forget" => record.uid = NoUid)
    BY <1>2 DEF RmStart, RmBegin, RmCrash, NoRemoval, vars, hostVars, passVars
  <2>. QED
    BY <2>1 DEF DiskFollows, RmHeard
<1>3. CASE RmStep
  <2> SUFFICES ASSUME RmHeard'
               PROVE  /\ record'.uid \in {NoUid, uid'}
                      /\ rm'.at = "wipe" => \A n \in Quadlets \cup Supports : disk'[n] = Absent
                      /\ record'.uid = NoUid \/ rm'.at \in {"reload", "forget"}
                           => \A n \in Names : disk'[n] = Absent
    BY DEF DiskFollows
  <2>0. ~assigned
    BY <1>3, Removing
  <2>1. RmHeard
    BY <1>0, <1>3
    DEF RmStep, RmStop, RmDisable, RmWipeQuadlets, RmWipeNatives, RmReload, RmForget, RmKill,
        RmUserdel, RmCap, RmHeard, Issued
  <2>2. CASE (\E u \in Quadlets : RmStop(u)) \/ (\E u \in Natives : RmDisable(u))
    BY <2>0, <2>1, <2>2 DEF RmStop, RmDisable, DiskFollows, Removals
  <2>3. CASE RmWipeQuadlets
    <3>1. rm.uid = uid /\ record.uid = uid /\ uid # NoUid
      BY <2>0, <2>1, <2>3 DEF RmWipeQuadlets, RmSound, DiskFollows
    <3>2. disk' = Wiped(Quadlets \cup Supports) /\ rm'.at = "wipe" /\ UNCHANGED <<uid, record>>
      BY <1>0, <2>3, <3>1 DEF RmWipeQuadlets, Issued, RmHeard, Removals
    <3>. QED
      BY <3>1, <3>2 DEF Wiped, Names, Units
  <2>4. CASE RmWipeNatives
    <3>1. /\ rm.uid = uid /\ record.uid = uid /\ uid # NoUid
          /\ \A n \in Quadlets \cup Supports : disk[n] = Absent
      BY <2>0, <2>1, <2>4 DEF RmWipeNatives, RmSound, DiskFollows
    <3>2. disk' = Wiped(Natives) /\ rm'.at = "reload" /\ UNCHANGED <<uid, record>>
      BY <1>0, <2>4, <3>1 DEF RmWipeNatives, Issued, RmHeard, Removals
    <3>3. ASSUME NEW n \in Names
          PROVE  disk'[n] = Absent
      <4>1. n \in Natives \/ n \in Quadlets \cup Supports
        BY DEF Names, Units, Natives
      <4>. QED
        BY <3>1, <3>2, <4>1 DEF Wiped
    <3>4. record'.uid \in {NoUid, uid'} /\ rm'.at # "wipe"
      BY <3>1, <3>2
    <3>. QED
      BY <3>3, <3>4
  <2>5. CASE RmReload
    BY <2>0, <2>1, <2>5 DEF RmReload, DiskFollows, Removals
  <2>6. CASE RmForget
    <3>1. \A n \in Names : disk[n] = Absent
      BY <2>0, <2>1, <2>6 DEF RmForget, DiskFollows
    <3>2. record' = EmptyRecord /\ disk' = disk /\ rm'.at \in {"kill", "idle"}
      BY <2>6 DEF RmForget, hostVars, NoRemoval, Removals
    <3>. QED
      BY <1>0, <3>1, <3>2
  <2>7. CASE RmKill \/ RmUserdel \/ RmCap
    <3>1. record = EmptyRecord /\ record' = record /\ rm'.at \notin {"wipe", "reload", "forget"}
      BY <2>7 DEF RmKill, RmUserdel, RmCap, RmSound, NoRemoval, Removals
    <3>2. \A n \in Names : disk'[n] = Absent
      BY <1>0, <2>0, <2>1, <2>7, <3>1 DEF RmKill, RmUserdel, RmCap, HostUserGone, DiskFollows
    <3>. QED
      BY <1>0, <3>1, <3>2
  <2>. QED
    BY <1>3, <2>2, <2>3, <2>4, <2>5, <2>6, <2>7 DEF RmStep
<1>4. CASE Reassign
  <2>1. CASE assigned
    <3>1. UNCHANGED <<uid, record, rm>> /\ rm.at = "idle" /\ Recorded
      BY <1>4, <2>1 DEF Reassign, hostVars
    <3>. QED
      BY <3>1 DEF DiskFollows, Recorded, NextState
  <2>. QED
    BY <1>4, <2>1 DEF Reassign, DiskFollows
<1>5. CASE UNCHANGED lvars
  BY <1>5 DEF lvars, vars, hostVars, passVars, DiskFollows, RmHeard
<1>. QED
  BY <1>1, <1>2, <1>3, <1>4, <1>5 DEF LNext

(* A removal none of whose commands has failed takes down what it lists,   *)
(* one unit at a time; what it has wiped stays wiped.                      *)
LEMMA RemovalStep ==
  ASSUME LTypeOK, RecordSound, RmSound, DiskFollows, RemovalFollows, RmStep, RmHeard',
         halfway' # "back"
  PROVE  RemovalFollows'
<1> USE DEF LTypeOK, Removals
<1>0. /\ ~assigned /\ ~assigned' /\ rmFails \in Nat /\ halfway # "back"
      /\ Quadlets \cap Natives = {} /\ Natives \subseteq Units /\ Natives \subseteq Names
      /\ Quadlets \subseteq Units /\ Units = Quadlets \cup Natives
  <2>1. ~assigned /\ ~assigned'
    BY Removing
  <2>2. rmFails \in Nat /\ halfway # "back"
    BY ModesTyped DEF RmStep
  <2>. QED
    BY <2>1, <2>2, ClassesDisjoint DEF Names, Units, Natives
<1>1. RmHeard
  BY <1>0
  DEF RmStep, RmStop, RmDisable, RmWipeQuadlets, RmWipeNatives, RmReload, RmForget, RmKill,
      RmUserdel, RmCap, RmHeard, Issued
<1>2. /\ record.uid \in {NoUid, uid}
      /\ record.uid = NoUid => Clean
      /\ Listed(record.units, record.natives)
  BY <1>0, <1>1 DEF RemovalFollows, DiskFollows
<1>3. ASSUME NEW u \in Quadlets, RmStop(u)
      PROVE  RemovalFollows'
  <2>1. /\ rm.at = "stop" /\ rm.uid = uid /\ rm.uid # NoUid /\ Listed(rm.stop, rm.disable)
        /\ rm.uid = record.uid
    BY <1>0, <1>1, <1>2, <1>3 DEF RmStop, RmSound, RemovalFollows
  <2>2. /\ run' = [run EXCEPT ![u] = Absent] \/ (run' = run /\ run[u] = Absent)
        /\ rm' = [rm EXCEPT !.stop = @ \ {u}]
        /\ UNCHANGED <<uid, disk, enabled, record>>
    BY <1>0, <1>1, <1>3, <2>1 DEF RmStop, Issued, HostStop, Stoppable, RmHeard
  <2>3. Listed(record.units, record.natives)' /\ Listed(rm.stop, rm.disable)'
    BY <1>0, <1>2, <2>1, <2>2 DEF Listed, TypeOK, HostTypeOK
  <2>. QED
    BY <2>1, <2>2, <2>3 DEF RemovalFollows
<1>4. ASSUME NEW u \in Natives, RmDisable(u)
      PROVE  RemovalFollows'
  <2>1. /\ rm.at = "stop" /\ rm.uid = uid /\ rm.uid # NoUid /\ Listed(rm.stop, rm.disable)
        /\ rm.uid = record.uid
    BY <1>0, <1>1, <1>2, <1>4 DEF RmDisable, RmSound, RemovalFollows
  <2>2. /\ \/ run' = [run EXCEPT ![u] = Absent] /\ enabled' = enabled \ {u}
           \/ run' = run /\ enabled' = enabled /\ disk[u] = Absent
        /\ rm' = [rm EXCEPT !.disable = @ \ {u}]
        /\ UNCHANGED <<uid, disk, record>>
    BY <1>0, <1>1, <1>4, <2>1 DEF RmDisable, Issued, HostDisable, HostStop, Disableable, RmHeard
  <2>3. Listed(record.units, record.natives)' /\ Listed(rm.stop, rm.disable)'
    BY <1>0, <1>2, <2>1, <2>2 DEF Listed, TypeOK, HostTypeOK
  <2>. QED
    BY <2>1, <2>2, <2>3 DEF RemovalFollows
<1>5. CASE RmWipeQuadlets \/ RmWipeNatives
  <2>1. /\ rm.uid # NoUid /\ Listed({}, {}) /\ rm.uid = record.uid
    BY <1>0, <1>1, <1>5 DEF RmWipeQuadlets, RmWipeNatives, RmSound, RemovalFollows
  <2>2. rm'.at \in {"wipe", "reload"} /\ UNCHANGED <<uid, run, enabled, record>>
    BY <1>5 DEF RmWipeQuadlets, RmWipeNatives
  <2>3. Listed({}, {})' /\ Listed(record.units, record.natives)'
    BY <1>0, <2>1, <2>2 DEF Listed
  <2>. QED
    BY <2>1, <2>2, <2>3 DEF RemovalFollows
<1>6. CASE RmReload
  <2>1. /\ rm.at = "reload" /\ rm.uid = uid /\ rm.uid # NoUid /\ Listed({}, {})
        /\ rm.uid = record.uid /\ \A n \in Names : disk[n] = Absent
    BY <1>0, <1>1, <1>2, <1>6 DEF RmReload, RmSound, RemovalFollows, DiskFollows
  <2>2. /\ loaded' = [u \in Units |-> disk[u]] /\ rm'.at = "forget"
        /\ UNCHANGED <<uid, disk, run, enabled, record>>
    BY <1>0, <1>1, <1>6, <2>1 DEF RmReload, Issued, RmHeard, HostReload
  <2>3. Clean'
    BY <1>0, <2>1, <2>2 DEF Listed, Clean, Names
  <2>4. Listed(record.units, record.natives)'
    BY <1>2, <2>2 DEF Listed
  <2>. QED
    BY <2>1, <2>2, <2>3, <2>4 DEF RemovalFollows
<1>7. CASE RmForget
  <2>1. Clean /\ record' = EmptyRecord /\ UNCHANGED hostVars /\ rm'.at \in {"kill", "idle"}
    BY <1>0, <1>1, <1>7 DEF RmForget, RemovalFollows, NoRemoval
  <2>2. Clean' /\ Listed({}, {})'
    BY <1>0, <2>1 DEF Clean, Listed, hostVars
  <2>. QED
    BY <2>1, <2>2 DEF RemovalFollows, EmptyRecord
<1>8. CASE RmKill \/ RmUserdel \/ RmCap
  <2>1. /\ record = EmptyRecord /\ record' = record /\ Clean
        /\ rm'.at \notin {"stop", "wipe", "reload", "forget"}
    BY <1>2, <1>8 DEF RmKill, RmUserdel, RmCap, RmSound, NoRemoval, EmptyRecord
  <2>2. Clean'
    BY <1>0, <1>8, <2>1 DEF RmKill, RmUserdel, RmCap, HostUserGone, Clean
  <2>. QED
    BY <1>0, <2>1, <2>2 DEF RemovalFollows, EmptyRecord, Clean, Listed
<1>. QED
  BY <1>3, <1>4, <1>5, <1>6, <1>7, <1>8 DEF RmStep

LEMMA RemovalFollowsStep ==
  ASSUME LTypeOK, RecordSound, PlanSound, RmSound, AppliedSound, DiskFollows, RemovalFollows,
         [LNext]_lvars, ChangeWhen = "converged"
  PROVE  RemovalFollows'
<1>1. CASE Applying
  BY <1>1 DEF Applying, RemovalFollows
<1>2. CASE RmStart
  <2>1. UNCHANGED <<hostVars, record, assigned, halfway, rmFails>> /\ ~assigned
    BY <1>2 DEF RmStart, RmBegin
  <2>2. /\ rm'.at = "stop" => rm'.stop = record.units /\ rm'.disable = record.natives
        /\ rm'.at \notin {"wipe", "reload"}
        /\ rm'.at = "forget" => record.uid = NoUid
    BY <1>2 DEF RmStart, RmBegin
  <2>. QED
    BY <2>1, <2>2 DEF RemovalFollows, RmHeard, Listed, Clean, hostVars
<1>3. CASE RmStep
  BY <1>3, RemovalStep DEF RemovalFollows
<1>4. CASE RmCrash
  <2>1. UNCHANGED <<hostVars, record, assigned, rmFails>> /\ rm'.at = "idle"
        /\ (halfway = "back" => halfway' = "back")
    BY <1>4 DEF RmCrash, NoRemoval, vars, passVars
  <2>. QED
    BY <2>1 DEF RemovalFollows, RmHeard, Listed, Clean, hostVars
<1>5. CASE Reassign
  <2>1. CASE assigned /\ RmHeard /\ halfway = "no"
    <3>1. /\ UNCHANGED <<hostVars, record, rm>> /\ rm.at = "idle" /\ ~busy /\ Recorded
      BY <1>5, <2>1 DEF Reassign
    <3>2. Follows
      BY <2>1, <3>1 DEF InStep, AppliedSound
    <3>3. record.uid = uid /\ uid # NoUid /\ Listed(record.units, record.natives)
      BY <3>1, <3>2, Leaving DEF Follows, LTypeOK
    <3>. QED
      BY <3>1, <3>3 DEF RemovalFollows, Listed, hostVars
  <2>2. CASE ~(assigned /\ RmHeard /\ halfway = "no")
    <3>1. assigned => halfway \in {"no", "back"}
      BY DEF LTypeOK, RmSound
    <3>. QED
      BY <1>5, <2>2, <3>1 DEF Reassign, RemovalFollows, RmHeard
  <2>. QED
    BY <2>1, <2>2
<1>6. CASE UNCHANGED lvars
  BY <1>6 DEF lvars, vars, hostVars, passVars, RemovalFollows, RmHeard, Listed, Clean
<1>. QED
  BY <1>1, <1>2, <1>3, <1>4, <1>5, <1>6 DEF LNext

LEMMA WentRecorded ==
  ASSUME ChangeWhen = "converged"
  PROVE  LSpec => [](LeftRecorded /\ DiskFollows)
<1>1. LInit => LeftRecorded /\ DiskFollows
  BY DEF LInit, LeftRecorded, DiskFollows
<1>2. LTypeOK /\ RmSound /\ LeftRecorded /\ DiskFollows /\ [LNext]_lvars
      => (LeftRecorded /\ DiskFollows)'
  BY LeftRecordedStep, DiskFollowsStep
<1>. QED
  BY <1>1, <1>2, LTypeCorrect, RmSoundAlways, PTL DEF LSpec

LEMMA LifecycleSound ==
  ASSUME ChangeWhen = "converged", ~ReuseUid
  PROVE  LSpec => [](AppliedSound /\ RemovalFollows)
<1>1. LInit => AppliedSound /\ RemovalFollows
  BY StopsFollowInit, FollowInit DEF LInit, AppliedSound, Follows, RemovalFollows
<1>2. /\ LTypeOK /\ LTypeOK' /\ RecordSound /\ PlanSound /\ PlanSound' /\ RmSound
      /\ LeftRecorded /\ DiskFollows /\ AppliedSound /\ RemovalFollows /\ [LNext]_lvars
      => (AppliedSound /\ RemovalFollows)'
  BY AppliedSoundStep, RemovalFollowsStep
<1>. QED
  BY <1>1, <1>2, LTypeCorrect, RmSoundAlways, WentRecorded, PTL DEF LSpec

(* A cadre that is neither assigned nor recorded has nothing running or    *)
(* enabled, wherever its passes failed and its removals died, as long as   *)
(* no command of a removal failed unnoticed and the cadre was not assigned *)
(* here again on top of a removal that had died.                           *)
THEOREM NothingRunsUnmanaged ==
  ASSUME ChangeWhen = "converged", ~ReuseUid
  PROVE  LSpec => []NothingLeftRunning
<1>1. RemovalFollows => NothingLeftRunning
  BY DEF RemovalFollows, NothingLeftRunning, Unmanaged, Clean, EmptyRecord
<1>. QED
  BY <1>1, LifecycleSound, PTL

(* ... and it has no file that would start a unit on boot, even when it    *)
(* was assigned here again on top of such a removal.                       *)
THEOREM NothingStartsOnBoot ==
  ASSUME ChangeWhen = "converged"
  PROVE  LSpec => []NothingLeftOnDisk
<1>1. LTypeOK /\ DiskFollows => NothingLeftOnDisk
  BY DEF DiskFollows, NothingLeftOnDisk, Unmanaged, EmptyRecord, LTypeOK, TypeOK, HostTypeOK
<1>. QED
  BY <1>1, LTypeCorrect, WentRecorded, PTL

-----------------------------------------------------------------------------
(* A cadre that comes back.                                                *)

(* An assigned cadre that is recorded as applied runs on what the operator *)
(* wants, and nothing of an earlier stay runs beside it: when it left and  *)
(* came back before its removal began, or after one that was cut off as    *)
(* often as may be and then finished, and after a stay that left its       *)
(* secrets behind.  The one return that is not covered is the one on top   *)
(* of a removal that died before it dropped the state file.                *)
THEOREM ReturnedRunsFresh ==
  ASSUME ChangeWhen = "converged", ~ReuseUid, HiddenUnnamed
  PROVE  LSpec => []ReturnsRunning
<1> DEFINE Inv == InStep => RunsFollow
<1>1. LInit => Inv
  BY FollowInit DEF LInit
<1>2. /\ LTypeOK /\ LTypeOK' /\ RecordSound /\ PlanSound /\ PlanSound' /\ RmSound
      /\ LeftRecorded /\ AppliedSound /\ RemovalFollows /\ Inv /\ [LNext]_lvars
      => Inv'
  <2> SUFFICES ASSUME LTypeOK, LTypeOK', RecordSound, PlanSound, PlanSound', RmSound, LeftRecorded,
                      AppliedSound, RemovalFollows, Inv, [LNext]_lvars, InStep'
               PROVE  RunsFollow'
    OBVIOUS
  <2>1. CASE Applying
    <3>1. Follows /\ RunsFollow /\ Next
      BY <2>1 DEF Applying, InStep, RmHeard, AppliedSound
    <3>. QED
      BY <3>1, RunsFollowStep DEF LTypeOK, Follows
  <2>2. CASE RmStart \/ RmStep \/ RmCrash
    BY <2>2, StaysInStep
  <2>3. CASE Reassign
    <3>1. CASE assigned
      <4>1. InStep /\ UNCHANGED <<hostVars, record, busy, plan, stopFailed, desired, committed>>
        BY <2>3, <3>1 DEF Reassign, InStep, RmHeard
      <4>2. Todo' = Todo /\ Wanted' = Wanted
        BY <4>1
        DEF hostVars, Todo, PlanFor, WithLogins, LoginDue, DiffPlan, Base, UidChanged, Wanted
      <4>. QED
        BY <4>1, <4>2 DEF RunsFollow, Fresh, hostVars
    <3>2. CASE ~assigned /\ record # EmptyRecord
      <4>1. InStep
        BY <2>3, <3>2 DEF Reassign, InStep, RmHeard
      <4>2. Follows /\ RunsFollow
        BY <4>1 DEF AppliedSound
      <4>3. CASE ChangeDesired
        BY <4>2, <4>3, RunsFollowStep DEF LTypeOK, Follows, Next
      <4>4. CASE ~ChangeDesired
        <5>1. UNCHANGED <<hostVars, desired>> /\ Todo' = Todo /\ Wanted' = Wanted
          BY <2>3, <3>2, <4>4, ComesBack
        <5>. QED
          BY <4>2, <5>1 DEF RunsFollow, Fresh, hostVars
      <4>. QED
        BY <4>3, <4>4
    <3>3. CASE ~assigned /\ record = EmptyRecord
      <4>1. /\ ~busy /\ ~busy' /\ ~committed' /\ halfway # "back" /\ RmHeard
            /\ UNCHANGED <<hostVars, record>>
        BY <2>3, <3>3 DEF Reassign, InStep, RmHeard, LTypeOK
      <4>2. Clean /\ stopFailed' = {}
        BY <3>3, <4>1 DEF RemovalFollows, PlanSound, EmptyRecord
      <4>. QED
        BY <3>3, <4>1, <4>2, Returns
    <3>. QED
      BY <3>1, <3>2, <3>3
  <2>4. CASE UNCHANGED lvars
    <3>1. InStep /\ UNCHANGED <<run, desired>> /\ UNCHANGED vars
      BY <2>4 DEF lvars, vars, hostVars, passVars, InStep, RmHeard
    <3>2. RunsFollow /\ Todo' = Todo /\ Wanted' = Wanted
      BY <3>1, TodoStutter
    <3>. QED
      BY <3>1, <3>2 DEF RunsFollow, Fresh
  <2>. QED
    BY <2>1, <2>2, <2>3, <2>4 DEF LNext
<1>3. LTypeOK /\ PlanSound /\ RmSound /\ AppliedSound /\ Inv => ReturnsRunning
  <2> SUFFICES ASSUME LTypeOK, PlanSound, RmSound, AppliedSound, Inv,
                      assigned, RmHeard, halfway # "back"
               PROVE  RunsFresh
    BY DEF ReturnsRunning
  <2>1. InStep
    BY DEF InStep, RmSound, LTypeOK
  <2>. QED
    BY <2>1, RunsFreshState DEF LTypeOK, AppliedSound, Follows
<1>. QED
  BY <1>1, <1>2, <1>3, LTypeCorrect, RmSoundAlways, WentRecorded, LifecycleSound, PTL DEF LSpec

-----------------------------------------------------------------------------
(* Caps over the stays of a cadre.                                         *)

(* What a pass does to the caps: it sets that of the user there is. *)
LEMMA NextCaps ==
  ASSUME TypeOK, TypeOK', RecordSound, PlanSound, [Next]_vars,
         MaxDeletions = 0, record.uid \in {NoUid, uid}
  PROVE  /\ record'.uid \in {NoUid, uid'}
         /\ uid # NoUid => uid' = uid
         /\ \A u \in Uids \ {uid} : slice'[u] = slice[u]
<1>1. CASE EnsureUser
  BY <1>1 DEF EnsureUser, passVars
<1>2. CASE Begin
  BY <1>2 DEF Begin, hostVars
<1>3. CASE Step
  BY <1>3, StepShrinks, StepCaps DEF TypeOK, HostTypeOK
<1>4. CASE Save
  BY <1>4, SaveUser, TodoSave DEF hostVars
<1>5. CASE Abort
  BY <1>5 DEF Abort
<1>6. CASE ChangeDesired
  BY <1>6 DEF ChangeDesired, hostVars
<1>7. CASE DeleteUser
  BY <1>7 DEF DeleteUser, TypeOK
<1>8. CASE UNCHANGED vars
  BY <1>8 DEF vars, hostVars, passVars
<1>. QED
  BY <1>1, <1>2, <1>3, <1>4, <1>5, <1>6, <1>7, <1>8 DEF Next

LEMMA CapsOwnedStep ==
  ASSUME LTypeOK, LTypeOK', RecordSound, PlanSound, RmSound, CapsOwned, [LNext]_lvars,
         ChangeWhen = "converged", MaxDeletions = 0
  PROVE  CapsOwned'
<1> USE DEF LTypeOK
<1>0. NoUid \notin Uids /\ EmptyRecord.uid = NoUid
  BY SentinelsOutside DEF EmptyRecord
<1>1. CASE Applying
  <2>1. assigned /\ assigned' /\ rm.at = "idle" /\ UNCHANGED <<rm, forgot>> /\ Next
    BY <1>1 DEF Applying, RmSound
  <2>2. record.uid \in {NoUid, uid}
        /\ \A u \in Uids \ (forgot \cup {uid}) : slice[u] = NoLimits
    BY <2>1 DEF CapsOwned
  <2>3. /\ record'.uid \in {NoUid, uid'}
        /\ uid # NoUid => uid' = uid
        /\ \A u \in Uids \ {uid} : slice'[u] = slice[u]
    BY <2>1, <2>2, NextCaps
  <2>4. \A u \in Uids \ (forgot \cup {uid'}) : slice'[u] = NoLimits
    BY <1>0, <2>2, <2>3
  <2>. QED
    BY <2>1, <2>3, <2>4 DEF CapsOwned
<1>2. CASE RmStart
  <2>1. UNCHANGED <<uid, slice, record, forgot, assigned>> /\ rm.at = "idle" 
        /\ rm'.at \notin {"kill", "userdel", "cap"}
    BY <1>2 DEF RmStart, RmBegin, hostVars
  <2>. QED
    BY <2>1 DEF CapsOwned
<1>3. CASE RmStep
  <2>0. UNCHANGED assigned
    BY <1>3 DEF RmStep
  <2>1. CASE \/ \E u \in Quadlets : RmStop(u)
             \/ \E u \in Natives : RmDisable(u)
             \/ RmWipeQuadlets \/ RmWipeNatives \/ RmReload
    <3>1. /\ UNCHANGED <<uid, slice, record, forgot>>
          /\ rm.at \notin {"kill", "userdel", "cap"} /\ rm'.at \notin {"kill", "userdel", "cap"}
      BY <1>3, <2>1 DEF RmStep, RmStop, RmDisable, RmWipeQuadlets, RmWipeNatives, RmReload, Removals
    <3>. QED
      BY <2>0, <3>1 DEF CapsOwned
  <2>2. CASE RmForget
    <3>1. /\ UNCHANGED <<uid, slice>> /\ record' = EmptyRecord /\ rm.uid = record.uid
          /\ rm' = IF rm.mode = "purge" THEN [rm EXCEPT !.at = "kill"] ELSE NoRemoval
          /\ ~assigned /\ rm.at = "forget"
      BY <2>2 DEF RmForget, RmSound, hostVars
    <3>2. (rm'.at = "kill" /\ rm'.uid = record.uid) \/ rm'.at = "idle"
      BY <3>1 DEF NoRemoval, Removals
    <3>3. forgot \subseteq forgot'
          /\ (rm'.at = "idle" => record.uid \in forgot' \cup {NoUid} \/ record' = record)
      BY <1>3, <3>1, <3>2 DEF RmStep
    <3>. QED
      BY <1>0, <2>0, <3>1, <3>2, <3>3 DEF CapsOwned
  <2>3. CASE RmKill
    <3>1. /\ UNCHANGED <<uid, slice, record, forgot>> /\ rm.at = "kill" /\ rm'.at = "userdel"
          /\ rm'.uid = rm.uid
      BY <1>3, <2>3 DEF RmStep, RmKill, Removals
    <3>. QED
      BY <2>0, <3>1 DEF CapsOwned
  <2>4. CASE RmUserdel
    <3>1. /\ UNCHANGED <<slice, record, forgot>> /\ rm.at = "userdel" /\ uid # NoUid /\ uid' = NoUid
          /\ record = EmptyRecord /\ ~assigned
          /\ rm' = IF rm.uid = NoUid THEN NoRemoval ELSE [rm EXCEPT !.at = "cap"]
      BY <1>3, <2>4 DEF RmStep, RmUserdel, HostUserGone, RmSound
    <3>2. \/ rm'.at = "idle" /\ rm.uid = NoUid
          \/ rm'.at = "cap" /\ rm'.uid = rm.uid /\ rm.uid = uid
      <4>1. CASE rm.uid = NoUid
        BY <3>1, <4>1 DEF NoRemoval
      <4>2. CASE rm.uid # NoUid
        <5>1. rm' = [rm EXCEPT !.at = "cap"] /\ rm.uid = uid
          BY <3>1, <4>2 DEF CapsOwned
        <5>. QED
          BY <5>1 DEF Removals
      <4>. QED
        BY <4>1, <4>2
    <3>. QED
      BY <1>0, <2>0, <3>1, <3>2 DEF CapsOwned
  <2>5. CASE RmCap
    <3>1. /\ UNCHANGED <<uid, record, forgot>> /\ slice' = [slice EXCEPT ![rm.uid] = NoLimits]
          /\ rm.at = "cap" /\ rm'.at = "idle"
      BY <1>3, <2>5 DEF RmStep, RmCap, NoRemoval
    <3>2. \A u \in Uids : slice'[u] = IF u = rm.uid THEN NoLimits ELSE slice[u]
      BY <3>1 DEF TypeOK, HostTypeOK
    <3>. QED
      BY <2>0, <3>1, <3>2 DEF CapsOwned
  <2>. QED
    BY <1>3, <2>1, <2>2, <2>3, <2>4, <2>5 DEF RmStep
<1>4. CASE RmCrash
  <2>1. UNCHANGED <<uid, slice, record, assigned>> /\ rm'.at = "idle" /\ forgot \subseteq forgot'
        /\ (rm.at \in {"kill", "userdel", "cap"} => rm.uid \in forgot' \cup {NoUid})
    BY <1>4 DEF RmCrash, NoRemoval, vars, hostVars, passVars
  <2>. QED
    BY <1>0, <2>1 DEF CapsOwned
<1>5. CASE Reassign
  <2>1. /\ UNCHANGED <<uid, slice, record, rm, forgot>> /\ rm.at = "idle"
        /\ assigned => record.uid = uid /\ uid # NoUid
    BY <1>5 DEF Reassign, hostVars, Recorded, NextState
  <2>. QED
    BY <1>5, <2>1 DEF CapsOwned, Reassign
<1>6. CASE UNCHANGED lvars
  BY <1>6 DEF lvars, vars, hostVars, passVars, CapsOwned
<1>. QED
  BY <1>1, <1>2, <1>3, <1>4, <1>5, <1>6 DEF LNext

LEMMA CapsOwnedAlways ==
  ASSUME ChangeWhen = "converged", MaxDeletions = 0
  PROVE  LSpec => []CapsOwned
<1>1. LInit => CapsOwned
  BY DEF LInit, Init, HostInit, NoRemoval, EmptyRecord, CapsOwned
<1>2. LTypeOK /\ LTypeOK' /\ RecordSound /\ PlanSound /\ RmSound /\ CapsOwned /\ [LNext]_lvars
      => CapsOwned'
  BY CapsOwnedStep
<1>. QED
  BY <1>1, <1>2, LTypeCorrect, RmSoundAlways, PTL DEF LSpec

(* While nobody but rucher deletes the user, no uid without a user keeps a *)
(* cap unless its state file was dropped before.                           *)
THEOREM NoCapOrphaned ==
  ASSUME ChangeWhen = "converged", MaxDeletions = 0
  PROVE  LSpec => []NoOrphanedCap
<1>1. LTypeOK /\ CapsOwned => NoOrphanedCap
  BY SentinelsOutside DEF CapsOwned, NoOrphanedCap, Unmanaged
<1>. QED
  BY <1>1, CapsOwnedAlways, LTypeCorrect, PTL

LEMMA CapFollowsStep ==
  ASSUME LTypeOK, LTypeOK', RecordSound, PlanSound, PlanSound', RmSound, LeftRecorded,
         CapsOwned, CapFollows, [LNext]_lvars, ChangeWhen = "converged", MaxDeletions = 0
  PROVE  CapFollows'
<1> USE DEF LTypeOK
<1>0. PlanParts /\ PlanParts' /\ NoUid \notin Uids
  BY PlanForParts, PlanForPartsNext, SentinelsOutside
<1>1. CASE Applying
  <2>0. assigned /\ assigned' /\ rm.at = "idle" /\ UNCHANGED forgot /\ Next
    BY <1>1 DEF Applying, RmSound
  <2>1. CASE EnsureUser
    <3>1. uid = NoUid /\ uid' \in Uids /\ UNCHANGED <<slice, record, desired, busy>> /\ ~busy
      BY <2>1 DEF EnsureUser, passVars
    <3>2. Base' = EmptyRecord
      BY <3>1 DEF CapsOwned, Base, UidChanged, RecordSound
    <3>3. desired.limits # NoLimits => Todo'.limits # {}
      BY <1>0, <3>1, <3>2 DEF Todo, PlanParts, Singleton, EmptyRecord
    <3>. QED
      BY <2>0, <3>1, <3>3 DEF CapsOwned, CapFollows
  <2>2. CASE Begin
    BY <2>0, <2>2, TodoBegin DEF Begin, hostVars, CapFollows
  <2>3. CASE Step
    <3>1. /\ Todo = plan /\ Todo' = plan' /\ uid # NoUid /\ uid \in Uids
          /\ UNCHANGED <<uid, record, desired>> /\ plan.limits \subseteq {desired.limits}
      <4>1. plan.limits \subseteq PlanFor(desired).limits /\ uid # NoUid
        BY <2>3, StepBusy DEF PlanSound, Within
      <4>2. PlanFor(desired).limits \subseteq {desired.limits}
        BY <1>0 DEF PlanParts, Singleton
      <4>3. uid \in Uids
        BY <4>1 DEF TypeOK, HostTypeOK
      <4>. QED
        BY <2>3, <4>1, <4>2, <4>3, TodoStep, StepShrinks
    <3>2. CASE UNCHANGED <<slice, plan.limits>>
      BY <2>0, <3>1, <3>2 DEF CapFollows
    <3>3. CASE \E l \in plan.limits : slice' = [slice EXCEPT ![uid] = l]
      <4>1. slice'[uid] = desired.limits
        BY <3>1, <3>3 DEF TypeOK, HostTypeOK
      <4>. QED
        BY <2>0, <3>1, <4>1 DEF CapFollows
    <3>. QED
      BY <2>3, <3>2, <3>3, StepCaps
  <2>4. CASE Save
    BY <2>0, <2>4, SaveUser, TodoSave DEF CapFollows, hostVars
  <2>5. CASE Abort
    BY <2>0, <2>5, TodoAbort DEF CapFollows, Within, Abort
  <2>6. CASE ChangeDesired
    <3>1. /\ UNCHANGED <<slice, uid, record>> /\ record.limits = desired.limits /\ uid # NoUid
          /\ Todo = EmptyPlan /\ Todo' = PlanFor(desired)' /\ Base' = record
      BY <2>6, TodoChange DEF hostVars, NextState, Recorded
    <3>2. record.limits # desired'.limits => Todo'.limits # {}
      BY <1>0, <3>1 DEF PlanParts, Singleton
    <3>. QED
      BY <2>0, <3>1, <3>2 DEF CapFollows, EmptyPlan
  <2>7. CASE DeleteUser
    BY <2>7 DEF DeleteUser, TypeOK
  <2>8. CASE UNCHANGED vars
    BY <2>0, <2>8, TodoStutter DEF vars, hostVars, passVars, CapFollows
  <2>. QED
    BY <2>0, <2>1, <2>2, <2>3, <2>4, <2>5, <2>6, <2>7, <2>8 DEF Next
<1>2. CASE RmStart \/ RmStep \/ RmCrash
  <2>1. ~assigned' /\ UNCHANGED <<desired, busy, plan>> /\ forgot \subseteq forgot'
    BY <1>2, Removing DEF RmStart, RmBegin, RmStep, RmCrash, RmSound, vars, passVars
  <2>2. (record' = record /\ UNCHANGED <<uid, slice>>) \/ record' = EmptyRecord
    BY <1>2
    DEF RmStart, RmBegin, RmStep, RmStop, RmDisable, RmWipeQuadlets, RmWipeNatives, RmReload,
        RmForget, RmKill, RmUserdel, RmCap, RmCrash, RmSound, vars, hostVars, passVars
  <2>3. record' = record /\ uid' = uid => Todo' = Todo
    BY <2>1 DEF Todo, PlanFor, WithLogins, LoginDue, DiffPlan, Base, UidChanged
  <2>. QED
    BY <2>1, <2>2, <2>3 DEF CapFollows
<1>3. CASE Reassign /\ ~assigned /\ record = EmptyRecord
  <2>1. /\ rm.at = "idle" /\ ~busy'
        /\ UNCHANGED <<uid, slice, record, forgot>>
    BY <1>3 DEF Reassign, hostVars
  <2>2. Base' = EmptyRecord /\ Todo' = PlanFor(desired)'
    BY <1>3, <2>1 DEF Base, UidChanged, Todo, EmptyRecord
  <2>3. desired'.limits # NoLimits => Todo'.limits # {}
    BY <1>0, <2>2 DEF PlanParts, Singleton, EmptyRecord
  <2>4. uid # NoUid => uid \in forgot
    BY <1>3, <2>1 DEF CapsOwned, EmptyRecord
  <2>. QED
    BY <2>1, <2>3, <2>4 DEF CapFollows
<1>4. CASE Reassign /\ ~assigned /\ record # EmptyRecord
  <2>1. UNCHANGED <<uid, slice, record, forgot>>
    BY <1>4 DEF Reassign, hostVars
  <2>2. CASE ChangeDesired
    <3>1. /\ record.limits = desired.limits /\ uid # NoUid
          /\ Todo = EmptyPlan /\ Todo' = PlanFor(desired)' /\ Base' = record
      BY <2>2, TodoChange DEF NextState, Recorded
    <3>2. record.limits # desired'.limits => Todo'.limits # {}
      BY <1>0, <3>1 DEF PlanParts, Singleton
    <3>. QED
      BY <1>4, <2>1, <3>1, <3>2 DEF CapFollows, EmptyPlan
  <2>3. CASE ~ChangeDesired
    <3>1. desired' = desired /\ Todo' = Todo
      BY <1>4, <2>3, ComesBack
    <3>. QED
      BY <1>4, <2>1, <3>1 DEF CapFollows
  <2>. QED
    BY <2>2, <2>3
<1>5. CASE Reassign /\ assigned
  <2>1. UNCHANGED <<hostVars, record, busy, plan, desired, forgot>>
    BY <1>5 DEF Reassign
  <2>2. Todo' = Todo
    BY <2>1 DEF hostVars, Todo, PlanFor, WithLogins, LoginDue, DiffPlan, Base, UidChanged
  <2>. QED
    BY <1>5, <2>1, <2>2 DEF CapFollows, hostVars
<1>6. CASE UNCHANGED lvars
  BY <1>6, TodoStutter DEF lvars, vars, passVars, hostVars, CapFollows
<1>. QED
  BY <1>1, <1>2, <1>3, <1>4, <1>5, <1>6 DEF LNext

(* ... and an applied cadre has the cap its manifest asks for, whatever    *)
(* user had the uid before, but for a cap that was forgotten when none is  *)
(* asked for.                                                              *)
THEOREM CapsAsAsked ==
  ASSUME ChangeWhen = "converged", MaxDeletions = 0
  PROVE  LSpec => []CapAsAsked
<1>1. LInit => CapFollows
  BY DEF LInit, Init, HostInit, CapFollows
<1>2. /\ LTypeOK /\ LTypeOK' /\ RecordSound /\ PlanSound /\ PlanSound' /\ RmSound /\ LeftRecorded
      /\ CapsOwned /\ CapFollows /\ [LNext]_lvars
      => CapFollows'
  BY CapFollowsStep
<1>3. LTypeOK /\ CapFollows => CapAsAsked
  <2> SUFFICES ASSUME LTypeOK, CapFollows, assigned, Converged
               PROVE  slice[uid] = desired.limits \/ (uid \in forgot /\ desired.limits = NoLimits)
    BY DEF CapAsAsked
  <2>1. Todo = EmptyPlan /\ uid # NoUid
    BY NothingToDo DEF LTypeOK, Converged, Recorded, Todo
  <2>. QED
    BY <2>1 DEF CapFollows, EmptyPlan
<1>. QED
  BY <1>1, <1>2, <1>3, LTypeCorrect, RmSoundAlways, WentRecorded, CapsOwnedAlways, PTL DEF LSpec
=============================================================================

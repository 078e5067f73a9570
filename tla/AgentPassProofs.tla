--------------------------- MODULE AgentPassProofs ---------------------------
(***************************************************************************)
(* What holds of the keys on a node for any number of cadres, revisions,   *)
(* passes and failures.                                                    *)
(***************************************************************************)
EXTENDS NodeStatus, TLAPS

Passes == [at : {"idle", "sync", "apply", "list", "remove", "write"},
           todo : SUBSET Cadres, st : Statuses]

(* A pass that applies works on a revision that the store had.             *)
RevKnown == pass.at = "apply" => pass.st.rev \in 1..Len(revs)

SyncKnown == synced <= Len(revs)

At(p, at) == p \in Passes /\ p.at = at

(* What a pass may become by one of its steps. *)
LEMMA PassUpdates ==
  ASSUME ATypeOK
  PROVE  /\ At(Idle, "idle") /\ At([Idle EXCEPT !.at = "sync"], "sync")
         /\ At([pass EXCEPT !.at = "write"], "write")
         /\ At([pass EXCEPT !.at = "write", !.st.error = TRUE], "write")
         /\ \A r \in 0..MaxRevs, todo \in SUBSET Cadres :
              /\ At([pass EXCEPT !.at = "write", !.st.rev = r, !.st.error = TRUE], "write")
              /\ At([pass EXCEPT !.at = "apply", !.st.rev = r, !.todo = todo], "apply")
              /\ [pass EXCEPT !.at = "apply", !.st.rev = r, !.todo = todo].st.rev = r
         /\ \A todo \in SUBSET Cadres : At([pass EXCEPT !.at = "remove", !.todo = todo], "remove")
         /\ \A c \in Cadres :
              At([pass EXCEPT !.todo = @ \ {c}, !.st.removed = @ \cup {c}], pass.at)
<1>1. pass \in Passes
  BY DEF ATypeOK, Passes
<1>2. Idle \in Passes
  BY BoundsOfAgent DEF Idle, NoStatus, Passes, Statuses, Results
<1>3. At(Idle, "idle") /\ At([Idle EXCEPT !.at = "sync"], "sync")
  BY <1>2 DEF At, Passes, Idle
<1>4. /\ At([pass EXCEPT !.at = "write"], "write")
      /\ At([pass EXCEPT !.at = "write", !.st.error = TRUE], "write")
  BY <1>1 DEF At, Passes, Statuses
<1>5. ASSUME NEW r \in 0..MaxRevs, NEW todo \in SUBSET Cadres
      PROVE  /\ At([pass EXCEPT !.at = "write", !.st.rev = r, !.st.error = TRUE], "write")
             /\ At([pass EXCEPT !.at = "apply", !.st.rev = r, !.todo = todo], "apply")
             /\ [pass EXCEPT !.at = "apply", !.st.rev = r, !.todo = todo].st.rev = r
  BY <1>1 DEF At, Passes, Statuses
<1>6. \A todo \in SUBSET Cadres : At([pass EXCEPT !.at = "remove", !.todo = todo], "remove")
  BY <1>1 DEF At, Passes
<1>7. ASSUME NEW c \in Cadres
      PROVE  At([pass EXCEPT !.todo = @ \ {c}, !.st.removed = @ \cup {c}], pass.at)
  BY <1>1 DEF At, Passes, Statuses
<1>. QED
  BY <1>3, <1>4, <1>5, <1>6, <1>7

(* The result of one cadre leaves the pass where it is. *)
LEMMA Resulting ==
  ASSUME ATypeOK, NEW c \in Cadres, NEW result \in {"ok", "failed"}, Result(c, result)
  PROVE  At(pass', pass.at) /\ pass'.st.rev = pass.st.rev
BY DEF ATypeOK, Result, At, Passes, Statuses, Results

(* What the store holds of a cadre. *)
LEMMA Bundles ==
  ASSUME ATypeOK, NEW r \in 1..Len(revs)
  PROVE  /\ r \in 1..MaxRevs /\ Assigned(r) \in SUBSET Cadres
         /\ \A c \in Cadres : Of(r)[c].sealed \in Keys \cup {None}
<1>1. revs[r] \in Contents /\ r \in 1..MaxRevs
  BY BoundsOfAgent DEF ATypeOK
<1>. QED
  BY <1>1, ContentsTyped DEF Assigned, Of, Placement, Bundle

(* New keeps the types of keys. *)
LEMMA NewTypes ==
  ASSUME ITypeOK, NEW c \in Cadres, NEW k \in Keys, New(c, k)
  PROVE  ITypeOK'
BY DEF ITypeOK, New, Generate, Announce

(* Of the results of one cadre: what becomes of the keys. *)
LEMMA Installs ==
  ASSUME ATypeOK, RevKnown, NEW c \in Cadres, ApplyOne(c) \/ ApplyFails(c)
  PROVE  /\ UNCHANGED <<nodeKey, recipient, printed>>
         /\ \/ UNCHANGED identity
            \/ /\ Of(pass.st.rev)[c].sealed # None
               /\ identity' \in {[identity EXCEPT ![c] = Of(pass.st.rev)[c].sealed],
                                 [identity EXCEPT ![c] = Torn]}
BY DEF ApplyOne, ApplyFails, InstallIdentity, InstallFails, idVars

(* Every state has the right type, and a pass applies a revision that the  *)
(* store had.                                                              *)
THEOREM AgentTypeCorrect == ASpec => [](ATypeOK /\ SyncKnown /\ RevKnown)
<1> DEFINE Inv == ATypeOK /\ SyncKnown /\ RevKnown
<1>1. AInit => Inv
  <2> SUFFICES ASSUME AInit PROVE Inv
    OBVIOUS
  <2>1. revs \in Seq(Contents) /\ Len(revs) = 1
    BY DEF AInit
  <2>2. Idle \in Passes
    BY BoundsOfAgent DEF Idle, NoStatus, Passes, Statuses, Results
  <2>. QED
    BY <2>1, <2>2, BoundsOfAgent
    DEF AInit, IInit, ATypeOK, ITypeOK, SyncKnown, RevKnown, Idle, Passes
<1>2. Inv /\ [ANext]_avars => Inv'
  <2> SUFFICES ASSUME ATypeOK, SyncKnown, RevKnown, [ANext]_avars PROVE Inv'
    OBVIOUS
  <2>a. Len(revs) \in 1..MaxRevs /\ synced \in 0..Len(revs)
    BY BoundsOfAgent DEF ATypeOK, SyncKnown
  <2>b. pass.st.rev \in 0..MaxRevs /\ pass.st \in Statuses
    BY DEF ATypeOK, Statuses
  <2>c. Fails => failures' \in 0..MaxFailures
    BY BoundsOfAgent DEF Fails, ATypeOK
  <2>d. Touch => touches' \in 0..MaxTouches
    BY BoundsOfAgent DEF Touch, ATypeOK
  <2>e. 0 \in 0..MaxRevs
    BY BoundsOfAgent
  <2>1. ASSUME pass' \in Passes, pass'.at = "apply" => pass'.st.rev \in 1..Len(revs),
               failures' \in 0..MaxFailures, synced' \in 0..Len(revs),
               applied' \in [Cadres -> 0..MaxRevs], status' \in Statuses \cup {None},
               touched' \in SUBSET Cadres, ITypeOK', UNCHANGED <<revs, corrupt, touches>>
        PROVE  Inv'
    BY <2>1, <2>a, BoundsOfAgent DEF ATypeOK, SyncKnown, RevKnown, Passes
  <2>2. ASSUME UNCHANGED idVars PROVE ITypeOK'
    BY <2>2 DEF ATypeOK, ITypeOK, idVars
  <2>3. /\ failures \in 0..MaxFailures /\ status \in Statuses \cup {None}
        /\ applied \in [Cadres -> 0..MaxRevs] /\ touched \in SUBSET Cadres
    BY DEF ATypeOK
  <2>4. CASE Start \/ SyncFails \/ RemovedAll \/ WriteStatus \/ Dies
    <3>1. pass' \in Passes /\ pass'.at # "apply"
      BY <2>4, PassUpdates DEF Start, SyncFails, RemovedAll, WriteStatus, Dies, At
    <3>2. failures' \in 0..MaxFailures /\ status' \in Statuses \cup {None}
      BY <2>4, <2>3, <2>b, <2>c DEF Start, SyncFails, RemovedAll, WriteStatus, Dies
    <3>. QED
      BY <2>1, <2>2, <2>3, <2>4, <2>a, <3>1, <3>2
      DEF Start, SyncFails, RemovedAll, WriteStatus, Dies
  <2>5. CASE Sync
    <3>1. PICK r \in {Newest, synced} \ {0} :
            /\ synced' = IF r > synced THEN r ELSE synced
            /\ r # Newest => Fails
            /\ r = Newest => UNCHANGED failures
            /\ pass' = IF revs[r].placement = BadFile
                         THEN [pass EXCEPT !.at = "write", !.st.rev = r, !.st.error = TRUE]
                         ELSE [pass EXCEPT !.at = "apply", !.st.rev = r, !.todo = Assigned(r)]
      BY <2>5 DEF Sync
    <3>2. r \in 1..Len(revs)
      BY <2>a DEF Newest
    <3>3. pass' \in Passes /\ (pass'.at = "apply" => pass'.st.rev = r)
      <4>1. r \in 0..MaxRevs /\ Assigned(r) \in SUBSET Cadres
        BY <3>2, Bundles
      <4>2. /\ At([pass EXCEPT !.at = "write", !.st.rev = r, !.st.error = TRUE], "write")
            /\ At([pass EXCEPT !.at = "apply", !.st.rev = r, !.todo = Assigned(r)], "apply")
            /\ [pass EXCEPT !.at = "apply", !.st.rev = r, !.todo = Assigned(r)].st.rev = r
        BY <4>1, PassUpdates
      <4>3. CASE revs[r].placement = BadFile
        BY <3>1, <4>2, <4>3 DEF At
      <4>4. CASE revs[r].placement # BadFile
        BY <3>1, <4>2, <4>4 DEF At
      <4>. QED
        BY <4>3, <4>4
    <3>4. synced' \in 0..Len(revs) /\ failures' \in 0..MaxFailures
      BY <2>3, <2>a, <2>c, <3>1, <3>2
    <3>. QED
      BY <2>1, <2>2, <2>3, <2>5, <3>2, <3>3, <3>4 DEF Sync
  <2>6. CASE AppliedAll
    <3>1. pass' \in Passes /\ pass'.at # "apply"
      <4>1. Managed \ Assigned(pass.st.rev) \in SUBSET Cadres
        BY DEF Managed
      <4>2. /\ At([pass EXCEPT !.at = "remove", !.todo = Managed \ Assigned(pass.st.rev)], "remove")
            /\ At([pass EXCEPT !.at = "write", !.st.error = TRUE], "write")
        BY <4>1, PassUpdates
      <4>3. \/ pass' = [pass EXCEPT !.at = "remove", !.todo = Managed \ Assigned(pass.st.rev)]
            \/ pass' = [pass EXCEPT !.at = "write", !.st.error = TRUE]
        BY <2>6 DEF AppliedAll
      <4>. QED
        BY <4>2, <4>3 DEF At
    <3>2. failures' \in 0..MaxFailures
      BY <2>3, <2>6, <2>c DEF AppliedAll
    <3>. QED
      BY <2>1, <2>2, <2>3, <2>6, <2>a, <3>1, <3>2 DEF AppliedAll
  <2>7. ASSUME NEW c \in Cadres, ApplyOne(c) \/ ApplyFails(c) PROVE Inv'
    <3>1. pass' \in Passes /\ pass'.at = pass.at /\ pass'.st.rev = pass.st.rev
      BY <2>7, Resulting DEF ApplyOne, ApplyFails, At
    <3>2. pass.st.rev \in 1..Len(revs)
      BY <2>7 DEF ApplyOne, ApplyFails, RevKnown
    <3>3. ITypeOK'
      BY <2>7, <3>2, Installs, Bundles DEF ATypeOK, ITypeOK
    <3>4. failures' \in 0..MaxFailures /\ applied' \in [Cadres -> 0..MaxRevs]
          /\ touched' \in SUBSET Cadres
      BY <2>3, <2>7, <2>b, <2>c DEF ApplyOne, ApplyFails
    <3>. QED
      BY <2>1, <2>3, <2>7, <2>a, <3>1, <3>2, <3>3, <3>4 DEF ApplyOne, ApplyFails
  <2>8. ASSUME NEW c \in Cadres, RemoveOne(c) PROVE Inv'
    <3>1. pass' \in Passes /\ pass'.at # "apply"
      BY <2>8, PassUpdates DEF RemoveOne, At
    <3>2. failures' \in 0..MaxFailures /\ applied' \in [Cadres -> 0..MaxRevs]
      BY <2>3, <2>8, <2>c, <2>e DEF RemoveOne
    <3>. QED
      BY <2>1, <2>2, <2>3, <2>8, <2>a, <3>1, <3>2 DEF RemoveOne
  <2>9. CASE Publish
    <3>1. PICK content \in Contents : revs' = Append(revs, content)
      BY <2>9 DEF Publish
    <3>2. revs' \in Seq(Contents) /\ Len(revs') = Len(revs) + 1
      BY <3>1 DEF ATypeOK
    <3>3. Len(revs') \in 1..MaxRevs
      BY <2>9, <2>a, <3>2, BoundsOfAgent DEF Publish
    <3>. QED
      BY <2>2, <2>9, <2>a, <3>2, <3>3, BoundsOfAgent DEF Publish, ATypeOK, SyncKnown, RevKnown
  <2>10. CASE KeyInit
    <3>1. ITypeOK'
      BY <2>10 DEF KeyInit, EnsureIdentity, ATypeOK, ITypeOK
    <3>. QED
      BY <2>10, <3>1 DEF KeyInit, passVars, ATypeOK, SyncKnown, RevKnown
  <2>11. CASE CadreNew
    <3>1. ITypeOK'
      BY <2>11, NewTypes DEF CadreNew, ATypeOK
    <3>. QED
      BY <2>11, <2>d, <3>1 DEF CadreNew, ATypeOK, SyncKnown, RevKnown
  <2>12. ASSUME NEW c \in Cadres, CadreRm(c) \/ Corrupt(c) PROVE Inv'
    <3>1. /\ applied' \in [Cadres -> 0..MaxRevs] /\ touched' \in SUBSET Cadres
          /\ corrupt' \in SUBSET Cadres
      BY <2>3, <2>12, <2>e DEF CadreRm, Corrupt, ATypeOK
    <3>. QED
      BY <2>2, <2>12, <2>d, <3>1 DEF CadreRm, Corrupt, ATypeOK, SyncKnown, RevKnown
  <2>13. CASE UNCHANGED avars
    BY <2>2, <2>13 DEF avars, passVars, ATypeOK, SyncKnown, RevKnown
  <2>. QED
    BY <2>4, <2>5, <2>6, <2>7, <2>8, <2>9, <2>10, <2>11, <2>12, <2>13 DEF ANext, PassStep
<1>. QED
  BY <1>1, <1>2, PTL DEF ASpec

(* What `cadre new` printed and `cadre recipient` prints is the key of the *)
(* cadre, until the store has shipped one for it.                          *)
THEOREM PrintedStaysIdentity == ASpec => []PrintedIsIdentity
<1> DEFINE Inv == ATypeOK /\ SyncKnown /\ RevKnown
           Shipped(c) == \E r \in 1..Newest : Of(r)[c].sealed # None
<1>1. AInit => PrintedIsIdentity
  BY NotKeys DEF AInit, IInit, PrintedIsIdentity, Recipient
<1>2. Inv /\ PrintedIsIdentity /\ [ANext]_avars => PrintedIsIdentity'
  <2> SUFFICES ASSUME ATypeOK, RevKnown, PrintedIsIdentity, [ANext]_avars,
                      NEW c \in Cadres, NEW k \in Keys,
                      printed'[c] = k \/ recipient'[c] = k
               PROVE  identity'[c] = k \/ Shipped(c)'
    BY DEF PrintedIsIdentity, Recipient
  <2>1. k \in {printed[c], recipient[c]} => identity[c] = k \/ Shipped(c)
    BY DEF PrintedIsIdentity, Recipient
  <2>2. revs' = revs => (Shipped(c)' <=> Shipped(c))
    BY DEF Of, Newest
  <2>3. CASE UNCHANGED idVars /\ revs' = revs
    BY <2>1, <2>2, <2>3 DEF idVars
  <2>4. ASSUME NEW d \in Cadres, ApplyOne(d) \/ ApplyFails(d)
        PROVE  identity'[c] = k \/ Shipped(c)'
    <3>1. /\ UNCHANGED <<nodeKey, recipient, printed>>
          /\ \/ UNCHANGED identity
             \/ /\ Of(pass.st.rev)[d].sealed # None
                /\ identity' \in {[identity EXCEPT ![d] = Of(pass.st.rev)[d].sealed],
                                  [identity EXCEPT ![d] = Torn]}
      BY <2>4, Installs
    <3>2. revs' = revs /\ pass.st.rev \in 1..Newest
      BY <2>4 DEF ApplyOne, ApplyFails, RevKnown, Newest
    <3>3. CASE identity'[c] = identity[c]
      BY <2>1, <2>2, <3>1, <3>2, <3>3
    <3>4. CASE identity'[c] # identity[c]
      <4>1. d = c /\ Of(pass.st.rev)[c].sealed # None
        BY <3>1, <3>4 DEF ATypeOK, ITypeOK
      <4>. QED
        BY <2>2, <3>2, <4>1
    <3>. QED
      BY <3>3, <3>4
  <2>5. CASE CadreNew
    <3>1. PICK d \in Cadres, key \in Keys : New(d, key)
      BY <2>5 DEF CadreNew
    <3>2. revs' = revs
      BY <2>5 DEF CadreNew
    <3>3. CASE d # c
      <4>1. /\ identity'[c] = identity[c] /\ printed'[c] = printed[c]
            /\ recipient'[c] = recipient[c]
        BY <3>1, <3>3 DEF New, Generate, Announce, ATypeOK, ITypeOK
      <4>. QED
        BY <2>1, <2>2, <3>2, <4>1
    <3>4. CASE d = c /\ identity[c] = None
      <4>1. k \in {printed[c], recipient[c]} => Shipped(c)
        BY <2>1, <3>4, NotKeys
      <4>2. /\ Generate(c, key)
            /\ identity'[c] = key \/ UNCHANGED <<recipient, printed>>
        BY <3>1, <3>4 DEF New, Generate, ATypeOK, ITypeOK
      <4>3. CASE k \in {printed[c], recipient[c]}
        BY <2>2, <3>2, <4>1, <4>3
      <4>4. CASE k \notin {printed[c], recipient[c]}
        <5>1. k = key /\ Announce(c, key)
          BY <4>2, <4>4, NotKeys DEF Generate, Announce, ATypeOK, ITypeOK
        <5>2. identity'[c] = key
          BY <4>2, <4>4
        <5>. QED
          BY <5>1, <5>2
      <4>. QED
        BY <4>3, <4>4
    <3>5. CASE d = c /\ identity[c] = key
      <4>1. identity' = identity /\ Announce(c, key)
        BY <3>1, <3>5, NotKeys DEF New
      <4>2. k = key \/ k \in {printed[c], recipient[c]}
        BY <4>1, NotKeys DEF Announce, ATypeOK, ITypeOK
      <4>. QED
        BY <2>1, <2>2, <3>2, <3>5, <4>1, <4>2
    <3>. QED
      BY <3>1, <3>3, <3>4, <3>5 DEF New
  <2>6. CASE Publish
    <3>1. PICK content \in Contents : revs' = Append(revs, content)
      BY <2>6 DEF Publish
    <3>2. /\ Len(revs') = Len(revs) + 1
          /\ \A r \in 1..Len(revs) : revs'[r] = revs[r] /\ r \in 1..Len(revs')
      BY <3>1 DEF ATypeOK
    <3>3. Shipped(c) => Shipped(c)'
      BY <3>2 DEF Of, Newest
    <3>. QED
      BY <2>1, <2>6, <3>3 DEF Publish, idVars
  <2>7. CASE KeyInit
    BY <2>1, <2>2, <2>7 DEF KeyInit, EnsureIdentity, passVars
  <2>8. CASE Start \/ Sync \/ SyncFails \/ AppliedAll \/ RemovedAll \/ WriteStatus \/ Dies
    BY <2>3, <2>8 DEF Start, Sync, SyncFails, AppliedAll, RemovedAll, WriteStatus, Dies
  <2>9. ASSUME NEW d \in Cadres, RemoveOne(d) \/ CadreRm(d) \/ Corrupt(d)
        PROVE  identity'[c] = k \/ Shipped(c)'
    BY <2>3, <2>9 DEF RemoveOne, CadreRm, Corrupt
  <2>10. CASE UNCHANGED avars
    BY <2>3, <2>10 DEF avars, passVars
  <2>. QED
    BY <2>4, <2>5, <2>6, <2>7, <2>8, <2>9, <2>10 DEF ANext, PassStep
<1>. QED
  BY <1>1, <1>2, AgentTypeCorrect, PTL DEF ASpec

-----------------------------------------------------------------------------
(* What a status says of the node, and with it a healthy row. *)

Complete(st) == ~st.error /\ \A c \in Cadres : st.results[c] # "failed"

(* The node has c at least as revision r had it, or the operator, or a     *)
(* newer revision, took it away.                                           *)
HasSince(c, r) ==
  \/ c \in touched \/ applied[c] >= r
  \/ \E s \in (r + 1)..synced : c \notin Assigned(s)

(* A status without an error is of a revision that the node has seen, has  *)
(* a result for each cadre assigned by it, and still says what is there.   *)
StatusTrue ==
  status # None /\ Complete(status) =>
    /\ status.rev \in 1..synced
    /\ {c \in Cadres : status.results[c] # "none"} = Assigned(status.rev)
    /\ \A c \in Assigned(status.rev) : HasSince(c, status.rev)

Applies == pass.at \in {"apply", "remove"} \/ (pass.at = "write" /\ ~pass.st.error)

(* A pass that applies works on the newest revision the node has seen; it  *)
(* has a result for the cadres that it is done with, and for no others,    *)
(* and an "ok" of a cadre stands until the pass is over.                   *)
PassTrue ==
  /\ pass.at = "sync" => pass.st = NoStatus
  /\ Applies =>
       /\ ~pass.st.error /\ pass.st.rev = synced /\ synced > 0
       /\ pass.at = "apply" => pass.todo \subseteq Assigned(synced)
       /\ pass.at = "remove" => pass.todo \cap Assigned(synced) = {}
       /\ {c \in Cadres : pass.st.results[c] # "none"} =
            Assigned(synced) \ (IF pass.at = "apply" THEN pass.todo ELSE {})
       /\ \A c \in Cadres : pass.st.results[c] = "ok" => applied[c] = synced

(* No record is of a revision that the node has not seen.                  *)
SyncedIsNewest == \A c \in Cadres : applied[c] <= synced

(* A status stands while nothing but the passing of revisions befalls it.  *)
LEMMA StatusStands ==
  ASSUME ATypeOK, SyncKnown, StatusTrue, status' = status,
         synced' \in Nat, synced <= synced',
         \A r \in 1..synced : Assigned(r)' = Assigned(r),
         \A c \in Cadres : \A r \in 1..synced :
           c \in Assigned(r) /\ HasSince(c, r) => HasSince(c, r)'
  PROVE  StatusTrue'
<1> SUFFICES ASSUME status # None, Complete(status)
             PROVE  /\ status.rev \in 1..synced'
                    /\ {c \in Cadres : status.results[c] # "none"} = Assigned(status.rev)'
                    /\ \A c \in Assigned(status.rev)' : HasSince(c, status.rev)'
  BY DEF StatusTrue, Complete
<1>1. /\ status.rev \in 1..synced /\ synced \in Nat
      /\ {c \in Cadres : status.results[c] # "none"} = Assigned(status.rev)
      /\ \A c \in Assigned(status.rev) : HasSince(c, status.rev)
  BY BoundsOfAgent DEF StatusTrue, ATypeOK
<1>2. Assigned(status.rev)' = Assigned(status.rev)
  <2> DEFINE r == status.rev
  <2>1. Assigned(r)' = Assigned(r)
    BY <1>1
  <2>. QED
    BY <2>1 DEF Assigned
<1>3. Assigned(status.rev) \subseteq Cadres
  BY <1>1
<1>4. \A c \in Assigned(status.rev) : HasSince(c, status.rev)'
  BY <1>1, <1>3 DEF HasSince
<1>. QED
  BY <1>1, <1>2, <1>4

(* What a cadre has, it keeps while neither its record, the operator's     *)
(* removals nor the store change.                                          *)
LEMMA HasSinceStands ==
  ASSUME ATypeOK, NEW c \in Cadres, NEW r \in 1..synced,
         touched' = touched, applied'[c] = applied[c], synced <= synced', synced' \in Nat,
         \A s \in 1..synced : Assigned(s)' = Assigned(s), HasSince(c, r)
  PROVE  HasSince(c, r)'
<1>1. synced \in Nat
  BY BoundsOfAgent DEF ATypeOK
<1>2. ASSUME NEW s \in (r + 1)..synced, c \notin Assigned(s)
      PROVE  s \in (r + 1)..synced' /\ c \notin Assigned(s)'
  <2>1. s \in 1..synced /\ s \in (r + 1)..synced'
    BY <1>1
  <2>. QED
    BY <1>2, <2>1
<1>. QED
  BY <1>2 DEF HasSince

(* A result takes its cadre from what is left to apply.                    *)
LEMMA PassStays ==
  ASSUME PassTrue, pass \in Passes, NEW c \in Cadres, NEW result \in {"ok", "failed"},
         pass.at = "apply", c \in pass.todo, UNCHANGED <<revs, synced>>,
         pass'.at = "apply", pass'.todo = pass.todo \ {c},
         pass'.st = [pass.st EXCEPT !.results = [pass.st.results EXCEPT ![c] = result]],
         \A d \in Cadres \ {c} : applied'[d] = applied[d],
         result = "ok" => applied'[c] = synced
  PROVE  PassTrue'
<1>1. /\ pass'.st.error = pass.st.error /\ pass'.st.rev = pass.st.rev
      /\ pass'.st.results = [pass.st.results EXCEPT ![c] = result]
      /\ pass.st.results \in [Cadres -> {"none", "ok", "failed"}]
  BY DEF Passes, Statuses, Results
<1>2. /\ Assigned(synced)' = Assigned(synced)
      /\ ~pass.st.error /\ pass.st.rev = synced /\ synced > 0
      /\ pass.todo \subseteq Assigned(synced)
      /\ {d \in Cadres : pass.st.results[d] # "none"} = Assigned(synced) \ pass.todo
      /\ \A d \in Cadres : pass.st.results[d] = "ok" => applied[d] = synced
  BY DEF PassTrue, Applies, Assigned
<1>3. {d \in Cadres : pass'.st.results[d] # "none"} = Assigned(synced) \ (pass.todo \ {c})
  BY <1>1, <1>2
<1>4. \A d \in Cadres : pass'.st.results[d] = "ok" => applied'[d] = synced
  BY <1>1, <1>2
<1>. QED
  BY <1>1, <1>2, <1>3, <1>4 DEF PassTrue, Applies

(* A healthy row tells the truth: `ops nodes status` says of a node that   *)
(* it is at a revision, without an error, only if each cadre of that       *)
(* revision is there at least as new as that, or was taken away since.     *)
THEOREM HealthyRowsAreTrue == ASpec => []HealthyRowIsTrue
<1> DEFINE Typed == ATypeOK /\ SyncKnown /\ RevKnown
           Inv == StatusTrue /\ PassTrue /\ SyncedIsNewest
<1>1. AInit => Inv
  BY BoundsOfAgent DEF AInit, StatusTrue, PassTrue, SyncedIsNewest, Applies, Idle
<1>2. Typed /\ Inv /\ [ANext]_avars => Inv'
  <2> SUFFICES ASSUME ATypeOK, SyncKnown, RevKnown, Inv, [ANext]_avars PROVE Inv'
    OBVIOUS
  <2>a. /\ synced \in Nat /\ Newest \in 1..MaxRevs /\ synced <= Newest
        /\ applied \in [Cadres -> Nat] /\ pass \in Passes
        /\ MaxRevs \in Nat
    BY BoundsOfAgent DEF ATypeOK, SyncKnown, Newest, Passes
  <2>b. revs' = revs => \A r \in 1..synced : Assigned(r)' = Assigned(r)
    BY DEF Assigned
  <2>c. \A r \in 1..synced : Assigned(r) \subseteq Cadres
    BY <2>a, Bundles DEF Newest
  <2>1. ASSUME UNCHANGED <<revs, status, applied, touched>>, synced' \in Nat, synced <= synced'
        PROVE  StatusTrue' /\ SyncedIsNewest'
    <3>1. \A c \in Cadres : \A r \in 1..synced : HasSince(c, r) => HasSince(c, r)'
      BY <2>1, <2>b, HasSinceStands
    <3>2. StatusTrue'
      BY <2>1, <2>b, <3>1, StatusStands
    <3>. QED
      BY <2>1, <2>a, <3>2 DEF SyncedIsNewest
  <2>2. ASSUME UNCHANGED <<revs, applied, synced, pass>> PROVE PassTrue'
    BY <2>2 DEF PassTrue, Applies, Assigned
  <2>3. CASE Start \/ SyncFails
    <3>1. CASE Start
      BY <2>1, <3>1, <2>a DEF Start, PassTrue, Applies, Idle
    <3>2. CASE SyncFails
      <4>1. pass'.at = "write" /\ pass'.st.error
        BY <3>2, <2>a DEF SyncFails, Passes, Statuses
      <4>. QED
        BY <2>1, <3>2, <4>1, <2>a DEF SyncFails, PassTrue, Applies
    <3>. QED
      BY <2>3, <3>1, <3>2
  <2>4. CASE Dies
    BY <2>1, <2>4, <2>a DEF Dies, PassTrue, Applies, Idle
  <2>5. CASE Sync
    <3>1. PICK r \in {Newest, synced} \ {0} :
            /\ synced' = IF r > synced THEN r ELSE synced
            /\ pass' = IF revs[r].placement = BadFile
                         THEN [pass EXCEPT !.at = "write", !.st.rev = r, !.st.error = TRUE]
                         ELSE [pass EXCEPT !.at = "apply", !.st.rev = r, !.todo = Assigned(r)]
      BY <2>5 DEF Sync
    <3>2. synced' = r /\ r \in Nat /\ synced <= r /\ r > 0 /\ revs' = revs
      BY <2>5, <2>a, <3>1 DEF Sync
    <3>3. StatusTrue' /\ SyncedIsNewest'
      BY <2>1, <2>5, <3>2 DEF Sync
    <3>4. PassTrue'
      <4>1. CASE revs[r].placement = BadFile
        BY <3>1, <4>1, <2>a DEF PassTrue, Applies, Passes, Statuses
      <4>2. CASE revs[r].placement # BadFile
        <5>1. /\ pass'.at = "apply" /\ pass'.todo = Assigned(r)
              /\ pass'.st = [pass.st EXCEPT !.rev = r]
          BY <3>1, <4>2, <2>a DEF Passes
        <5>2. pass.st = NoStatus
          BY <2>5 DEF Sync, PassTrue
        <5>3. pass'.st = [NoStatus EXCEPT !.rev = r] /\ Assigned(synced)' = Assigned(r)
          BY <5>1, <5>2, <3>2 DEF Assigned
        <5>. QED
          BY <3>2, <5>1, <5>3 DEF PassTrue, Applies, NoStatus
      <4>. QED
        BY <4>1, <4>2
    <3>. QED
      BY <3>3, <3>4
  <2>6. CASE AppliedAll
    <3>1. StatusTrue' /\ SyncedIsNewest'
      BY <2>1, <2>6, <2>a DEF AppliedAll
    <3>2. CASE pass' = [pass EXCEPT !.at = "remove", !.todo = Managed \ Assigned(pass.st.rev)]
      <4>1. /\ pass'.at = "remove" /\ pass'.st = pass.st
            /\ pass'.todo = Managed \ Assigned(pass.st.rev)
        BY <3>2, <2>a DEF Passes
      <4>2. /\ pass.at = "apply" /\ pass.todo = {} /\ UNCHANGED <<synced, applied, revs>>
        BY <2>6 DEF AppliedAll
      <4>3. /\ ~pass.st.error /\ pass.st.rev = synced /\ synced > 0
            /\ {c \in Cadres : pass.st.results[c] # "none"} = Assigned(synced)
            /\ \A c \in Cadres : pass.st.results[c] = "ok" => applied[c] = synced
        BY <4>2 DEF PassTrue, Applies
      <4>4. Assigned(synced)' = Assigned(synced) /\ pass'.todo \cap Assigned(synced) = {}
        BY <4>1, <4>2, <4>3 DEF Assigned
      <4>. QED
        BY <3>1, <4>1, <4>2, <4>3, <4>4 DEF PassTrue, Applies
    <3>3. CASE pass' = [pass EXCEPT !.at = "write", !.st.error = TRUE]
      <4>1. pass'.at = "write" /\ pass'.st.error = TRUE
        BY <3>3, <2>a DEF Passes, Statuses
      <4>2. ~Applies'
        BY <4>1 DEF Applies
      <4>. QED
        BY <3>1, <4>1, <4>2 DEF PassTrue
    <3>. QED
      BY <2>6, <3>1, <3>2, <3>3 DEF AppliedAll
  <2>7. ASSUME NEW c \in Cadres, ApplyOne(c) PROVE Inv'
    <3>1. /\ pass.at = "apply" /\ c \in pass.todo /\ pass.st.rev = synced
          /\ UNCHANGED <<revs, status, synced>>
          /\ applied' = [applied EXCEPT ![c] = synced] /\ touched' = touched \ {c}
      BY <2>7 DEF ApplyOne, PassTrue, Applies
    <3>2. StatusTrue'
      <4>1. ASSUME NEW d \in Cadres, NEW r \in 1..synced, HasSince(d, r)
            PROVE  HasSince(d, r)'
        <5>1. CASE d = c
          BY <3>1, <5>1, <2>a DEF HasSince
        <5>2. CASE d # c
          BY <3>1, <4>1, <5>2, <2>a DEF HasSince, Assigned
        <5>. QED
          BY <5>1, <5>2
      <4>. QED
        BY <3>1, <4>1, <2>a, <2>b, StatusStands
    <3>3. SyncedIsNewest'
      BY <3>1, <2>a DEF SyncedIsNewest
    <3>4. PassTrue'
      <4>1. /\ pass'.at = "apply" /\ pass'.todo = pass.todo \ {c}
            /\ pass'.st = [pass.st EXCEPT !.results = [pass.st.results EXCEPT ![c] = "ok"]]
        BY <2>7, <3>1, <2>a DEF ApplyOne, Result, Passes, Statuses
      <4>. QED
        BY <3>1, <4>1, <2>a, <2>c, PassStays
    <3>. QED
      BY <3>2, <3>3, <3>4
  <2>8. ASSUME NEW c \in Cadres, ApplyFails(c) PROVE Inv'
    <3>1. /\ pass.at = "apply" /\ c \in pass.todo
          /\ UNCHANGED <<revs, status, synced, applied, touched>>
      BY <2>8 DEF ApplyFails
    <3>2. /\ pass'.at = "apply" /\ pass'.todo = pass.todo \ {c}
          /\ pass'.st = [pass.st EXCEPT !.results = [pass.st.results EXCEPT ![c] = "failed"]]
      BY <2>8, <3>1, <2>a DEF ApplyFails, Result, Passes, Statuses
    <3>3. PassTrue'
      BY <3>1, <3>2, <2>a, <2>c, PassStays
    <3>. QED
      BY <2>1, <3>1, <3>3, <2>a
  <2>9. ASSUME NEW c \in Cadres, RemoveOne(c) PROVE Inv'
    <3>1. /\ pass.at = "remove" /\ c \in pass.todo /\ c \notin Assigned(synced) /\ synced > 0
          /\ UNCHANGED <<revs, status, synced, touched>>
          /\ \A d \in Cadres \ {c} : applied'[d] = applied[d]
          /\ applied'[c] \in {applied[c], 0}
          /\ pass' = [pass EXCEPT !.todo = @ \ {c}, !.st.removed = @ \cup {c}]
      BY <2>9, <2>a DEF RemoveOne, PassTrue, Applies
    <3>2. StatusTrue'
      <4>1. ASSUME NEW d \in Cadres, NEW r \in 1..synced, HasSince(d, r), d \in Assigned(r)
            PROVE  HasSince(d, r)'
        <5>1. CASE d = c
          <6>1. synced \in (r + 1)..synced
            BY <3>1, <4>1, <5>1, <2>a
          <6>. QED
            BY <3>1, <5>1, <6>1 DEF HasSince, Assigned
        <5>2. CASE d # c
          BY <3>1, <4>1, <5>2, <2>a, <2>b, HasSinceStands
        <5>. QED
          BY <5>1, <5>2
      <4>. QED
        BY <3>1, <4>1, <2>a, <2>b, StatusStands
    <3>3. SyncedIsNewest'
      BY <3>1, <2>a DEF SyncedIsNewest
    <3>4. PassTrue'
      <4>1. /\ pass'.at = "remove" /\ pass'.todo = pass.todo \ {c}
            /\ pass'.st = [pass.st EXCEPT !.removed = @ \cup {c}]
        BY <3>1, <2>a DEF Passes, Statuses
      <4>2. pass'.st.error = pass.st.error /\ pass'.st.rev = pass.st.rev
            /\ pass'.st.results = pass.st.results
        BY <4>1, <2>a DEF Passes, Statuses
      <4>3. Assigned(synced)' = Assigned(synced) /\ pass.st.results[c] # "ok"
        BY <3>1 DEF Assigned, PassTrue, Applies
      <4>. QED
        BY <3>1, <4>1, <4>2, <4>3 DEF PassTrue, Applies
    <3>. QED
      BY <3>2, <3>3, <3>4
  <2>10. CASE RemovedAll
    <3>1. pass'.at = "write" /\ pass'.st = pass.st
      BY <2>10, <2>a DEF RemovedAll, Passes
    <3>2. PassTrue'
      BY <2>10, <3>1 DEF RemovedAll, PassTrue, Applies, Assigned
    <3>. QED
      BY <2>1, <2>10, <3>2, <2>a DEF RemovedAll
  <2>11. CASE WriteStatus
    <3>1. PassTrue' /\ SyncedIsNewest'
      BY <2>11, <2>a DEF WriteStatus, PassTrue, Applies, Idle, SyncedIsNewest
    <3>2. CASE status' = status
      BY <2>1, <2>11, <3>1, <3>2, <2>a DEF WriteStatus
    <3>3. CASE status' = pass.st
      <4> SUFFICES ASSUME Complete(pass.st)
                   PROVE  StatusTrue'
        BY <3>1, <3>3 DEF StatusTrue, Complete
      <4>1. Applies
        BY <2>11 DEF WriteStatus, Applies, Complete
      <4>2. /\ pass.st.rev = synced /\ synced > 0
            /\ {c \in Cadres : pass.st.results[c] # "none"} = Assigned(synced)
            /\ \A c \in Cadres : pass.st.results[c] = "ok" => applied[c] = synced
        BY <2>11, <4>1 DEF PassTrue, WriteStatus
      <4>3. \A c \in Cadres : pass.st.results[c] \in {"none", "ok", "failed"}
        BY <2>a DEF Passes, Statuses, Results
      <4>4. /\ UNCHANGED <<synced, applied>> /\ Assigned(synced)' = Assigned(synced)
            /\ \A c \in Cadres : applied[c] = synced => HasSince(c, synced)'
        BY <2>11, <2>a DEF WriteStatus, Assigned, HasSince
      <4>5. \A c \in Assigned(synced) : HasSince(c, synced)'
        BY <4>2, <4>3, <4>4 DEF Complete
      <4>6. status'.rev = synced' /\ synced \in 1..synced
        BY <3>3, <4>2, <4>4, <2>a
      <4>7. Assigned(status.rev)' = Assigned(synced)
            /\ \A c \in Assigned(synced) : HasSince(c, status.rev)'
        BY <4>4, <4>5, <4>6 DEF Assigned, HasSince
      <4>. QED
        BY <3>3, <4>2, <4>4, <4>6, <4>7 DEF StatusTrue
    <3>. QED
      BY <2>11, <3>1, <3>2, <3>3 DEF WriteStatus
  <2>12. CASE Publish
    <3>1. PICK content \in Contents : revs' = Append(revs, content)
      BY <2>12 DEF Publish
    <3>2. \A r \in 1..Newest : revs'[r] = revs[r]
      BY <3>1 DEF ATypeOK, Newest
    <3>3. \A r \in 1..synced : Assigned(r)' = Assigned(r)
      BY <2>a, <3>2 DEF Assigned
    <3>4. StatusTrue'
      BY <2>12, <2>a, <3>3, StatusStands, HasSinceStands DEF Publish
    <3>5. PassTrue' /\ SyncedIsNewest'
      BY <2>12, <2>a, <3>3 DEF Publish, PassTrue, Applies, SyncedIsNewest
    <3>. QED
      BY <3>4, <3>5
  <2>13. CASE KeyInit \/ CadreNew
    BY <2>1, <2>2, <2>13, <2>a DEF KeyInit, CadreNew, passVars
  <2>14. ASSUME NEW c \in Cadres, CadreRm(c) PROVE Inv'
    <3>1. /\ UNCHANGED <<revs, status, synced, pass>> /\ pass.at = "idle"
          /\ applied' = [applied EXCEPT ![c] = 0] /\ touched' = touched \cup {c}
      BY <2>14 DEF CadreRm, Touch
    <3>2. StatusTrue'
      <4>1. ASSUME NEW d \in Cadres, NEW r \in 1..synced, HasSince(d, r)
            PROVE  HasSince(d, r)'
        BY <3>1, <4>1, <2>a DEF HasSince, Assigned
      <4>. QED
        BY <3>1, <4>1, <2>a, <2>b, StatusStands
    <3>. QED
      BY <3>1, <3>2, <2>a DEF PassTrue, Applies, SyncedIsNewest
  <2>15. ASSUME NEW c \in Cadres, Corrupt(c) PROVE Inv'
    BY <2>1, <2>2, <2>15, <2>a DEF Corrupt
  <2>16. CASE UNCHANGED avars
    BY <2>1, <2>2, <2>16, <2>a DEF avars, passVars
  <2>. QED
    BY <2>3, <2>4, <2>5, <2>6, <2>7, <2>8, <2>9, <2>10, <2>11, <2>12, <2>13, <2>14, <2>15, <2>16
    DEF ANext, PassStep
<1>3. Typed /\ Inv => HealthyRowIsTrue
  <2> SUFFICES ASSUME ATypeOK, StatusTrue, NEW reply \in Replies, NEW probe \in Probes,
                      Healthy(Row(reply, probe)), ~Row(reply, probe).pending
               PROVE  LET row == Row(reply, probe) IN
                      /\ row.rev \in 1..synced
                      /\ row.applied = Cardinality(Assigned(row.rev))
                      /\ \A c \in Assigned(row.rev) \ touched :
                           \/ applied[c] >= row.rev
                           \/ \E r \in (row.rev + 1)..synced : c \notin Assigned(r)
    BY DEF HealthyRowIsTrue
  <2>1. reply = "answered" /\ status # None
    BY DEF Healthy, Row, Replies
  <2>2. Row(reply, probe) =
          [reachable |-> TRUE, pending |-> FALSE, rev |-> status.rev,
           applied |-> Cardinality({c \in Cadres : status.results[c] # "none"}),
           errors |-> ErrorsOf(status) \cup ProbeErrors(probe)]
    BY <2>1 DEF Row
  <2>3. Complete(status)
    BY <2>2 DEF Healthy, ErrorsOf, Complete
  <2>4. /\ status.rev \in 1..synced
        /\ {c \in Cadres : status.results[c] # "none"} = Assigned(status.rev)
        /\ \A c \in Assigned(status.rev) : HasSince(c, status.rev)
    BY <2>1, <2>3 DEF StatusTrue
  <2>5. Row(reply, probe).rev = status.rev
        /\ Row(reply, probe).applied = Cardinality(Assigned(status.rev))
    BY <2>2, <2>4
  <2>. QED
    BY <2>4, <2>5 DEF HasSince
<1>. QED
  BY <1>1, <1>2, <1>3, AgentTypeCorrect, PTL DEF ASpec
=============================================================================

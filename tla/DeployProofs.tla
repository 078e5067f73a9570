---------------------------- MODULE DeployProofs -----------------------------
(***************************************************************************)
(* What holds of deploys for any number of nodes, names, runs and failures,*)
(* first of the pins that their connections share.                         *)
(***************************************************************************)
EXTENDS Deploy, TLAPS

-----------------------------------------------------------------------------
(* The pins, for every number of hosts, keys and connections. *)

(* A connection's state has one of the shapes of ConnStates, so a record   *)
(* with "at" changed is again a connection's state.                        *)
LEMMA ConnCases ==
  ASSUME NEW r \in ConnStates
  PROVE  /\ r.at = "unused" => r = Unused
         /\ r.at = "read" => r.host \in Hosts /\ r.snap \in SUBSET HostKey
         /\ r.at \in {"pin", "accepted", "rejected"} =>
              /\ r.host \in Hosts /\ r.key \in HostKey
              /\ \A at \in {"pin", "accepted", "rejected"} :
                   [r EXCEPT !.at = at] = [at |-> at, host |-> r.host, key |-> r.key]
         /\ r.at \in {"unused", "read", "pin", "accepted", "rejected", "failed"}
BY DEF ConnStates, Unused

(* Every state has the right type.                                         *)
THEOREM PinsTypeCorrect == HSpec => []HTypeOK
<1>1. HInit => HTypeOK
  BY DEF HInit, HTypeOK, ConnStates
<1>2. HTypeOK /\ [HNext]_hostVars => HTypeOK'
  <2> SUFFICES ASSUME HTypeOK, [HNext]_hostVars PROVE HTypeOK'
    OBVIOUS
  <2> USE DEF HTypeOK
  <2>0. \A h \in Hosts : server[h] \subseteq HostKey
    BY KeysTyped
  <2>1. ASSUME NEW c \in Conns, NEW h \in Hosts, Read(c, h) PROVE HTypeOK'
    <3>1. [at |-> "read", host |-> h, snap |-> known[h]] \in ConnStates
      BY DEF ConnStates
    <3>. QED
      BY <2>1, <3>1 DEF Read
  <2>2. ASSUME NEW c \in Conns, Handshake(c) PROVE HTypeOK'
    <3>1. conn[c].host \in Hosts
      BY <2>2, ConnCases DEF Handshake
    <3>2. Offered(conn[c].host) \subseteq HostKey
      BY <2>0, <3>1 DEF Offered
    <3>3. [at |-> "failed", host |-> conn[c].host] \in ConnStates
      BY <3>1 DEF ConnStates
    <3>4. \A at \in {"pin", "accepted", "rejected"}, k \in HostKey :
            [at |-> at, host |-> conn[c].host, key |-> k] \in ConnStates
      BY <3>1 DEF ConnStates
    <3>5. \E r \in ConnStates : conn' = [conn EXCEPT ![c] = r]
      BY <2>2, <3>2, <3>3, <3>4 DEF Handshake
    <3>6. conn' \in [Conns -> ConnStates]
      BY <3>5
    <3>. QED
      BY <2>2, <3>6 DEF Handshake
  <2>3. ASSUME NEW c \in Conns, Pin(c) PROVE HTypeOK'
    <3>0. /\ conn[c].host \in Hosts /\ conn[c].key \in HostKey
          /\ \A at \in {"accepted", "rejected"} :
               [conn[c] EXCEPT !.at = at] = [at |-> at, host |-> conn[c].host, key |-> conn[c].key]
      BY <2>3, ConnCases DEF Pin
    <3>1. \A at \in {"accepted", "rejected"} : [conn[c] EXCEPT !.at = at] \in ConnStates
      BY <3>0 DEF ConnStates
    <3>2. known' \in [Hosts -> SUBSET HostKey]
      BY <2>3, <3>0 DEF Pin
    <3>3. \E at \in {"accepted", "rejected"} : conn' = [conn EXCEPT ![c].at = at]
      BY <2>3 DEF Pin
    <3>4. conn' \in [Conns -> ConnStates]
      BY <3>1, <3>3
    <3>. QED
      BY <2>3, <3>2, <3>4 DEF Pin
  <2>4. ASSUME NEW c \in Conns, ConnFails(c) PROVE HTypeOK'
    <3>1. [at |-> "failed", host |-> conn[c].host] \in ConnStates
      BY <2>4, ConnCases DEF ConnFails, ConnStates
    <3>. QED
      BY <2>4, <3>1 DEF ConnFails
  <2>5. ASSUME NEW h \in Hosts, NEW keys \in KeySets, Rekey(h, keys) PROVE HTypeOK'
    BY <2>5 DEF Rekey
  <2>6. CASE UNCHANGED hostVars
    BY <2>6 DEF hostVars
  <2>. QED
    BY <2>1, <2>2, <2>3, <2>4, <2>5, <2>6 DEF HNext, Connecting
<1>. QED
  BY <1>1, <1>2, PTL DEF HSpec

(* What a handshake leaves behind, at the connection it is of.             *)
LEMMA HandshakeLeaves ==
  ASSUME HTypeOK, NEW c \in Conns, Handshake(c)
  PROVE  /\ \A d \in Conns \ {c} : conn'[d] = conn[d]
         /\ conn'[c].at \in {"failed", "accepted", "pin", "rejected"}
         /\ conn'[c].host = conn[c].host /\ conn[c].host \in Hosts
         /\ conn'[c].at # "failed" =>
              /\ conn'[c].key \in Offered(conn[c].host)
              /\ \A j \in Offered(conn[c].host) : conn'[c].key.type <= j.type
         /\ conn'[c].at = "accepted" => conn'[c].key \in conn[c].snap
         /\ conn'[c].at = "rejected" => conn'[c].key \notin conn[c].snap /\ conn[c].snap # {}
<1> DEFINE h == conn[c].host
<1>1. h \in Hosts /\ \A d \in Conns \ {c} : conn'[d] = conn[d]
  BY ConnCases DEF Handshake, HTypeOK
<1>2. CASE conn' = [conn EXCEPT ![c] = [at |-> "failed", host |-> h]]
  BY <1>1, <1>2 DEF HTypeOK
<1>3. CASE \E k \in Offered(h) :
          /\ \A j \in Offered(h) : k.type <= j.type
          /\ \/ /\ k \in conn[c].snap
                /\ conn' = [conn EXCEPT ![c] = [at |-> "accepted", host |-> h, key |-> k]]
             \/ /\ conn[c].snap = {}
                /\ conn' = [conn EXCEPT ![c] = [at |-> "pin", host |-> h, key |-> k]]
             \/ /\ k \notin conn[c].snap /\ conn[c].snap # {}
                /\ conn' = [conn EXCEPT ![c] = [at |-> "rejected", host |-> h, key |-> k]]
  <2>1. PICK k \in Offered(h), at \in {"accepted", "pin", "rejected"} :
          /\ \A j \in Offered(h) : k.type <= j.type
          /\ conn' = [conn EXCEPT ![c] = [at |-> at, host |-> h, key |-> k]]
          /\ at = "accepted" => k \in conn[c].snap
          /\ at = "rejected" => k \notin conn[c].snap /\ conn[c].snap # {}
    BY <1>3
  <2>2. conn'[c] = [at |-> at, host |-> h, key |-> k]
    BY <2>1 DEF HTypeOK
  <2>. QED
    BY <1>1, <2>1, <2>2
<1>. QED
  BY <1>2, <1>3 DEF Handshake

(* What the writing of a pin leaves behind.                                *)
LEMMA PinLeaves ==
  ASSUME HTypeOK, NEW c \in Conns, Pin(c)
  PROVE  /\ \A d \in Conns \ {c} : conn'[d] = conn[d]
         /\ conn'[c].at \in {"accepted", "rejected"}
         /\ conn'[c].host = conn[c].host /\ conn'[c].key = conn[c].key
         /\ conn[c].host \in Hosts
         /\ \A h \in Hosts : known'[h] = known[h]
                          \/ (h = conn[c].host /\ known[h] = {} /\ known'[h] = {conn[c].key})
         /\ conn'[c].at = "accepted" => conn[c].key \in known'[conn[c].host]
         /\ conn'[c].at = "rejected" =>
              conn[c].key \notin known[conn[c].host] /\ known[conn[c].host] # {}
<1>1. /\ conn[c].host \in Hosts
      /\ \A at \in {"accepted", "rejected"} :
           [conn[c] EXCEPT !.at = at] = [at |-> at, host |-> conn[c].host, key |-> conn[c].key]
  BY ConnCases DEF Pin, HTypeOK
<1>2. PICK at \in {"accepted", "rejected"} :
        /\ conn' = [conn EXCEPT ![c].at = at]
        /\ at = "accepted" => conn[c].key \in known'[conn[c].host]
        /\ at = "rejected" => conn[c].key \notin known[conn[c].host] /\ known[conn[c].host] # {}
  BY <1>1 DEF Pin, HTypeOK
<1>3. conn'[c] = [at |-> at, host |-> conn[c].host, key |-> conn[c].key]
  BY <1>1, <1>2 DEF HTypeOK
<1>4. \A h \in Hosts : known'[h] = known[h]
                    \/ (h = conn[c].host /\ known[h] = {} /\ known'[h] = {conn[c].key})
  BY <1>1 DEF Pin, HTypeOK
<1>5. \A d \in Conns \ {c} : conn'[d] = conn[d]
  BY <1>2 DEF HTypeOK
<1>. QED
  BY <1>1, <1>2, <1>3, <1>4, <1>5

(* Only appendKnownHost writes known_hosts, and only for a host that has   *)
(* no pin by then: no interleaving trusts a second key.                    *)
THEOREM NeverASecondKey == HSpec => TrustOnce
<1> DEFINE Kept == \A h \in Hosts : known[h] # {} => known'[h] = known[h]
<1>1. HTypeOK /\ HNext => Kept
  <2> SUFFICES ASSUME HTypeOK, HNext, NEW h \in Hosts, known[h] # {}
               PROVE  known'[h] = known[h]
    OBVIOUS
  <2>1. ASSUME NEW c \in Conns, Pin(c) PROVE known'[h] = known[h]
    BY <2>1, PinLeaves
  <2>2. CASE UNCHANGED known
    BY <2>2
  <2>. QED
    BY <2>1, <2>2 DEF HNext, Connecting, Read, Handshake, ConnFails, Rekey
<1>2. HTypeOK /\ [HNext]_hostVars => [Kept]_hostVars
  BY <1>1
<1>. QED
  BY <1>2, PinsTypeCorrect, PTL DEF HSpec, TrustOnce

(* A reading that found pins is never stale; one that found none may be.   *)
ReadStands(c) ==
  conn[c].at = "read" =>
    \/ conn[c].snap = {}
    \/ conn[c].snap = known[conn[c].host]

(* A connection that is accepted saw a key that is pinned.                 *)
THEOREM OnlyPinnedAccepted == HSpec => [](AcceptedIsPinned /\ \A c \in Conns : ReadStands(c))
<1> DEFINE Inv == AcceptedIsPinned /\ \A c \in Conns : ReadStands(c)
<1>1. HInit => Inv
  BY DEF HInit, Unused, AcceptedIsPinned, ReadStands
<1>2. HTypeOK /\ Inv /\ [HNext]_hostVars => Inv'
  <2> SUFFICES ASSUME HTypeOK, Inv, [HNext]_hostVars, NEW d \in Conns
               PROVE  /\ conn'[d].at = "accepted" => conn'[d].key \in known'[conn'[d].host]
                      /\ ReadStands(d)'
    BY DEF AcceptedIsPinned
  <2>0. conn[d] \in ConnStates
    BY DEF HTypeOK
  <2> USE DEF AcceptedIsPinned, ReadStands, HTypeOK
  <2>1. ASSUME NEW c \in Conns, NEW h \in Hosts, Read(c, h)
        PROVE  /\ conn'[d].at = "accepted" => conn'[d].key \in known'[conn'[d].host]
               /\ ReadStands(d)'
    BY <2>1 DEF Read
  <2>2. ASSUME NEW c \in Conns, Handshake(c)
        PROVE  /\ conn'[d].at = "accepted" => conn'[d].key \in known'[conn'[d].host]
               /\ ReadStands(d)'
    BY <2>2, HandshakeLeaves DEF Handshake
  <2>3. ASSUME NEW c \in Conns, Pin(c)
        PROVE  /\ conn'[d].at = "accepted" => conn'[d].key \in known'[conn'[d].host]
               /\ ReadStands(d)'
    <3>1. CASE d = c
      BY <2>3, <3>1, PinLeaves
    <3>2. CASE d # c
      <4>1. conn'[d] = conn[d]
        BY <2>3, <3>2, PinLeaves
      <4>2. conn[d].at \in {"read", "accepted"} => conn[d].host \in Hosts
        BY <2>0, ConnCases
      <4>3. \A h \in Hosts : known[h] # {} => known'[h] = known[h]
        BY <2>3, PinLeaves
      <4>. QED
        BY <4>1, <4>2, <4>3
    <3>. QED
      BY <3>1, <3>2
  <2>4. ASSUME NEW c \in Conns, ConnFails(c)
        PROVE  /\ conn'[d].at = "accepted" => conn'[d].key \in known'[conn'[d].host]
               /\ ReadStands(d)'
    BY <2>4 DEF ConnFails
  <2>5. ASSUME NEW h \in Hosts, NEW keys \in KeySets, Rekey(h, keys)
        PROVE  /\ conn'[d].at = "accepted" => conn'[d].key \in known'[conn'[d].host]
               /\ ReadStands(d)'
    BY <2>5 DEF Rekey
  <2>6. CASE UNCHANGED hostVars
    BY <2>6 DEF hostVars
  <2>. QED
    BY <2>1, <2>2, <2>3, <2>4, <2>5, <2>6 DEF HNext, Connecting
<1>. QED
  BY <1>1, <1>2, PinsTypeCorrect, PTL DEF HSpec

(* What a handshake presented before it is pinned: the key that some set,  *)
(* the host's by then, offers to one who knows none; and what was pinned   *)
(* since from the same set is that key.                                    *)
ToPinStands(c) ==
  conn[c].at = "pin" =>
    \E s \in KeySets :
      /\ conn[c].key \in s
      /\ known[conn[c].host] = {} => \A j \in s : conn[c].key.type <= j.type
      /\ known[conn[c].host] # {} /\ known[conn[c].host] \subseteq s
           => conn[c].key \in known[conn[c].host]

(* A host that has every key pinned for it presents one of them, and one   *)
(* without pins its preferred key.                                         *)
LEMMA Presented ==
  ASSUME HTypeOK, NEW h \in Hosts, NEW k \in Offered(h)
  PROVE  /\ k \in server[h] /\ server[h] \in KeySets
         /\ known[h] # {} /\ known[h] \subseteq server[h] => k \in known[h]
         /\ known[h] = {} => Offered(h) = server[h]
BY KeysTyped DEF Offered, HTypeOK

(* Where no key is of two installations of a host, a host that still has   *)
(* what is pinned for it is never turned away, whichever connections raced *)
(* to pin its first key.                                                   *)
THEOREM StillWelcome ==
  ASSUME \A s, t \in KeySets : s # t => s \cap t = {}
  PROVE  HSpec => NotLockedOut
<1> DEFINE Inv == \A c \in Conns : ToPinStands(c)
           Refusals == \A c \in Conns :
                         Rejects(c) /\ conn'[c].key \in server[conn'[c].host]
                           => ~ (known[conn'[c].host] \subseteq server[conn'[c].host])
<1>1. HInit => Inv
  BY DEF HInit, Unused, ToPinStands
<1>2. HTypeOK /\ Inv /\ [HNext]_hostVars => Inv'
  <2> SUFFICES ASSUME HTypeOK, Inv, [HNext]_hostVars, NEW d \in Conns
               PROVE  ToPinStands(d)'
    OBVIOUS
  <2>0. conn[d].at = "pin" => conn[d].host \in Hosts /\ conn[d].key \in HostKey
    BY ConnCases DEF HTypeOK
  <2>1. ASSUME NEW c \in Conns, Pin(c), d # c
        PROVE  ToPinStands(d)'
    <3> SUFFICES ASSUME conn[d].at = "pin" PROVE ToPinStands(d)'
      BY <2>1, PinLeaves DEF ToPinStands
    <3> DEFINE h == conn[d].host
    <3>1. conn'[d] = conn[d] /\ h \in Hosts
      BY <2>0, <2>1, PinLeaves
    <3>2. CASE known'[h] = known[h]
      BY <3>1, <3>2 DEF ToPinStands
    <3>3. CASE h = conn[c].host /\ known[h] = {} /\ known'[h] = {conn[c].key}
      <4>1. PICK s \in KeySets : conn[d].key \in s /\ \A j \in s : conn[d].key.type <= j.type
        BY <3>3 DEF ToPinStands
      <4>2. PICK t \in KeySets : conn[c].key \in t /\ \A j \in t : conn[c].key.type <= j.type
        BY <2>1, <3>3 DEF ToPinStands, Pin
      <4>3. ASSUME conn[c].key \in s PROVE conn[d].key = conn[c].key
        <5>1. s = t
          BY <4>1, <4>2, <4>3
        <5>2. conn[c].key \in HostKey /\ conn[d].key \in HostKey
          BY <4>1, <4>2, KeysTyped
        <5>3. conn[c].key.type \in Nat /\ conn[d].key.type \in Nat
          BY <5>2, KeysTyped
        <5>4. conn[c].key.type = conn[d].key.type
          BY <4>1, <4>2, <5>1, <5>3
        <5>. QED
          BY <4>1, <4>3, <5>4, KeysTyped
      <4>. QED
        BY <3>1, <3>3, <4>1, <4>3 DEF ToPinStands
    <3>. QED
      BY <2>1, <3>1, <3>2, <3>3, PinLeaves
  <2>2. ASSUME NEW c \in Conns, Pin(c), d = c
        PROVE  ToPinStands(d)'
    BY <2>2, PinLeaves DEF ToPinStands
  <2>3. ASSUME NEW c \in Conns, Handshake(c)
        PROVE  ToPinStands(d)'
    <3>1. CASE d # c
      BY <2>3, <3>1, HandshakeLeaves DEF ToPinStands, Handshake
    <3>2. CASE d = c
      <4> SUFFICES ASSUME conn'[c].at = "pin" PROVE ToPinStands(c)'
        BY <3>2 DEF ToPinStands
      <4> DEFINE h == conn[c].host
                 k == conn'[c].key
      <4>1. /\ h \in Hosts /\ conn'[c].host = h /\ known' = known
            /\ k \in Offered(h) /\ \A j \in Offered(h) : k.type <= j.type
        BY <2>3, HandshakeLeaves DEF Handshake
      <4>2. /\ k \in server[h] /\ server[h] \in KeySets
            /\ known[h] # {} /\ known[h] \subseteq server[h] => k \in known[h]
            /\ known[h] = {} => Offered(h) = server[h]
        BY <4>1, Presented
      <4>. QED
        BY <4>1, <4>2 DEF ToPinStands
    <3>. QED
      BY <3>1, <3>2
  <2>4. ASSUME NEW c \in Conns, ConnFails(c) \/ \E h \in Hosts : Read(c, h)
        PROVE  ToPinStands(d)'
    <3>1. known' = known /\ (conn'[c].at # "pin") /\ (d # c => conn'[d] = conn[d])
      BY <2>4 DEF ConnFails, Read, HTypeOK
    <3>. QED
      BY <3>1 DEF ToPinStands
  <2>5. CASE \E h \in Hosts, keys \in KeySets : Rekey(h, keys)
    BY <2>5 DEF Rekey, ToPinStands
  <2>6. CASE UNCHANGED hostVars
    BY <2>6 DEF hostVars, ToPinStands
  <2>. QED
    BY <2>1, <2>2, <2>3, <2>4, <2>5, <2>6 DEF HNext, Connecting
<1>3. HTypeOK /\ Inv /\ (\A c \in Conns : ReadStands(c)) /\ HNext => Refusals
  <2> SUFFICES ASSUME HTypeOK, Inv, \A c \in Conns : ReadStands(c), HNext, NEW c \in Conns,
                      Rejects(c), conn'[c].key \in server[conn'[c].host],
                      known[conn'[c].host] \subseteq server[conn'[c].host]
               PROVE  FALSE
    OBVIOUS
  <2> DEFINE h == conn[c].host
  <2>1. CASE Handshake(c)
    <3>1. /\ h \in Hosts /\ conn'[c].host = h /\ conn'[c].key \in Offered(h)
          /\ conn'[c].key \notin conn[c].snap /\ conn[c].snap # {}
      BY <2>1, HandshakeLeaves DEF Rejects
    <3>2. conn[c].snap = known[h]
      BY <2>1, <3>1 DEF Handshake, ReadStands
    <3>. QED
      BY <3>1, <3>2, Presented
  <2>2. CASE Pin(c)
    <3>1. /\ h \in Hosts /\ conn'[c].host = h /\ conn'[c].key = conn[c].key
          /\ conn[c].key \notin known[h] /\ known[h] # {}
      BY <2>2, PinLeaves DEF Rejects
    <3>2. PICK s \in KeySets : /\ conn[c].key \in s
                               /\ known[h] \subseteq s => conn[c].key \in known[h]
      BY <2>2, <3>1 DEF Pin, ToPinStands
    <3>3. server[h] \in KeySets /\ conn[c].key \in server[h]
      BY <3>1 DEF HTypeOK
    <3>4. s # server[h] => s \cap server[h] = {}
      BY <3>3
    <3>5. conn[c].key \in s \cap server[h]
      BY <3>2, <3>3
    <3>. QED
      BY <3>1, <3>2, <3>4, <3>5
  <2>3. ASSUME NEW d \in Conns, d # c, Connecting(d) PROVE FALSE
    BY <2>3, HandshakeLeaves, PinLeaves DEF Connecting, Rejects
  <2>4. CASE \E d \in Conns : ConnFails(d) \/ \E g \in Hosts : Read(d, g)
    BY <2>4 DEF ConnFails, Read, Rejects, HTypeOK
  <2>5. CASE UNCHANGED conn
    BY <2>5 DEF Rejects
  <2>. QED
    BY <2>1, <2>2, <2>3, <2>4, <2>5 DEF HNext, Connecting, Rekey
<1>4. HTypeOK /\ Inv /\ (\A c \in Conns : ReadStands(c)) /\ [HNext]_hostVars
        => [Refusals]_hostVars
  BY <1>3
<1>. QED
  BY <1>1, <1>2, <1>4, PinsTypeCorrect, OnlyPinnedAccepted, PTL DEF HSpec, NotLockedOut

-----------------------------------------------------------------------------
(* The jobs, and what they are to the connections. *)

JobsTyped ==
  /\ nodes \in [NodeNames -> Doc \cup {None, Torn}]
  /\ run \in 0..MaxRuns
  /\ opts \in OptionSet
  /\ pc \in [DOMAIN opts.names -> Stages \cup Ended]
  /\ Jobs # {} => run \in Runs
  /\ \A i \in Jobs : Conn(i) \in Conns

(* Jobs are numbered from 1, and each has a node's name.                   *)
LEMMA JobNumbers ==
  ASSUME JobsTyped
  PROVE  /\ Jobs = DOMAIN opts.names /\ Jobs \subseteq Nat \ {0}
         /\ \A i \in Jobs : opts.names[i] \in NodeNames
BY DEF JobsTyped, Jobs, OptionSet

(* The address of a node is one, or there is none.                         *)
LEMMA Addresses ==
  ASSUME NEW doc \in Doc \cup {None, Torn}, NEW n \in NodeNames
  PROVE  Target(n, doc) \in Hosts \cup {None}
<1>1. CASE Loadable(doc)
  <2>1. doc \in Doc /\ Global \in Doc \cup {None}
    BY <1>1, ConfigTyped DEF Loadable
  <2>2. LoadMerged(doc) \in Doc
    BY <2>1 DEF LoadMerged, DeepMerge, Doc, EmptyDoc
  <2>. QED
    BY <1>1, <2>2, ConfigTyped DEF Target, Resolve, Doc
<1>. QED
  BY <1>1 DEF Target

(* What `ops nodes join` writes.                                           *)
LEMMA Joined ==
  ASSUME NEW doc \in Doc \cup {None}, NEW h \in Hosts
  PROVE  /\ WriteNetwork(doc, h) \in Doc
         /\ CutShort(WriteNetwork(doc, h)) \subseteq Doc \cup {Torn}
         /\ WriteNetwork(doc, h)["address"] = h
<1>1. WriteNetwork(doc, h) \in Doc /\ WriteNetwork(doc, h)["address"] = h
  BY DEF WriteNetwork, Doc, EmptyDoc
<1>2. CutShort(WriteNetwork(doc, h)) \subseteq Doc \cup {Torn}
  BY <1>1 DEF CutShort, Doc
<1>. QED
  BY <1>1, <1>2

(* What a job may do to the others' state: nothing but by the node's disk, *)
(* the pins and its own progress.                                          *)
LEMMA JobMoves ==
  ASSUME JobsTyped, NEW i \in Jobs, JobStep(i) \/ DialFails(i) \/ StageFails(i) \/ Panic(i) \/ Hang(i)
  PROVE  /\ UNCHANGED <<nodes, told, run, opts, changes>>
         /\ \/ (Dial(i) \/ DialFails(i)) /\ pc' = pc
            \/ /\ UNCHANGED hostVars
               /\ \E to \in (Stages \cup Ended) \ {"waiting"} : pc' = [pc EXCEPT ![i] = to]
<1> USE DEF Goes, Hopeless, Command, Stages, Ended
<1>1. CASE Spawn(i) \/ NoAddress(i) \/ Arch(i) \/ Base(i) \/ Unsupported(i) \/ Stage(i)
  BY <1>1 DEF Spawn, NoAddress, Arch, Base, Unsupported, Stage
<1>2. CASE Staged(i) \/ Chmod(i) \/ Move(i) \/ Test(i)
  BY <1>2 DEF Staged, Chmod, Move, Test
<1>3. CASE KeyInit(i) \/ Config(i) \/ Install(i)
  BY <1>3 DEF KeyInit, Config, Install
<1>4. CASE StageFails(i) \/ Panic(i) \/ Hang(i)
  BY <1>4 DEF StageFails, Panic, Hang
<1>5. CASE Dial(i) \/ DialFails(i)
  BY <1>5 DEF Dial, DialFails, runVars
<1>. QED
  BY <1>1, <1>2, <1>3, <1>4, <1>5 DEF JobStep

(* Jobs keep their types. *)
LEMMA JobsStayTyped ==
  ASSUME JobsTyped, [DNext]_dvars
  PROVE  JobsTyped'
<1>1. CASE Begin
  <2>1. PICK o \in Options :
          opts' = [o EXCEPT !.names = IF o.names = <<>> THEN List(nodes) ELSE o.names]
    BY <1>1 DEF Begin
  <2>2. /\ run' = run + 1 /\ run < MaxRuns /\ nodes' = nodes
        /\ pc' = [i \in DOMAIN opts'.names |-> "waiting"]
    BY <1>1 DEF Begin
  <2>3. run' \in Runs /\ run' \in 0..MaxRuns
    BY <2>2, BoundsOfDeploy DEF JobsTyped, Runs
  <2>4. /\ o \in OptionSet
        /\ List(nodes) \in Seq(NodeNames) /\ DOMAIN List(nodes) \subseteq DOMAIN NodeOrder
    BY BoundsOfDeploy, ListTyped DEF JobsTyped
  <2>5. /\ opts' \in OptionSet
        /\ DOMAIN opts'.names \subseteq DOMAIN o.names \cup DOMAIN NodeOrder
    BY <2>1, <2>4 DEF OptionSet
  <2>6. \A i \in DOMAIN opts'.names : <<run', i>> \in Conns
    BY <2>3, <2>5, BoundsOfDeploy DEF Runs
  <2>. QED
    <3>1. DOMAIN pc' = DOMAIN opts'.names /\ pc' \in [DOMAIN opts'.names -> Stages \cup Ended]
      BY <2>2 DEF Stages
    <3>. QED
      BY <2>2, <2>3, <2>5, <2>6, <3>1 DEF JobsTyped, Jobs, Conn
<1>2. ASSUME NEW n \in NodeNames, NEW h \in Hosts, Join(n, h) PROVE JobsTyped'
  <2>1. nodes[n] \in Doc \cup {None}
    BY <1>2 DEF Join, JobsTyped
  <2>2. nodes' \in [NodeNames -> Doc \cup {None, Torn}]
    <3>1. \E doc \in Doc \cup {Torn} : nodes' = [nodes EXCEPT ![n] = doc]
      <4>1. /\ WriteNetwork(nodes[n], h) \in Doc
            /\ CutShort(WriteNetwork(nodes[n], h)) \subseteq Doc \cup {Torn}
        BY <2>1, Joined
      <4>. QED
        BY <1>2, <4>1 DEF Join
    <3>. QED
      BY <3>1 DEF JobsTyped
  <2>3. /\ opts' = NoOptions /\ pc' = <<>> /\ run' = run
    BY <1>2 DEF Join
  <2>4. opts'.names = <<>> /\ DOMAIN opts'.names = {}
    BY <2>3 DEF NoOptions
  <2>5. NoOptions \in OptionSet
    BY DEF NoOptions, OptionSet
  <2>. QED
    BY <2>2, <2>3, <2>4, <2>5 DEF JobsTyped, Jobs
<1>3. ASSUME NEW i \in Jobs, JobStep(i) \/ DialFails(i) \/ StageFails(i) \/ Panic(i) \/ Hang(i)
      PROVE  JobsTyped'
  BY <1>3, JobMoves DEF JobsTyped, Jobs, Conn
<1>5. CASE GiveUp
  <2>1. opts' = NoOptions /\ pc' = <<>> /\ run' = run /\ nodes' = nodes
    BY <1>5 DEF GiveUp
  <2>2. opts'.names = <<>> /\ DOMAIN opts'.names = {} /\ NoOptions \in OptionSet
    BY <2>1 DEF NoOptions, OptionSet
  <2>. QED
    BY <2>1, <2>2 DEF JobsTyped, Jobs
<1>4. CASE Reinstalled \/ (\E h \in Hosts : LateEnds(h) \/ LateBase(h)) \/ UNCHANGED dvars
  BY <1>4 DEF Reinstalled, LateEnds, LateBase, dvars, runVars, JobsTyped, Jobs, Conn
<1>. QED
  BY <1>1, <1>2, <1>3, <1>4, <1>5 DEF DNext

LEMMA JobsStartTyped == DInit => JobsTyped
<1> SUFFICES ASSUME DInit PROVE JobsTyped
  OBVIOUS
<1>1. NoOptions \in OptionSet
  BY DEF NoOptions, OptionSet
<1>2. opts = NoOptions /\ pc = <<>> /\ run = 0 /\ nodes \in [NodeNames -> Doc \cup {None}]
  BY DEF DInit
<1>3. opts.names = <<>> /\ DOMAIN opts.names = {}
  BY <1>2 DEF NoOptions
<1>. QED
  BY <1>1, <1>2, <1>3, BoundsOfDeploy DEF JobsTyped, Jobs

-----------------------------------------------------------------------------
(* The deploys use the pins as HostKeys says, so what is proved of the     *)
(* pins holds of every deploy.                                             *)
THEOREM DeployUsesPins == DSpec => HSpec
<1>1. DInit => HInit
  BY DEF DInit
<1>2. JobsTyped /\ [DNext]_dvars => [HNext]_hostVars
  <2> SUFFICES ASSUME JobsTyped, [DNext]_dvars PROVE HNext \/ UNCHANGED hostVars
    OBVIOUS
  <2>1. ASSUME NEW i \in Jobs, JobStep(i) \/ DialFails(i) \/ StageFails(i) \/ Panic(i) \/ Hang(i)
        PROVE  HNext \/ UNCHANGED hostVars
    <3>1. Conn(i) \in Conns
      BY DEF JobsTyped
    <3>2. CASE Dial(i)
      <4>1. CASE Connecting(Conn(i))
        BY <3>1, <4>1 DEF HNext
      <4>2. CASE Address(opts.names[i]) # None /\ Read(Conn(i), Address(opts.names[i]))
        <5>1. opts.names[i] \in NodeNames /\ nodes[opts.names[i]] \in Doc \cup {None, Torn}
          BY JobNumbers DEF JobsTyped
        <5>2. Address(opts.names[i]) \in Hosts
          BY <4>2, <5>1, Addresses DEF Address
        <5>. QED
          BY <3>1, <4>2, <5>2 DEF HNext
      <4>. QED
        BY <3>2, <4>1, <4>2 DEF Dial
    <3>3. CASE DialFails(i)
      BY <3>1, <3>3 DEF DialFails, HNext
    <3>. QED
      BY <2>1, <3>2, <3>3, JobMoves
  <2>2. CASE Reinstalled
    BY <2>2 DEF Reinstalled, HNext
  <2>3. CASE Begin \/ GiveUp \/ (\E n \in NodeNames, h \in Hosts : Join(n, h))
             \/ (\E h \in Hosts : LateEnds(h) \/ LateBase(h)) \/ UNCHANGED dvars
    BY <2>3 DEF Begin, GiveUp, Join, LateEnds, LateBase, dvars
  <2>. QED
    BY <2>1, <2>2, <2>3 DEF DNext
<1>. QED
  BY <1>1, <1>2, JobsStartTyped, JobsStayTyped, PTL DEF DSpec, HSpec

(* No interleaving of a deploy's jobs trusts a second key of a host.       *)
THEOREM DeployTrustsOnce == DSpec => TrustOnce
BY DeployUsesPins, NeverASecondKey

(* A host that still has the keys that are pinned for it is not turned     *)
(* away, whichever jobs race to pin its first key.                         *)
THEOREM DeployStillWelcome ==
  ASSUME \A s, t \in KeySets : s # t => s \cap t = {}
  PROVE  DSpec => NotLockedOut
BY DeployUsesPins, StillWelcome

-----------------------------------------------------------------------------
(* The jobs and their connections. *)

(* A job past its first connection was accepted there, ...                 *)
Accepted == \A i \in Jobs : pc[i] \notin {"waiting", "arch", "failed", "zero", "hung"} =>
              conn[Conn(i)].at = "accepted"

(* ... each dialled the address of its node, ...                           *)
Addressed == \A i \in Jobs : Dialled(i) =>
               Address(opts.names[i]) # None /\ Node(i) = Address(opts.names[i])

(* ... and later deploys find their connections unused.                    *)
FreshRuns == \A r \in Runs, i \in Nat : r > run /\ <<r, i>> \in Conns => conn[<<r, i>>] = Unused

Tied == HTypeOK /\ JobsTyped /\ Accepted /\ Addressed /\ FreshRuns

(* A connection that is under way has a host, and is not Unused.           *)
LEMMA Hosted ==
  ASSUME HTypeOK, NEW c \in Conns
  PROVE  /\ conn[c].at # "unused" <=> conn[c] # Unused
         /\ conn[c] # Unused => conn[c].host \in Hosts
BY ConnCases DEF HTypeOK, ConnStates, Unused

(* What a job does to the connections, and what else of it.                *)
LEMMA Dialling ==
  ASSUME HTypeOK, JobsTyped, NEW i \in Jobs, Dial(i) \/ DialFails(i)
  PROVE  /\ pc[i] = "arch" /\ server' = server
         /\ UNCHANGED <<nodes, told, run, opts, pc, disk, writers, crossed, changes>>
         /\ clean' => Dial(i) /\ clean
         /\ \A c \in Conns \ {Conn(i)} : conn'[c] = conn[c]
         /\ conn[Conn(i)].at \in {"unused", "read", "pin"}
         /\ conn'[Conn(i)] # Unused
         /\ conn[Conn(i)] # Unused => conn'[Conn(i)].host = conn[Conn(i)].host
         /\ conn[Conn(i)] = Unused =>
              /\ Address(opts.names[i]) # None /\ Address(opts.names[i]) \in Hosts
              /\ Read(Conn(i), Address(opts.names[i]))
              /\ conn'[Conn(i)].host = Address(opts.names[i])
<1> DEFINE c == Conn(i)
<1>1. c \in Conns
  BY DEF JobsTyped
<1>2. /\ pc[i] = "arch"
      /\ UNCHANGED <<nodes, told, run, opts, pc, disk, writers, crossed, changes>>
      /\ clean' => Dial(i) /\ clean
  BY DEF Dial, DialFails, runVars, Fails
<1>3. Address(opts.names[i]) \in Hosts \cup {None}
  BY JobNumbers, Addresses DEF JobsTyped, Address
<1>4. CASE Address(opts.names[i]) # None /\ Read(c, Address(opts.names[i]))
  <2> HIDE DEF c
  <2>1. conn[c] = Unused /\ conn[c].at = "unused"
    BY <1>4 DEF Read, Unused
  <2>2. conn' = [conn EXCEPT ![c] = [at |-> "read", host |-> Address(opts.names[i]),
                                     snap |-> known[Address(opts.names[i])]]]
        /\ server' = server
    BY <1>4 DEF Read
  <2>3. conn'[c].at = "read" /\ conn'[c].host = Address(opts.names[i])
    BY <1>1, <2>2 DEF HTypeOK
  <2>4. conn'[c] # Unused /\ \A e \in Conns \ {c} : conn'[e] = conn[e]
    BY <2>2, <2>3 DEF HTypeOK, Unused
  <2>. QED
    BY <1>2, <1>3, <1>4, <2>1, <2>2, <2>3, <2>4 DEF c
<1>5. CASE Handshake(c) \/ Pin(c) \/ ConnFails(c)
  <2> HIDE DEF c
  <2>1. conn[c].at \in {"read", "pin"} /\ server' = server
    BY <1>5 DEF Handshake, Pin, ConnFails
  <2>2. conn[c] # Unused
    BY <2>1 DEF Unused
  <2>3. /\ \A d \in Conns \ {c} : conn'[d] = conn[d]
        /\ conn'[c].host = conn[c].host
        /\ conn'[c].at \in {"failed", "accepted", "pin", "rejected"}
    <3>1. CASE Handshake(c)
      BY <1>1, <3>1, HandshakeLeaves
    <3>2. CASE Pin(c)
      BY <1>1, <3>2, PinLeaves
    <3>3. CASE ConnFails(c)
      BY <1>1, <3>3 DEF ConnFails, HTypeOK
    <3>. QED
      BY <1>5, <3>1, <3>2, <3>3
  <2>4. conn'[c] # Unused
    BY <2>3 DEF Unused
  <2>. QED
    BY <1>2, <2>1, <2>2, <2>3, <2>4 DEF c
<1>. QED
  BY <1>4, <1>5 DEF Dial, DialFails, Connecting

(* Whoever dials, a job that has dialled stays where it is, and one that   *)
(* was accepted stays so, until the next deploy.                           *)
LEMMA StaysDialled ==
  ASSUME HTypeOK, JobsTyped, NEW i \in Jobs, Dial(i) \/ DialFails(i), NEW j \in Jobs
  PROVE  /\ Dialled(j) => Dialled(j)' /\ Node(j)' = Node(j)
         /\ pc[j] # "arch" => conn'[Conn(j)] = conn[Conn(j)]
         /\ conn[Conn(j)].at = "accepted" => conn'[Conn(j)] = conn[Conn(j)]
<1>1. Conn(j) \in Conns /\ Conn(i) \in Conns /\ run' = run
  BY Dialling DEF JobsTyped
<1>2. CASE j = i
  BY <1>1, <1>2, Dialling DEF Dialled, Node, Conn
<1>3. CASE j # i
  <2>1. Conn(j) # Conn(i)
    BY <1>3 DEF Conn
  <2>. QED
    BY <1>1, <2>1, Dialling DEF Dialled, Node, Conn
<1>. QED
  BY <1>2, <1>3

(* An accepted job got there by its connection.                            *)
LEMMA Arrives ==
  ASSUME JobsTyped, Accepted, NEW i \in Jobs,
         JobStep(i) \/ DialFails(i) \/ StageFails(i) \/ Panic(i) \/ Hang(i)
  PROVE  pc'[i] \in {"waiting", "arch", "failed", "zero", "hung"} \/ conn[Conn(i)].at = "accepted"
<1> USE DEF Goes, Hopeless, Command, JobsTyped, Jobs
<1>1. CASE Spawn(i) \/ NoAddress(i) \/ Arch(i)
  BY <1>1 DEF Spawn, NoAddress, Arch
<1>2. CASE Base(i) \/ Unsupported(i) \/ Stage(i) \/ Staged(i) \/ Chmod(i) \/ Move(i) \/ Test(i)
  BY <1>2 DEF Base, Unsupported, Stage, Staged, Chmod, Move, Test, Accepted
<1>3. CASE KeyInit(i) \/ Config(i) \/ Install(i)
  BY <1>3 DEF KeyInit, Config, Install, Accepted
<1>4. CASE StageFails(i) \/ Panic(i) \/ Hang(i)
  BY <1>4 DEF StageFails, Panic, Hang
<1>5. CASE Dial(i) \/ DialFails(i)
  BY <1>5 DEF Dial, DialFails, runVars
<1>. QED
  BY <1>1, <1>2, <1>3, <1>4, <1>5 DEF JobStep

LEMMA TiedStarts == DInit => Accepted /\ Addressed /\ FreshRuns
<1> SUFFICES ASSUME DInit PROVE Accepted /\ Addressed /\ FreshRuns
  OBVIOUS
<1>1. Jobs = {} /\ conn = [c \in Conns |-> Unused]
  BY DEF DInit, HInit, Jobs
<1>. QED
  BY <1>1 DEF Accepted, Addressed, FreshRuns

LEMMA TiedStays ==
  ASSUME Tied, [DNext]_dvars
  PROVE  Accepted' /\ Addressed' /\ FreshRuns'
<1> USE DEF Tied
<1>0. JobsTyped'
  BY JobsStayTyped
<1>1. ASSUME UNCHANGED <<conn, run, nodes, opts, pc>>
      PROVE  Accepted' /\ Addressed' /\ FreshRuns'
  BY <1>1 DEF Accepted, Addressed, FreshRuns, Jobs, Dialled, Node, Conn, Address
<1>2. ASSUME NEW i \in Jobs, JobStep(i) \/ DialFails(i) \/ StageFails(i) \/ Panic(i) \/ Hang(i),
             UNCHANGED <<hostVars, nodes, run, opts>>,
             NEW to, pc' = [pc EXCEPT ![i] = to]
      PROVE  Accepted' /\ Addressed' /\ FreshRuns'
  <2>1. conn' = conn /\ Jobs' = Jobs
    BY <1>2 DEF hostVars, Jobs, JobsTyped
  <2>2. Accepted'
    BY <1>2, <2>1, Arrives DEF Accepted, Conn, JobsTyped, Jobs
  <2>. QED
    BY <1>2, <2>1, <2>2 DEF Addressed, FreshRuns, Dialled, Node, Conn, Address
<1>3. ASSUME NEW i \in Jobs, Dial(i) \/ DialFails(i)
      PROVE  Accepted' /\ Addressed' /\ FreshRuns'
  <2>1. UNCHANGED <<nodes, run, opts, pc>>
    BY <1>3, Dialling
  <2>2. Accepted'
    BY <1>3, <2>1, StaysDialled DEF Accepted, Jobs, Conn
  <2>3. Addressed'
    <3> SUFFICES ASSUME NEW j \in Jobs, Dialled(j)'
                 PROVE  Address(opts.names[j]) # None /\ Node(j)' = Address(opts.names[j])
      BY <2>1 DEF Addressed, Jobs, Address
    <3>1. CASE Dialled(j)
      BY <1>3, <3>1, StaysDialled DEF Addressed
    <3>2. CASE ~Dialled(j)
      <4>1. j = i
        <5>1. Conn(j) \in Conns /\ conn'[Conn(j)] # conn[Conn(j)]
          BY <2>1, <3>2 DEF Dialled, Conn, JobsTyped
        <5>2. Conn(j) = Conn(i)
          BY <1>3, <5>1, Dialling
        <5>. QED
          BY <5>2 DEF Conn
      <4>. QED
        BY <1>3, <2>1, <3>2, <4>1, Dialling DEF Dialled, Node, Conn
    <3>. QED
      BY <3>1, <3>2
  <2>4. FreshRuns'
    <3> SUFFICES ASSUME NEW r \in Runs, NEW k \in Nat, r > run, <<r, k>> \in Conns
                 PROVE  conn'[<<r, k>>] = Unused
      BY <2>1 DEF FreshRuns
    <3>1. <<r, k>> # Conn(i)
      BY BoundsOfDeploy DEF Conn, JobsTyped, Runs
    <3>. QED
      BY <1>3, <3>1, Dialling DEF FreshRuns
  <2>. QED
    BY <2>2, <2>3, <2>4
<1>4. CASE Begin
  <2>1. /\ run' = run + 1 /\ run < MaxRuns /\ conn' = conn /\ nodes' = nodes
        /\ pc' = [i \in DOMAIN opts'.names |-> "waiting"]
    BY <1>4 DEF Begin, hostVars
  <2>2. \A i \in DOMAIN pc' : pc'[i] = "waiting"
    BY <2>1
  <2>3. run' \in Runs /\ run \in Nat /\ run' > run
    BY <2>1, BoundsOfDeploy DEF JobsTyped, Runs
  <2>4. \A i \in DOMAIN pc' : i \in Nat /\ <<run', i>> \in Conns
    BY <1>0, <2>1 DEF JobsTyped, Jobs, Conn, OptionSet
  <2>5. \A i \in DOMAIN pc' : conn'[<<run', i>>] = Unused
    BY <2>1, <2>3, <2>4 DEF FreshRuns
  <2>6. FreshRuns'
    BY <2>1, <2>3, BoundsOfDeploy DEF FreshRuns, JobsTyped, Runs
  <2>. QED
    BY <2>2, <2>5, <2>6 DEF Accepted, Addressed, Jobs, Dialled, Conn
<1>5. CASE GiveUp \/ \E n \in NodeNames, h \in Hosts : Join(n, h)
  <2>1. conn' = conn /\ run' = run /\ Jobs' = {}
    BY <1>5 DEF GiveUp, Join, hostVars, Jobs
  <2>. QED
    BY <2>1 DEF Accepted, Addressed, FreshRuns
<1>6. CASE Reinstalled \/ (\E h \in Hosts : LateEnds(h) \/ LateBase(h)) \/ UNCHANGED dvars
  BY <1>1, <1>6 DEF Reinstalled, Rekey, LateEnds, LateBase, dvars, runVars, hostVars
<1>7. ASSUME NEW i \in Jobs, JobStep(i) \/ DialFails(i) \/ StageFails(i) \/ Panic(i) \/ Hang(i)
      PROVE  Accepted' /\ Addressed' /\ FreshRuns'
  BY <1>2, <1>3, <1>7, JobMoves
<1>. QED
  BY <1>4, <1>5, <1>6, <1>7 DEF DNext

LEMMA AlwaysTied == DSpec => []Tied
<1>1. DInit => JobsTyped /\ Accepted /\ Addressed /\ FreshRuns
  BY JobsStartTyped, TiedStarts
<1>2. JobsTyped /\ Accepted /\ Addressed /\ FreshRuns /\ HTypeOK /\ [DNext]_dvars
        => (JobsTyped /\ Accepted /\ Addressed /\ FreshRuns)'
  BY JobsStayTyped, TiedStays DEF Tied
<1>3. (JobsTyped /\ Accepted /\ Addressed /\ FreshRuns) /\ HTypeOK <=> Tied
  BY DEF Tied
<1>. QED
  BY <1>1, <1>2, <1>3, DeployUsesPins, PinsTypeCorrect, PTL DEF DSpec

-----------------------------------------------------------------------------
(* The disks. *)

Places(h) == disk'[h].stage = disk[h].stage /\ disk'[h].bin = disk[h].bin

(* What is there beside the binaries is left alone; a provision script may *)
(* bring podman.                                                           *)
Rest(d, e) ==
  /\ d.podman => e.podman
  /\ Provisionable(d) => Provisionable(e)
  /\ e.key = d.key /\ e.cfg = d.cfg /\ e.unit = d.unit /\ e.timer = d.timer

(* A command of job i has had this effect, or failed with another.         *)
Done(i, to, effect) ==
  /\ pc' = [pc EXCEPT ![i] = to] /\ disk'[Node(i)] = effect
  /\ UNCHANGED <<clean, failures>>

Failed(i, effects) ==
  /\ pc' = [pc EXCEPT ![i] = "failed"] /\ disk'[Node(i)] \in effects
  /\ clean' = FALSE /\ failures' \in 0..MaxFailures

Disks == disk \in [Hosts -> Disk] /\ writers \in [Hosts -> SUBSET Writer] /\ failures \in 0..MaxFailures

LEMMA Commands ==
  ASSUME Disks, NEW i, Node(i) \in Hosts, NEW effect \in Disk, NEW next, NEW failed \in SUBSET Disk,
         Command(i, effect, next, failed)
  PROVE  /\ UNCHANGED <<hostVars, nodes, told, run, opts, crossed, changes>>
         /\ disk' \in [Hosts -> Disk] /\ \A g \in Hosts \ {Node(i)} : disk'[g] = disk[g]
         /\ Done(i, next, effect) \/ Failed(i, failed \cup {disk[Node(i)], effect})
BY BoundsOfDeploy DEF Disks, Command, Done, Failed, Goes, NoFault, Fails

(* A provision script that ends late.                                      *)
LEMMA LateBaseDoes ==
  ASSUME Disks, NEW h \in Hosts, LateBase(h)
  PROVE  /\ UNCHANGED <<hostVars, nodes, told, run, opts, pc, writers, clean, crossed, failures, changes>>
         /\ disk' \in [Hosts -> Disk]
         /\ \A g \in Hosts : Places(g) /\ Rest(disk[g], disk'[g])
<1> DEFINE d == disk[h]
<1>1. PICK e \in {[d EXCEPT !.apt = "free", !.podman = TRUE], [d EXCEPT !.apt = "free"],
                 [d EXCEPT !.apt = "broken"]} : disk' = [disk EXCEPT ![h] = e]
  BY DEF LateBase
<1>2. d \in Disk /\ d.apt = "busy"
  BY DEF Disks, LateBase
<1>3. e \in Disk /\ e.stage = d.stage /\ e.bin = d.bin /\ Rest(d, e)
  BY <1>1, <1>2 DEF Disk, Apt, Rest, Provisionable
<1>4. disk' \in [Hosts -> Disk] /\ disk'[h] = e /\ \A g \in Hosts \ {h} : disk'[g] = disk[g]
  BY <1>1, <1>3 DEF Disks
<1>5. \A g \in Hosts : Places(g) /\ Rest(disk[g], disk'[g])
  BY <1>3, <1>4 DEF Places, Rest
<1>. QED
  BY <1>4, <1>5 DEF LateBase

(* The steps that leave the binary, and where it is staged, alone.         *)
Upper(i) == Base(i) \/ Chmod(i) \/ Test(i) \/ KeyInit(i) \/ Config(i) \/ Install(i)

(* What a step of Upper leaves behind.                                     *)
Order == {<<"base", "stage">>, <<"chmod", "move">>, <<"test", "key">>, <<"key", "config">>,
          <<"key", "ok">>, <<"config", "install">>, <<"install", "ok">>}

Cannot(i) ==
  LET h == Node(i) IN
  \/ /\ pc[i] = "base" /\ ~disk[h].podman
     /\ disk[h].apt # "free" \/ \E j \in Jobs \ {i} : pc[j] = "base" /\ Node(j) = h
  \/ pc[i] = "chmod" /\ disk[h].stage = None
  \/ pc[i] = "key" /\ (~Runnable(h) \/ disk[h].key = Torn)
  \/ pc[i] = "install" /\ (~Runnable(h) \/ disk[h].cfg = Torn)

Keeps(d, e) ==
  /\ e.stage = d.stage /\ e.bin = d.bin
  /\ d.podman => e.podman
  /\ d.key = "made" => e.key = "made"
  /\ d.timer => e.timer

Next(i, to, d, e) ==
  /\ <<pc[i], to>> \in Order
  /\ pc[i] = "base" => e.podman
  /\ pc[i] = "key" => Runnable(Node(i)) /\ e.key = "made" /\ (to = "ok" => ~opts.boot)
  /\ e.cfg = IF pc[i] = "config" THEN Rendered(i) ELSE d.cfg
  /\ pc[i] # "install" => e.unit = d.unit
  /\ pc[i] = "install" => /\ e.timer /\ d.cfg # Torn
                          /\ e.unit = d.cfg \/ (e.unit = d.unit /\ d.unit \notin {None, Torn})

Leaving(i, to, d, e) ==
  /\ Keeps(d, e)
  /\ to = "failed" => ~clean' \/ Cannot(i)
  /\ clean' => clean /\ (e.key = Torn => d.key = Torn) /\ (Provisionable(d) => Provisionable(e))
  /\ to # "failed" => Next(i, to, d, e)

LEMMA UpperDoes ==
  ASSUME Disks, JobsTyped, NEW i \in Jobs, Node(i) \in Hosts, Upper(i)
  PROVE  /\ UNCHANGED <<hostVars, nodes, told, run, opts, crossed, changes, writers>>
         /\ disk' \in [Hosts -> Disk] /\ \A g \in Hosts \ {Node(i)} : disk'[g] = disk[g]
         /\ failures' \in 0..MaxFailures /\ clean' \in {clean, FALSE}
         /\ \E to \in (Stages \cup Ended) \ {"waiting", "arch"} :
              pc' = [pc EXCEPT ![i] = to] /\ Leaving(i, to, disk[Node(i)], disk'[Node(i)])
<1> DEFINE d == disk[Node(i)]
           Goal == /\ UNCHANGED <<hostVars, nodes, told, run, opts, crossed, changes, writers>>
                   /\ disk' \in [Hosts -> Disk] /\ \A g \in Hosts \ {Node(i)} : disk'[g] = disk[g]
                   /\ failures' \in 0..MaxFailures /\ clean' \in {clean, FALSE}
                   /\ \E to \in (Stages \cup Ended) \ {"waiting", "arch"} :
                        pc' = [pc EXCEPT ![i] = to] /\ Leaving(i, to, disk[Node(i)], disk'[Node(i)])
<1> SUFFICES Goal
  OBVIOUS
<1>0. d \in Disk /\ failures \in 0..MaxFailures /\ None # Torn /\ "made" \notin {None, Torn}
  BY NotData DEF Disks
<1>3. Keeps(d, d)
  BY DEF Keeps
<1>1. ASSUME NEW effect \in Disk, NEW next \in (Stages \cup Ended) \ {"waiting", "arch", "failed"},
             NEW failed \in SUBSET Disk,
             Command(i, effect, next, failed), UNCHANGED writers,
             \A e \in failed \cup {d, effect} : Keeps(d, e),
             effect.key = Torn => d.key = Torn, Provisionable(d) => Provisionable(effect),
             Next(i, next, d, effect)
      PROVE  Goal
  <2>1. /\ UNCHANGED <<hostVars, nodes, told, run, opts, crossed, changes>>
        /\ disk' \in [Hosts -> Disk] /\ \A g \in Hosts \ {Node(i)} : disk'[g] = disk[g]
        /\ Done(i, next, effect) \/ Failed(i, failed \cup {d, effect})
    BY <1>1, Commands
  <2>2. CASE Done(i, next, effect)
    <3>1. Leaving(i, next, d, effect)
      BY <1>1, <2>2 DEF Leaving, Done
    <3>. QED
      BY <1>0, <1>1, <2>1, <2>2, <3>1 DEF Done
  <2>3. CASE Failed(i, failed \cup {d, effect})
    <3>1. Leaving(i, "failed", d, disk'[Node(i)])
      BY <1>1, <2>3 DEF Leaving, Failed
    <3>. QED
      BY <1>1, <2>1, <2>3, <3>1 DEF Failed, Ended
  <2>. QED
    BY <2>1, <2>2, <2>3
<1>2. ASSUME Hopeless(i), Cannot(i) PROVE Goal
  <2>1. /\ UNCHANGED <<hostVars, nodes, told, run, opts, crossed, changes, writers, disk, failures, clean>>
        /\ pc' = [pc EXCEPT ![i] = "failed"]
    BY <1>2 DEF Hopeless, Goes
  <2>2. Leaving(i, "failed", d, d)
    BY <1>2, <1>3, <2>1 DEF Leaving
  <2>. QED
    BY <1>0, <2>1, <2>2 DEF Disks, Ended
<1> HIDE DEF Goal
<1>4. CASE Base(i)
  <2> DEFINE e == [d EXCEPT !.podman = TRUE]
             cut == {[d EXCEPT !.apt = a] : a \in {"busy", "broken"}}
             failed == IF d.podman THEN {} ELSE cut
  <2>1. e \in Disk /\ Keeps(d, e) /\ e.key = d.key /\ Provisionable(e) /\ Next(i, "stage", d, e)
    BY <1>0, <1>4 DEF Base, Keeps, Next, Disk, Order, Provisionable
  <2>2. failed \in SUBSET Disk /\ \A f \in failed \cup {d, e} : Keeps(d, f)
    <3>1. \A f \in cut : f \in Disk /\ Keeps(d, f)
      BY <1>0 DEF Disk, Apt, Keeps
    <3>. QED
      BY <1>3, <2>1, <3>1
  <2>3. CASE Command(i, e, "stage", failed) /\ UNCHANGED writers
    <3> HIDE DEF e, failed
    <3>. QED
      BY <1>1, <2>1, <2>2, <2>3 DEF Stages
  <2>4. CASE Hopeless(i) /\ Cannot(i)
    BY <1>2, <2>4
  <2>. QED
    BY <1>4, <2>3, <2>4 DEF Base, Cannot
<1>5. CASE Chmod(i)
  <2>1. CASE d.stage = None
    BY <1>2, <1>5, <2>1 DEF Chmod, Cannot
  <2>2. CASE d.stage # None
    <3>1. Next(i, "move", d, d) /\ {} \in SUBSET Disk
      BY <1>5 DEF Chmod, Next, Order
    <3>2. Command(i, d, "move", {}) /\ UNCHANGED writers
      BY <1>5, <2>2 DEF Chmod
    <3>. QED
      BY <1>0, <1>1, <1>3, <3>1, <3>2 DEF Stages
  <2>. QED
    BY <2>1, <2>2
<1>6. CASE Test(i)
  <2>1. Next(i, "key", d, d) /\ {} \in SUBSET Disk
    BY <1>6 DEF Test, Next, Order
  <2>2. Command(i, d, "key", {}) /\ UNCHANGED writers
    BY <1>6 DEF Test
  <2>. QED
    BY <1>0, <1>1, <1>3, <2>1, <2>2 DEF Stages
<1>7. CASE KeyInit(i)
  <2>1. CASE ~Runnable(Node(i)) \/ d.key = Torn
    BY <1>2, <1>7, <2>1 DEF KeyInit, Cannot
  <2>2. CASE Runnable(Node(i)) /\ d.key # Torn
    <3> DEFINE e == [d EXCEPT !.key = "made"]
               next == IF opts.boot THEN "config" ELSE "ok"
               failed == IF d.key = None THEN {[d EXCEPT !.key = Torn]} ELSE {}
    <3>1. e \in Disk /\ failed \in SUBSET Disk
      BY <1>0 DEF Disk
    <3>2. \A f \in failed \cup {d, e} : Keeps(d, f)
      BY <1>0, <1>3 DEF Keeps, Disk
    <3>3. Next(i, next, d, e) /\ e.key # Torn /\ (Provisionable(d) => Provisionable(e))
      BY <1>0, <1>7, <2>2 DEF KeyInit, Next, Order, Disk, Provisionable
    <3>4. Command(i, e, next, failed) /\ UNCHANGED writers
      BY <1>7, <2>2 DEF KeyInit
    <3>5. next \in (Stages \cup Ended) \ {"waiting", "arch", "failed"}
      BY DEF Stages, Ended
    <3> HIDE DEF e, next, failed
    <3>. QED
      BY <1>1, <3>1, <3>2, <3>3, <3>4, <3>5
  <2>. QED
    BY <2>1, <2>2
<1>8. Rendered(i) \in Runs \X NodeNames
  BY JobNumbers DEF Rendered, JobsTyped
<1>9. CASE Config(i)
  <2> DEFINE e == [d EXCEPT !.cfg = Rendered(i)]
             failed == {[d EXCEPT !.cfg = Torn]}
  <2>1. e \in Disk /\ failed \in SUBSET Disk
    BY <1>0, <1>8 DEF Disk
  <2>2. \A f \in failed \cup {d, e} : Keeps(d, f)
    BY <1>0, <1>3 DEF Keeps, Disk
  <2>3. Next(i, "install", d, e) /\ e.key = d.key /\ (Provisionable(d) => Provisionable(e))
    BY <1>0, <1>9 DEF Config, Next, Order, Disk, Provisionable
  <2>4. Command(i, e, "install", failed) /\ UNCHANGED writers
    BY <1>9 DEF Config
  <2> HIDE DEF e, failed
  <2>. QED
    BY <1>1, <2>1, <2>2, <2>3, <2>4 DEF Stages
<1>10. CASE Install(i)
  <2>1. CASE ~Runnable(Node(i)) \/ d.cfg = Torn
    BY <1>2, <1>10, <2>1 DEF Install, Cannot
  <2>2. CASE Command(i, [d EXCEPT !.unit = d.cfg, !.timer = TRUE], "ok",
                     {[d EXCEPT !.unit = d.cfg], [d EXCEPT !.unit = Torn]})
             /\ d.cfg # Torn /\ pc[i] = "install" /\ UNCHANGED writers
    <3> DEFINE e == [d EXCEPT !.unit = d.cfg, !.timer = TRUE]
               failed == {[d EXCEPT !.unit = d.cfg], [d EXCEPT !.unit = Torn]}
    <3>1. e \in Disk /\ failed \in SUBSET Disk
      BY <1>0 DEF Disk
    <3>2. \A f \in failed \cup {d, e} : Keeps(d, f)
      BY <1>0, <1>3 DEF Keeps, Disk
    <3>3. Next(i, "ok", d, e) /\ e.key = d.key /\ (Provisionable(d) => Provisionable(e))
      BY <1>0, <2>2 DEF Next, Order, Disk, Provisionable
    <3> HIDE DEF e, failed
    <3>. QED
      BY <1>1, <2>2, <3>1, <3>2, <3>3 DEF Stages, Ended, e, failed
  <2>3. CASE /\ pc[i] = "install" /\ d.cfg # Torn /\ d.unit \notin {None, Torn}
             /\ disk' = [disk EXCEPT ![Node(i)].timer = TRUE]
             /\ Fails /\ Goes(i, "ok")
             /\ UNCHANGED <<hostVars, nodes, told, run, opts, crossed, changes>> /\ UNCHANGED writers
    <3> DEFINE e == [d EXCEPT !.timer = TRUE]
    <3>0. e \in Disk
      BY <1>0 DEF Disk
    <3>1. disk' = [disk EXCEPT ![Node(i)] = e]
      <4>1. disk' = [disk EXCEPT ![Node(i)] = [disk[Node(i)] EXCEPT !.timer = TRUE]]
        BY <2>3 DEF Disks
      <4>. QED
        BY <4>1
    <3>2. /\ Leaving(i, "ok", d, e) /\ clean' = FALSE /\ failures' \in 0..MaxFailures
          /\ pc' = [pc EXCEPT ![i] = "ok"]
      <4>1. Keeps(d, e) /\ Next(i, "ok", d, e)
        BY <1>0, <2>3 DEF Keeps, Next, Order, Disk
      <4>. QED
        BY <1>0, <2>3, <4>1, BoundsOfDeploy DEF Leaving, Fails, Goes
    <3> HIDE DEF e
    <3>. QED
      BY <2>3, <3>0, <3>1, <3>2 DEF Goal, Disks, Ended
  <2>. QED
    BY <1>10, <2>1, <2>2, <2>3 DEF Install
<1>. QED
  BY <1>4, <1>5, <1>6, <1>7, <1>9, <1>10 DEF Upper, Goal

(* The files that a deploy writes.                                         *)
LEMMA Files ==
  /\ \A f \in File : f # None /\ [f EXCEPT !.whole = TRUE] \in File
  /\ JobsTyped => \A h \in Hosts, v \in 0..MaxRuns \cup {Mixed}, whole \in BOOLEAN :
       Binary(h, v, whole) \in File /\ Binary(h, v, whole) # None
<1>1. MaxRuns \in Nat
  BY BoundsOfDeploy
<1>2. None \notin [v : Nat \cup {Mixed}, whole : BOOLEAN, arch : Archs, upload : BOOLEAN]
  BY NotData
<1>3. File \subseteq [v : Nat \cup {Mixed}, whole : BOOLEAN, arch : Archs, upload : BOOLEAN]
  BY <1>1 DEF File
<1>4. ASSUME NEW f \in File PROVE [f EXCEPT !.whole = TRUE] \in File
  BY DEF File
<1>5. ASSUME JobsTyped, NEW h \in Hosts, NEW v \in 0..MaxRuns \cup {Mixed}, NEW whole \in BOOLEAN
      PROVE  Binary(h, v, whole) \in File
  <2>1. opts.upload \in Archs \cup {None} /\ ArchOf[h] \in Archs
    BY <1>5, ArchTyped DEF JobsTyped, OptionSet
  <2>. QED
    BY <2>1 DEF Binary, File
<1>. QED
  BY <1>2, <1>3, <1>4, <1>5

(* A job up to its first connection leaves the node alone, and so does one *)
(* that a release has no binary for.                                       *)
LEMMA StartDoes ==
  ASSUME Disks, JobsTyped, NEW i \in Jobs, Spawn(i) \/ NoAddress(i) \/ Arch(i) \/ Unsupported(i)
  PROVE  /\ UNCHANGED <<hostVars, nodes, told, run, opts, disk, writers, crossed, changes>>
         /\ failures' \in 0..MaxFailures /\ clean' \in {clean, FALSE}
         /\ pc[i] \in {"waiting", "arch", "stage"}
         /\ \E to \in {"arch", "base", "failed"} :
              /\ pc' = [pc EXCEPT ![i] = to]
              /\ to = "failed" => \/ ~clean' \/ Address(opts.names[i]) = None
                                  \/ conn[Conn(i)].at \in {"rejected", "failed"}
                                  \/ pc[i] = "stage" /\ ~Suits(opts, Node(i))
<1>0. failures \in 0..MaxFailures
  BY DEF Disks
<1>1. CASE Spawn(i)
  BY <1>0, <1>1 DEF Spawn, Goes
<1>2. CASE NoAddress(i)
  BY <1>0, <1>2 DEF NoAddress, Goes, Hopeless
<1>4. CASE Unsupported(i)
  BY <1>0, <1>4 DEF Unsupported, Goes, Hopeless, Suits
<1>3. CASE Arch(i)
  <2>1. \/ conn[Conn(i)].at = "accepted" /\ Goes(i, "base") /\ NoFault
        \/ conn[Conn(i)].at = "accepted" /\ Goes(i, "failed") /\ Fails
        \/ conn[Conn(i)].at \in {"rejected", "failed"} /\ Goes(i, "failed") /\ NoFault
    BY <1>3 DEF Arch
  <2>2. Fails => failures' \in 0..MaxFailures /\ clean' = FALSE
    BY <1>0, BoundsOfDeploy DEF Fails
  <2>3. NoFault => failures' = failures /\ clean' = clean
    BY DEF NoFault
  <2>4. /\ UNCHANGED <<hostVars, nodes, told, run, opts, disk, writers, crossed, changes>>
        /\ pc[i] = "arch"
    BY <1>3 DEF Arch
  <2>. QED
    BY <1>0, <2>1, <2>2, <2>3, <2>4 DEF Goes
<1>. QED
  BY <1>1, <1>2, <1>3, <1>4

(* The mv takes the staged file and its writers along.                     *)
LEMMA MoveDoes ==
  ASSUME Disks, JobsTyped, NEW i \in Jobs, Node(i) \in Hosts, Move(i)
  PROVE  LET h == Node(i)
             d == disk[h]
             moved == [d EXCEPT !.stage = None, !.bin = d.stage]
         IN
         /\ UNCHANGED <<hostVars, nodes, told, run, opts, crossed, changes>>
         /\ failures' \in 0..MaxFailures /\ clean' \in {clean, FALSE} /\ pc[i] = "move"
         /\ disk' \in [Hosts -> Disk] /\ \A g \in Hosts \ {h} : disk'[g] = disk[g]
         /\ \E to \in {"test", "failed"} :
              /\ pc' = [pc EXCEPT ![i] = to]
              /\ to = "failed" => ~clean' \/ d.stage = None
              /\ to = "test" => disk'[h] = moved /\ d.stage # None
         /\ \/ disk'[h] = d /\ writers' = writers
            \/ /\ disk'[h] = moved /\ d.stage # None
               /\ writers' = [writers EXCEPT ![h] = Moved(@)]
<1> DEFINE h == Node(i)
           d == disk[h]
           moved == [d EXCEPT !.stage = None, !.bin = d.stage]
<1>1. moved \in Disk /\ pc[i] = "move" /\ failures \in 0..MaxFailures
  BY DEF Disks, Disk, Move
<1>2. CASE d.stage = None
  BY <1>1, <1>2 DEF Move, Hopeless, Goes, Disks
<1>3. CASE d.stage # None
  <2>1. /\ Command(i, moved, "test", {})
        /\ writers' = IF disk'[h] = disk[h] THEN writers ELSE [writers EXCEPT ![h] = Moved(@)]
    BY <1>3 DEF Move
  <2>2. /\ UNCHANGED <<hostVars, nodes, told, run, opts, crossed, changes>>
        /\ disk' \in [Hosts -> Disk] /\ \A g \in Hosts \ {h} : disk'[g] = disk[g]
        /\ Done(i, "test", moved) \/ Failed(i, {} \cup {d, moved})
    BY <1>1, <2>1, Commands
  <2>3. moved # d
    BY <1>3 DEF Disks, Disk
  <2> HIDE DEF moved
  <2>4. CASE Done(i, "test", moved)
    BY <1>1, <1>3, <2>1, <2>2, <2>3, <2>4 DEF Done, moved
  <2>5. CASE Failed(i, {} \cup {d, moved})
    BY <1>1, <1>3, <2>1, <2>2, <2>3, <2>5 DEF Failed, moved
  <2>. QED
    BY <2>2, <2>4, <2>5
<1>. QED
  BY <1>2, <1>3

(* The writer of a job, while it stages. *)
Me(i) == [job |-> i, v |-> run, on |-> "stage"]

(* A job's writer is its only one, and writes on while the job waits.      *)
OneWriter == \A h \in Hosts : \A v, w \in writers[h] : v.job = w.job /\ w.job # Late => v = w

WritersFit ==
  \A h \in Hosts : \A w \in writers[h] :
    /\ disk[h][w.on] # None
    /\ w.job # Late => w.job \in Jobs /\ pc[w.job] = "staging" /\ Node(w.job) = h

RestTyped ==
  /\ told \in [NodeNames -> Hosts \cup {None}]
  /\ clean \in BOOLEAN /\ crossed \in SUBSET Hosts /\ changes \in 0..MaxChanges

LEMMA TypesOfDeploy ==
  DTypeOK /\ JobsTyped <=> HTypeOK /\ JobsTyped /\ Disks /\ RestTyped /\ WritersFit
BY DEF DTypeOK, JobsTyped, Disks, RestTyped, WritersFit

(* A node where a job is past the architecture.                            *)
LEMMA NodeOf ==
  ASSUME Tied, NEW i \in Jobs, pc[i] \notin {"waiting", "arch", "failed", "zero", "hung"}
  PROVE  Node(i) \in Hosts /\ Dialled(i) /\ conn[Conn(i)].at = "accepted"
<1>1. Conn(i) \in Conns /\ conn[Conn(i)].at = "accepted"
  BY DEF Tied, Accepted, JobsTyped
<1>. QED
  BY <1>1, Hosted DEF Tied, Node, Dialled

(* The fit of the writers, told in full.                                   *)
Fits(h, w) ==
  /\ w.on = "stage" => disk[h].stage # None
  /\ w.on = "bin" => disk[h].bin # None
  /\ w.job # Late => w.job \in Jobs /\ pc[w.job] = "staging" /\ Node(w.job) = h

AllFit == \A h \in Hosts : \A w \in writers[h] : Fits(h, w)

LEMMA Fitting == Disks => (WritersFit <=> AllFit)
<1> SUFFICES ASSUME Disks PROVE WritersFit <=> AllFit
  OBVIOUS
<1>1. ASSUME NEW h \in Hosts, NEW w \in writers[h]
      PROVE  disk[h][w.on] # None <=> /\ w.on = "stage" => disk[h].stage # None
                                      /\ w.on = "bin" => disk[h].bin # None
  <2>1. w.on = "stage" \/ w.on = "bin"
    BY DEF Disks, Writer
  <2>. QED
    BY <2>1
<1>. QED
  BY <1>1 DEF WritersFit, AllFit, Fits

(* What a write that ends, or is begun, puts on the disk.                  *)
LEMMA Puts ==
  ASSUME Disks, NEW h \in Hosts, NEW on \in {"stage", "bin"}, NEW file, Put(on, h, file)
  PROVE  /\ \A g \in Hosts \ {h} : disk'[g] = disk[g]
         /\ on = "stage" => disk' = [disk EXCEPT ![h] = [disk[h] EXCEPT !.stage = file]]
         /\ on = "bin" => disk' = [disk EXCEPT ![h] = [disk[h] EXCEPT !.bin = file]]
         /\ file \in File => disk' \in [Hosts -> Disk]
<1>1. CASE on = "stage"
  <2>1. disk' = [disk EXCEPT ![h] = [disk[h] EXCEPT !.stage = file]]
    BY <1>1 DEF Put, Disks
  <2>2. file \in File => [disk[h] EXCEPT !.stage = file] \in Disk
    BY DEF Disks, Disk
  <2>. QED
    BY <1>1, <2>1, <2>2 DEF Disks
<1>2. CASE on = "bin"
  <2>1. disk' = [disk EXCEPT ![h] = [disk[h] EXCEPT !.bin = file]]
    BY <1>2 DEF Put, Disks
  <2>2. file \in File => [disk[h] EXCEPT !.bin = file] \in Disk
    BY DEF Disks, Disk
  <2>. QED
    BY <1>2, <2>1, <2>2 DEF Disks
<1>. QED
  BY <1>1, <1>2

(* What a job of deployOne does between the stage and the mv.              *)
LEMMA StageDoes ==
  ASSUME Disks, JobsTyped, NEW i \in Jobs, Node(i) \in Hosts, Stage(i)
  PROVE  LET h == Node(i)
             met == {w \in writers[h] : w.on = "stage" /\ opts.upload = None}
             others == {j \in Jobs \ {i} : pc[j] \in {"staging", "chmod", "move"} /\ Node(j) = h}
         IN
         /\ UNCHANGED <<hostVars, nodes, told, run, opts, clean, failures, changes>>
         /\ pc[i] = "stage" /\ pc' = [pc EXCEPT ![i] = "staging"]
         /\ disk' \in [Hosts -> Disk] /\ \A g \in Hosts \ {h} : disk'[g] = disk[g]
         /\ \E v \in {run, Mixed} :
              /\ disk'[h] = [disk[h] EXCEPT !.stage = Binary(h, v, FALSE)]
              /\ met = {} => v = run
         /\ disk'[h].stage # None
         /\ writers' = [writers EXCEPT ![h] = {w \in @ : w.on = "bin"} \cup met \cup {Me(i)}]
         /\ writers' \in [Hosts -> SUBSET Writer]
         /\ crossed' = IF met # {} \/ others # {} THEN crossed \cup {h} ELSE crossed
<1> DEFINE h == Node(i)
           met == {w \in writers[h] : w.on = "stage" /\ opts.upload = None}
<1>1. PICK v \in {run, Mixed} :
        Put("stage", h, Binary(h, v, FALSE)) /\ (met = {} => v = run)
  BY DEF Stage
<1>2. run \in Runs /\ run \in Nat
  BY BoundsOfDeploy DEF JobsTyped, Runs
<1>3. Binary(h, v, FALSE) \in File /\ Binary(h, v, FALSE) # None
  <2>1. v \in 0..MaxRuns \cup {Mixed}
    BY <1>2 DEF Runs
  <2>. QED
    BY <2>1, Files
<1>4. /\ disk' \in [Hosts -> Disk] /\ \A g \in Hosts \ {h} : disk'[g] = disk[g]
      /\ disk' = [disk EXCEPT ![h] = [disk[h] EXCEPT !.stage = Binary(h, v, FALSE)]]
  BY <1>1, <1>3, Puts
<1>5. /\ disk'[h] = [disk[h] EXCEPT !.stage = Binary(h, v, FALSE)]
      /\ disk'[h].stage # None
  BY <1>3, <1>4 DEF Disks, Disk
<1>6. Me(i) \in Writer
  BY <1>2, JobNumbers DEF Me, Writer
<1>7. writers' = [writers EXCEPT ![h] = {w \in @ : w.on = "bin"} \cup met \cup {Me(i)}]
  BY DEF Stage, Me
<1>8. writers' \in [Hosts -> SUBSET Writer]
  BY <1>6, <1>7 DEF Disks
<1>9. /\ UNCHANGED <<hostVars, nodes, told, run, opts, clean, failures, changes>>
      /\ pc[i] = "stage" /\ pc' = [pc EXCEPT ![i] = "staging"]
  BY DEF Stage, Goes
<1>10. crossed' = IF \/ met # {}
                     \/ {j \in Jobs \ {i} : pc[j] \in {"staging", "chmod", "move"} /\ Node(j) = h} # {}
                    THEN crossed \cup {h} ELSE crossed
  BY DEF Stage
<1>. QED
  BY <1>1, <1>4, <1>5, <1>7, <1>8, <1>9, <1>10

(* A write that ends makes its file whole, and its writer goes.            *)
LEMMA WrittenDoes ==
  ASSUME Disks, WritersFit, NEW h \in Hosts, NEW w \in writers[h], Written(h, w)
  PROVE  LET d == disk[h]
             e == disk'[h]
         IN
         /\ disk' \in [Hosts -> Disk] /\ \A g \in Hosts \ {h} : disk'[g] = disk[g]
         /\ w.on = "stage" => /\ d.stage # None /\ d.stage \in File
                              /\ e = [d EXCEPT !.stage = [d.stage EXCEPT !.whole = TRUE]]
                              /\ e.stage # None
         /\ w.on = "bin" => /\ d.bin # None /\ d.bin \in File
                            /\ e = [d EXCEPT !.bin = [d.bin EXCEPT !.whole = TRUE]]
                            /\ e.bin # None
<1>1. w.on \in {"stage", "bin"} /\ disk[h] \in Disk
  BY DEF Disks, Writer
<1>2. \A f \in File : [f EXCEPT !.whole = TRUE] \in File /\ f # None
  BY Files
<1>3. CASE w.on = "stage"
  <2>1. disk[h].stage \in File /\ Put("stage", h, [disk[h].stage EXCEPT !.whole = TRUE])
    BY <1>1, <1>3, Fitting DEF AllFit, Fits, Written, Disk
  <2>2. [disk[h].stage EXCEPT !.whole = TRUE] \in File
    BY <1>2, <2>1
  <2>3. /\ disk' \in [Hosts -> Disk] /\ \A g \in Hosts \ {h} : disk'[g] = disk[g]
        /\ disk'[h] = [disk[h] EXCEPT !.stage = [disk[h].stage EXCEPT !.whole = TRUE]]
    <3> DEFINE file == [disk[h].stage EXCEPT !.whole = TRUE]
    <3> HIDE DEF file
    <3>1. Put("stage", h, file) /\ file \in File
      BY <2>1, <2>2 DEF file
    <3>2. /\ disk' \in [Hosts -> Disk] /\ \A g \in Hosts \ {h} : disk'[g] = disk[g]
          /\ disk' = [disk EXCEPT ![h] = [disk[h] EXCEPT !.stage = file]]
      BY <3>1, Puts
    <3>. QED
      BY <3>2 DEF Disks, file
  <2>4. disk'[h].stage # None
    BY <1>1, <1>2, <2>2, <2>3 DEF Disk
  <2>. QED
    BY <1>2, <1>3, <2>1, <2>3, <2>4
<1>4. CASE w.on = "bin"
  <2>1. disk[h].bin \in File /\ Put("bin", h, [disk[h].bin EXCEPT !.whole = TRUE])
    BY <1>1, <1>4, Fitting DEF AllFit, Fits, Written, Disk
  <2>2. [disk[h].bin EXCEPT !.whole = TRUE] \in File
    BY <1>2, <2>1
  <2>3. /\ disk' \in [Hosts -> Disk] /\ \A g \in Hosts \ {h} : disk'[g] = disk[g]
        /\ disk'[h] = [disk[h] EXCEPT !.bin = [disk[h].bin EXCEPT !.whole = TRUE]]
    <3> DEFINE file == [disk[h].bin EXCEPT !.whole = TRUE]
    <3> HIDE DEF file
    <3>1. Put("bin", h, file) /\ file \in File
      BY <2>1, <2>2 DEF file
    <3>2. /\ disk' \in [Hosts -> Disk] /\ \A g \in Hosts \ {h} : disk'[g] = disk[g]
          /\ disk' = [disk EXCEPT ![h] = [disk[h] EXCEPT !.bin = file]]
      BY <3>1, Puts
    <3>. QED
      BY <3>2 DEF Disks, file
  <2>4. disk'[h].bin # None
    BY <1>1, <1>2, <2>2, <2>3 DEF Disk
  <2>. QED
    BY <1>2, <1>4, <2>1, <2>3, <2>4
<1>. QED
  BY <1>1, <1>3, <1>4

(* Fewer writers, or ones that are late, still fit.                        *)
LEMMA FewerFit ==
  ASSUME Tied, Disks, WritersFit, OneWriter, Disks', UNCHANGED <<run, opts, conn>>,
         \A h \in Hosts : /\ disk[h].stage # None => disk'[h].stage # None
                          /\ disk[h].bin # None => disk'[h].bin # None,
         \A j \in Jobs, h \in Hosts : \A w \in writers'[h] :
           w.job = j /\ pc[j] = "staging" => j \in Jobs' /\ pc'[j] = "staging",
         \A h \in Hosts : \A w \in writers'[h] :
           w \in writers[h] \/ (w.job = Late /\ \E v \in writers[h] : v.on = w.on)
  PROVE  WritersFit' /\ OneWriter'
<1>1. OneWriter'
  BY DEF OneWriter
<1>2. ASSUME NEW h \in Hosts, NEW w \in writers'[h]
      PROVE  Fits(h, w)'
  <2>1. PICK v \in writers[h] : v.on = w.on /\ (w.job # Late => v = w)
    BY <1>2
  <2>2. Fits(h, v)
    BY Fitting DEF AllFit
  <2>. QED
    BY <2>1, <2>2 DEF Fits, Node, Conn
<1>3. (Disks => (WritersFit <=> AllFit))'
  BY Fitting, PTL
<1>. QED
  BY <1>1, <1>2, <1>3 DEF AllFit

(* A writer that leaves leaves a file.                                     *)
LEMMA WrittenSpares ==
  ASSUME Disks, WritersFit, NEW h \in Hosts, NEW w \in writers[h], Written(h, w) \/ UNCHANGED disk
  PROVE  /\ disk' \in [Hosts -> Disk] /\ \A g \in Hosts \ {h} : disk'[g] = disk[g]
         /\ disk[h].stage # None => disk'[h].stage # None
         /\ disk[h].bin # None => disk'[h].bin # None
<1>1. CASE UNCHANGED disk
  BY <1>1 DEF Disks
<1>2. CASE Written(h, w)
  <2>1. w.on \in {"stage", "bin"} /\ disk[h] \in Disk
    BY DEF Disks, Writer
  <2>. QED
    BY <1>2, <2>1, WrittenDoes DEF Disk
<1>. QED
  BY <1>1, <1>2

(* The steps that start, end or move writes keep the types.                *)
LEMMA StagingTypes ==
  ASSUME Tied, Disks, RestTyped, WritersFit, OneWriter, NEW i \in Jobs,
         Stage(i) \/ Staged(i) \/ StageFails(i) \/ Move(i) \/ Panic(i) \/ Hang(i)
  PROVE  (Disks /\ RestTyped /\ WritersFit /\ OneWriter)'
<1> DEFINE h == Node(i)
<1>0. /\ HTypeOK /\ JobsTyped /\ Accepted /\ \A j \in Jobs : j \in Nat /\ j # Late
      /\ pc \in [Jobs -> Stages \cup Ended]
  BY JobNumbers DEF Tied, Late, JobsTyped
<1>1. ~Panic(i) /\ ~Hang(i) => h \in Hosts
  <2>1. ~Panic(i) /\ ~Hang(i) => pc[i] \in {"stage", "staging", "move"}
    BY DEF Stage, Staged, StageFails, Move
  <2>. QED
    BY <2>1, NodeOf
<1>2. (Disks => (WritersFit <=> AllFit))'
  BY Fitting, PTL
<1>3. \A g \in Hosts : \A w \in writers[g] :
        /\ w.on \in {"stage", "bin"} /\ Fits(g, w)
        /\ w.job # Late => w.job \in Jobs /\ pc[w.job] = "staging" /\ Node(w.job) = g
  BY Fitting DEF Disks, Writer, AllFit, Fits
<1>4. CASE Panic(i)
  <2>1. /\ UNCHANGED <<hostVars, nodes, told, run, opts, disk, crossed, changes>>
        /\ pc' = [pc EXCEPT ![i] = "zero"] /\ clean' = FALSE /\ failures' \in 0..MaxFailures
        /\ writers' = [g \in Hosts |-> {w \in writers[g] : w.job # i}]
    BY <1>4, BoundsOfDeploy DEF Panic, Fails, Goes, Disks
  <2>2. Disks' /\ RestTyped'
    BY <2>1 DEF Disks, RestTyped
  <2>3. \A j \in Jobs, g \in Hosts : \A w \in writers'[g] :
          w.job = j /\ pc[j] = "staging" => j \in Jobs' /\ pc'[j] = "staging"
    BY <1>0, <2>1 DEF Jobs
  <2>. QED
    BY <2>1, <2>2, <2>3, FewerFit DEF hostVars
<1>9. CASE Hang(i)
  <2>1. /\ UNCHANGED <<hostVars, nodes, told, run, opts, disk, writers, crossed, changes>>
        /\ pc' = [pc EXCEPT ![i] = "hung"] /\ pc[i] # "staging"
        /\ clean' = FALSE /\ failures' \in 0..MaxFailures
    BY <1>9, BoundsOfDeploy DEF Hang, Fails, Goes, Disks
  <2>2. Disks' /\ RestTyped'
    BY <2>1 DEF Disks, RestTyped
  <2>3. \A j \in Jobs, g \in Hosts : \A w \in writers'[g] :
          w.job = j /\ pc[j] = "staging" => j \in Jobs' /\ pc'[j] = "staging"
    BY <1>0, <2>1 DEF Jobs
  <2>. QED
    BY <2>1, <2>2, <2>3, FewerFit DEF hostVars
<1>5. CASE Stage(i)
  <2>1. /\ UNCHANGED <<hostVars, nodes, told, run, opts, clean, failures, changes>>
        /\ pc[i] = "stage" /\ pc' = [pc EXCEPT ![i] = "staging"]
        /\ disk' \in [Hosts -> Disk] /\ \A g \in Hosts \ {h} : disk'[g] = disk[g]
        /\ \E v : disk'[h] = [disk[h] EXCEPT !.stage = Binary(h, v, FALSE)]
        /\ disk'[h].stage # None
        /\ writers' \in [Hosts -> SUBSET Writer]
        /\ \A g \in Hosts \ {h} : writers'[g] = writers[g]
        /\ writers'[h] \subseteq writers[h] \cup {Me(i)}
        /\ crossed' \in {crossed, crossed \cup {h}}
    <3>1. Node(i) \in Hosts /\ JobsTyped
      BY <1>0, <1>1, <1>5, NodeOf DEF Stage
    <3> DEFINE met == {w \in writers[h] : w.on = "stage" /\ opts.upload = None}
               others == {j \in Jobs \ {i} : pc[j] \in {"staging", "chmod", "move"} /\ Node(j) = h}
               stays == {w \in writers[h] : w.on = "bin"} \cup met
    <3>2. /\ UNCHANGED <<hostVars, nodes, told, run, opts, clean, failures, changes>>
          /\ pc[i] = "stage" /\ pc' = [pc EXCEPT ![i] = "staging"]
          /\ disk' \in [Hosts -> Disk] /\ \A g \in Hosts \ {h} : disk'[g] = disk[g]
          /\ \E v \in {run, Mixed} : disk'[h] = [disk[h] EXCEPT !.stage = Binary(h, v, FALSE)]
          /\ disk'[h].stage # None
          /\ writers' = [writers EXCEPT ![h] = stays \cup {Me(i)}]
          /\ writers' \in [Hosts -> SUBSET Writer]
          /\ crossed' = IF met # {} \/ others # {} THEN crossed \cup {h} ELSE crossed
      BY <1>5, <3>1, StageDoes
    <3>3. stays \subseteq writers[h]
      OBVIOUS
    <3>4. crossed' \in {crossed, crossed \cup {h}}
      BY <3>2
    <3> HIDE DEF met, others, stays
    <3>. QED
      BY <3>1, <3>2, <3>3, <3>4 DEF Disks
  <2>2. Disks' /\ RestTyped'
    BY <1>1, <1>5, <2>1 DEF Disks, RestTyped, Stage
  <2>3. disk'[h].bin = disk[h].bin
    BY <1>1, <1>5, <2>1 DEF Disks, Disk, Stage
  <2>4. \A g \in Hosts : \A w \in writers[g] : w.job # i
    BY <1>0, <1>3, <2>1
  <2>5. Node(i)' = h /\ \A j \in Jobs : Node(j)' = Node(j)
    BY <2>1 DEF Node, Conn, hostVars
  <2>6. Me(i).job = i /\ Me(i).on = "stage"
    BY DEF Me
  <2>7. OneWriter'
    BY <2>1, <2>4, <2>6 DEF OneWriter
  <2>8. ASSUME NEW g \in Hosts, NEW w \in writers'[g]
        PROVE  Fits(g, w)'
    <3>1. CASE g = h /\ w = Me(i)
      BY <1>0, <2>1, <2>5, <2>6, <3>1 DEF Fits, Jobs
    <3>2. CASE w \in writers[g]
      <4>1. Fits(g, w) /\ w.job # i
        BY <1>3, <2>4, <3>2
      <4>2. disk[g].stage # None => disk'[g].stage # None
        BY <2>1
      <4>3. disk'[g].bin = disk[g].bin
        BY <2>1, <2>3
      <4>4. w.job # Late => w.job \in Jobs' /\ pc'[w.job] = "staging" /\ Node(w.job)' = g
        BY <1>0, <2>1, <2>5, <4>1 DEF Fits, Jobs
      <4>. QED
        BY <4>1, <4>2, <4>3, <4>4 DEF Fits
    <3>. QED
      BY <2>1, <3>1, <3>2
  <2>. QED
    BY <1>2, <2>2, <2>7, <2>8 DEF AllFit
<1>6. CASE Staged(i)
  <2>1. /\ UNCHANGED <<hostVars, nodes, told, run, opts, clean, crossed, failures, changes>>
        /\ pc[i] = "staging" /\ \E to : pc' = [pc EXCEPT ![i] = to]
    BY <1>6 DEF Staged, Goes
  <2> DEFINE mine == {w \in writers[h] : w.job = i}
  <2>2. h \in Hosts
    BY <2>1, NodeOf
  <2>3. \A g \in Hosts \ {h} : \A w \in writers[g] : w.job # i
    BY <1>0, <1>3
  <2>4. \A g \in Hosts : \A v, w \in writers[g] : v.job = i /\ w.job = i => v = w
    BY <1>0 DEF OneWriter
  <2>5. /\ disk' \in [Hosts -> Disk] /\ \A g \in Hosts \ {h} : disk'[g] = disk[g]
        /\ disk[h].stage # None => disk'[h].stage # None
        /\ disk[h].bin # None => disk'[h].bin # None
        /\ writers' \in [Hosts -> SUBSET Writer]
        /\ \A g \in Hosts : writers'[g] \subseteq writers[g] /\ \A w \in writers'[g] : w.job # i
    <3>1. CASE mine = {}
      BY <1>6, <2>2, <2>3, <3>1 DEF Staged, Disks
    <3>2. CASE mine # {}
      <4>1. PICK w \in mine : Written(h, w) /\ Leaves(h, w)
        BY <1>6, <3>2 DEF Staged
      <4>2. /\ disk' \in [Hosts -> Disk] /\ \A g \in Hosts \ {h} : disk'[g] = disk[g]
            /\ disk[h].stage # None => disk'[h].stage # None
            /\ disk[h].bin # None => disk'[h].bin # None
        BY <2>2, <4>1, WrittenSpares
      <4>3. writers' = [writers EXCEPT ![h] = @ \ {w}]
        BY <4>1 DEF Leaves
      <4>. QED
        BY <2>2, <2>3, <2>4, <4>1, <4>2, <4>3 DEF Disks
    <3>. QED
      BY <3>1, <3>2
  <2>6. Disks' /\ RestTyped'
    BY <2>1, <2>5 DEF Disks, RestTyped
  <2>7. \A j \in Jobs, g \in Hosts : \A w \in writers'[g] :
          w.job = j /\ pc[j] = "staging" => j \in Jobs' /\ pc'[j] = "staging"
    BY <1>0, <2>1, <2>5 DEF Jobs
  <2>. QED
    BY <2>1, <2>2, <2>5, <2>6, <2>7, FewerFit DEF hostVars
<1>7. CASE StageFails(i)
  <2> DEFINE mine == {w \in writers[h] : w.job = i}
             late == {[w EXCEPT !.job = Late] : w \in mine}
  <2>1. /\ UNCHANGED <<hostVars, nodes, told, run, opts, disk, crossed, changes>>
        /\ pc[i] = "staging" /\ pc' = [pc EXCEPT ![i] = "failed"]
        /\ clean' = FALSE /\ failures' \in 0..MaxFailures
    BY <1>7, BoundsOfDeploy DEF StageFails, Fails, Goes, Disks
  <2>2. h \in Hosts
    BY <2>1, NodeOf
  <2>3. PICK left \in {{}, late} : writers' = [writers EXCEPT ![h] = (@ \ mine) \cup left]
    BY <1>7 DEF StageFails
  <2>4. \A w \in late : w \in Writer /\ w.job = Late /\ \E v \in writers[h] : v.on = w.on
    BY <2>2 DEF Disks, Writer, Late
  <2>5. \A g \in Hosts \ {h} : \A w \in writers[g] : w.job # i
    BY <1>0, <1>3
  <2>6. /\ writers' \in [Hosts -> SUBSET Writer]
        /\ \A g \in Hosts : \A w \in writers'[g] :
             /\ w \in writers[g] \/ (w.job = Late /\ \E v \in writers[g] : v.on = w.on)
             /\ w.job # i
    BY <1>0, <2>2, <2>3, <2>4, <2>5 DEF Disks
  <2>7. Disks' /\ RestTyped'
    BY <2>1, <2>6 DEF Disks, RestTyped
  <2>8. \A j \in Jobs, g \in Hosts : \A w \in writers'[g] :
          w.job = j /\ pc[j] = "staging" => j \in Jobs' /\ pc'[j] = "staging"
    BY <1>0, <2>1, <2>6 DEF Jobs
  <2>. QED
    BY <2>1, <2>6, <2>7, <2>8, FewerFit DEF hostVars
<1>8. CASE Move(i)
  <2>0. pc[i] = "move"
    BY <1>8 DEF Move
  <2>1. h \in Hosts
    BY <2>0, NodeOf
  <2> DEFINE moved == [disk[h] EXCEPT !.stage = None, !.bin = disk[h].stage]
  <2>2. /\ UNCHANGED <<hostVars, nodes, told, run, opts, crossed, changes>>
        /\ failures' \in 0..MaxFailures /\ clean' \in {clean, FALSE}
        /\ disk' \in [Hosts -> Disk] /\ \A g \in Hosts \ {h} : disk'[g] = disk[g]
        /\ \E to : pc' = [pc EXCEPT ![i] = to]
        /\ \/ disk'[h] = disk[h] /\ writers' = writers
           \/ /\ disk'[h] = moved /\ disk[h].stage # None
              /\ writers' = [writers EXCEPT ![h] = Moved(@)]
    BY <1>0, <1>8, <2>1, MoveDoes
  <2>3. \A j \in Jobs : pc[j] = "staging" => j \in Jobs' /\ pc'[j] = "staging"
    BY <1>0, <2>0, <2>2 DEF Jobs
  <2>4. CASE disk'[h] = disk[h] /\ writers' = writers
    <3>1. Disks' /\ RestTyped'
      BY <2>2, <2>4 DEF Disks, RestTyped
    <3>. QED
      BY <2>2, <2>3, <2>4, <3>1, FewerFit DEF hostVars
  <2>5. CASE /\ disk'[h] = moved /\ disk[h].stage # None
             /\ writers' = [writers EXCEPT ![h] = Moved(@)]
    <3>1. disk'[h].bin # None
      BY <2>1, <2>5 DEF Disks, Disk
    <3>2. \A w \in Moved(writers[h]) : /\ w \in Writer /\ w.on = "bin"
                                      /\ \E v \in writers[h] : v.on = "stage" /\ w = [v EXCEPT !.on = "bin"]
                                                               /\ v.job = w.job
      BY <2>1 DEF Moved, Disks, Writer
    <3>3. Disks' /\ RestTyped'
      BY <2>1, <2>2, <2>5, <3>2 DEF Disks, RestTyped
    <3>4. OneWriter'
      <4>1. \A v, w \in Moved(writers[h]) : v.job = w.job /\ w.job # Late => v = w
        BY <2>1, <3>2 DEF OneWriter
      <4>2. \A g \in Hosts : writers'[g] = IF g = h THEN Moved(writers[h]) ELSE writers[g]
        BY <2>1, <2>5 DEF Disks
      <4>. QED
        BY <4>1, <4>2 DEF OneWriter
    <3>5. ASSUME NEW g \in Hosts, NEW w \in writers'[g]
          PROVE  Fits(g, w)'
      <4>1. PICK v \in writers[g] : v.job = w.job /\ (g # h => v = w /\ disk'[g] = disk[g])
                                                 /\ (g = h => w.on = "bin")
        BY <2>1, <2>2, <2>5, <3>2 DEF Disks
      <4>2. w.job # Late => w.job \in Jobs' /\ pc'[w.job] = "staging" /\ Node(w.job)' = g
        BY <1>3, <2>2, <2>3, <4>1 DEF Node, Conn, hostVars
      <4>. QED
        BY <1>3, <3>1, <4>1, <4>2 DEF Fits
    <3>. QED
      BY <1>2, <3>3, <3>4, <3>5 DEF AllFit
  <2>. QED
    BY <2>2, <2>4, <2>5
<1>. QED
  BY <1>4, <1>5, <1>6, <1>7, <1>8, <1>9

Typed == Tied /\ Disks /\ RestTyped /\ WritersFit /\ OneWriter

(* Where the writers stay and no job of theirs moves, they fit still.      *)
LEMMA FitStays ==
  ASSUME Typed, UNCHANGED <<writers, run>>,
         \A h \in Hosts : Places(h),
         \A j \in Jobs : pc[j] = "staging" => j \in Jobs' /\ pc'[j] = "staging",
         \A j \in Jobs : pc[j] = "staging" => conn'[Conn(j)] = conn[Conn(j)],
         Disks'
  PROVE  WritersFit' /\ OneWriter'
<1>1. OneWriter'
  BY DEF Typed, OneWriter
<1>2. ASSUME NEW h \in Hosts, NEW w \in writers[h]
      PROVE  Fits(h, w)'
  <2>1. Fits(h, w)
    BY Fitting DEF Typed, AllFit
  <2>2. disk'[h].stage = disk[h].stage /\ disk'[h].bin = disk[h].bin
    BY DEF Places
  <2>3. ASSUME w.job # Late PROVE Node(w.job)' = h
    BY <2>1, <2>3 DEF Fits, Node, Conn
  <2>. QED
    BY <2>1, <2>2, <2>3 DEF Fits
<1>3. (Disks => (WritersFit <=> AllFit))'
  BY Fitting, PTL
<1>. QED
  BY <1>1, <1>2, <1>3 DEF AllFit

LEMMA TypesStart == DInit => Disks /\ RestTyped /\ WritersFit /\ OneWriter
<1> SUFFICES ASSUME DInit PROVE Disks /\ RestTyped /\ WritersFit /\ OneWriter
  OBVIOUS
<1>1. Empty \in Disk
  BY DEF Empty, Disk, Apt
<1>2. Disks
  BY <1>1, BoundsOfDeploy DEF DInit, Disks
<1>3. \A n \in NodeNames : Target(n, nodes[n]) \in Hosts \cup {None}
  BY Addresses DEF DInit
<1>4. RestTyped
  BY <1>3, BoundsOfDeploy DEF DInit, RestTyped
<1>5. WritersFit /\ OneWriter
  BY DEF DInit, WritersFit, OneWriter
<1>. QED
  BY <1>2, <1>4, <1>5

LEMMA TypesStay ==
  ASSUME Typed, [DNext]_dvars
  PROVE  (Disks /\ RestTyped /\ WritersFit /\ OneWriter)'
<1> USE DEF Typed
<1>0. /\ HTypeOK /\ JobsTyped /\ Accepted
      /\ \A i \in Jobs : i \in Nat /\ i # Late
      /\ MaxFailures \in Nat /\ MaxChanges \in Nat /\ failures \in 0..MaxFailures
  BY JobNumbers, BoundsOfDeploy DEF Tied, Late, Disks
<1>1. ASSUME UNCHANGED <<disk, writers>>, failures' \in 0..MaxFailures, UNCHANGED run,
             \A j \in Jobs : pc[j] = "staging" => j \in Jobs' /\ pc'[j] = "staging",
             \A j \in Jobs : pc[j] = "staging" => conn'[Conn(j)] = conn[Conn(j)]
      PROVE  Disks' /\ WritersFit' /\ OneWriter'
  BY <1>1, FitStays DEF Disks, Places
<1>2. CASE Begin \/ GiveUp \/ \E n \in NodeNames, h \in Hosts : Join(n, h)
  <2>1. \A j \in Jobs : pc[j] # "staging"
    BY <1>2 DEF Begin, GiveUp, Stalled, Join, Returned, Ended
  <2>2. \A h \in Hosts : \A w \in writers[h] : w.job = Late
    BY <2>1 DEF WritersFit
  <2>3. UNCHANGED <<disk, writers>> /\ crossed' = crossed /\ changes' \in 0..MaxChanges
        /\ failures' \in 0..MaxFailures
    BY <1>2, BoundsOfDeploy DEF Begin, GiveUp, Join, Changes, RestTyped, Disks
  <2>4. WritersFit' /\ OneWriter' /\ Disks'
    BY <2>2, <2>3 DEF WritersFit, OneWriter, Disks
  <2>5. clean' \in BOOLEAN
    BY <1>2 DEF Begin, GiveUp, Join, CanSucceed, RestTyped
  <2>6. told' \in [NodeNames -> Hosts \cup {None}]
    BY <1>2 DEF Begin, GiveUp, Join, RestTyped
  <2>. QED
    BY <2>3, <2>4, <2>5, <2>6 DEF RestTyped
<1>3. CASE Reinstalled \/ UNCHANGED dvars
  <2>1. /\ UNCHANGED <<disk, writers, run, pc, conn, told, crossed, failures>>
        /\ clean' \in {clean, FALSE} /\ changes' \in 0..MaxChanges
    <3>1. CASE Reinstalled
      <4>1. changes' = changes + 1 /\ changes < MaxChanges /\ clean' = FALSE /\ conn' = conn
            /\ UNCHANGED <<disk, writers, run, pc, told, crossed, failures>>
        BY <3>1 DEF Reinstalled, Rekey, Changes
      <4>2. changes \in 0..MaxChanges
        BY DEF RestTyped
      <4>3. changes' \in 0..MaxChanges
        BY <1>0, <4>1, <4>2
      <4>. QED
        BY <4>1, <4>3
    <3>2. CASE UNCHANGED dvars
      BY <3>2 DEF RestTyped, dvars, runVars, hostVars
    <3>. QED
      BY <1>3, <3>1, <3>2
  <2>. QED
    BY <1>1, <2>1 DEF RestTyped, Disks, Jobs
<1>4. ASSUME NEW h \in Hosts, LateEnds(h)
      PROVE  (Disks /\ RestTyped /\ WritersFit /\ OneWriter)'
  <2>1. PICK w \in writers[h] :
          w.job = Late /\ Leaves(h, w) /\ (Written(h, w) \/ UNCHANGED disk)
    BY <1>4 DEF LateEnds
  <2>2. UNCHANGED <<hostVars, nodes, told, run, opts, pc, clean, crossed, failures, changes>>
    BY <1>4 DEF LateEnds
  <2>3. /\ disk' \in [Hosts -> Disk] /\ \A g \in Hosts \ {h} : disk'[g] = disk[g]
        /\ disk[h].stage # None => disk'[h].stage # None
        /\ disk[h].bin # None => disk'[h].bin # None
    BY <2>1, WrittenSpares DEF Disks
  <2>4. writers' \in [Hosts -> SUBSET Writer] /\ \A g \in Hosts : writers'[g] \subseteq writers[g]
    BY <2>1 DEF Leaves, Disks
  <2>5. Disks' /\ RestTyped'
    BY <2>2, <2>3, <2>4 DEF Disks, RestTyped
  <2>. QED
    BY <2>2, <2>3, <2>4, <2>5, FewerFit DEF hostVars, Jobs
<1>9. ASSUME NEW h \in Hosts, LateBase(h)
      PROVE  (Disks /\ RestTyped /\ WritersFit /\ OneWriter)'
  <2>1. /\ UNCHANGED <<hostVars, nodes, told, run, opts, pc, writers, clean, crossed, failures, changes>>
        /\ disk' \in [Hosts -> Disk] /\ \A g \in Hosts : Places(g)
    BY <1>9, LateBaseDoes
  <2>2. Disks' /\ RestTyped'
    BY <2>1 DEF Disks, RestTyped
  <2>. QED
    BY <2>1, <2>2, FitStays DEF hostVars, Jobs
<1>5. ASSUME NEW i \in Jobs, Dial(i) \/ DialFails(i)
      PROVE  (Disks /\ RestTyped /\ WritersFit /\ OneWriter)'
  <2>1. /\ UNCHANGED <<told, run, opts, pc, disk, writers, crossed, changes>>
        /\ clean' \in {clean, FALSE} /\ failures' \in 0..MaxFailures
    <3>1. CASE Dial(i)
      BY <1>0, <3>1 DEF Dial, runVars
    <3>2. CASE DialFails(i)
      <4>1. failures < MaxFailures /\ failures' = failures + 1 /\ clean' = FALSE
            /\ UNCHANGED <<told, run, opts, pc, disk, writers, crossed, changes>>
        BY <3>2 DEF DialFails, Fails
      <4>2. failures' \in 0..MaxFailures
        BY <1>0, <4>1
      <4>. QED
        BY <4>1, <4>2
    <3>. QED
      BY <1>5, <3>1, <3>2
  <2>2. \A j \in Jobs : pc[j] = "staging" => conn'[Conn(j)] = conn[Conn(j)]
    BY <1>0, <1>5, StaysDialled
  <2>. QED
    BY <1>1, <2>1, <2>2 DEF RestTyped, Jobs
<1>6. ASSUME NEW i \in Jobs, Spawn(i) \/ NoAddress(i) \/ Arch(i) \/ Unsupported(i)
      PROVE  (Disks /\ RestTyped /\ WritersFit /\ OneWriter)'
  <2>1. /\ UNCHANGED <<hostVars, told, run, opts, disk, writers, crossed, changes>>
        /\ clean' \in {clean, FALSE} /\ failures' \in 0..MaxFailures
        /\ pc[i] # "staging" /\ \E to : pc' = [pc EXCEPT ![i] = to]
    BY <1>0, <1>6, StartDoes
  <2>2. \A j \in Jobs : pc[j] = "staging" => j \in Jobs' /\ pc'[j] = "staging"
    BY <1>0, <2>1 DEF JobsTyped, Jobs
  <2>. QED
    BY <1>1, <2>1, <2>2 DEF RestTyped, hostVars
<1>7. ASSUME NEW i \in Jobs, Upper(i)
      PROVE  (Disks /\ RestTyped /\ WritersFit /\ OneWriter)'
  <2>0. pc[i] \notin {"waiting", "arch", "failed", "zero", "hung", "staging"}
    BY <1>7 DEF Upper, Base, Chmod, Test, KeyInit, Config, Install
  <2>1. /\ UNCHANGED <<hostVars, told, run, opts, writers, crossed, changes>>
        /\ disk' \in [Hosts -> Disk] /\ \A h \in Hosts : Places(h)
        /\ clean' \in {clean, FALSE} /\ failures' \in 0..MaxFailures
        /\ \E to : pc' = [pc EXCEPT ![i] = to]
    BY <1>0, <1>7, <2>0, NodeOf, UpperDoes DEF Leaving, Keeps, Places
  <2>2. \A j \in Jobs : pc[j] = "staging" => j \in Jobs' /\ pc'[j] = "staging"
    BY <1>0, <2>0, <2>1 DEF JobsTyped, Jobs
  <2>3. Disks' /\ RestTyped'
    BY <2>1 DEF Disks, RestTyped
  <2>. QED
    BY <2>1, <2>2, <2>3, FitStays DEF hostVars
<1>8. ASSUME NEW i \in Jobs, Stage(i) \/ Staged(i) \/ StageFails(i) \/ Move(i) \/ Panic(i) \/ Hang(i)
      PROVE  (Disks /\ RestTyped /\ WritersFit /\ OneWriter)'
  BY <1>8, StagingTypes
<1>. QED
  BY <1>2, <1>3, <1>4, <1>5, <1>6, <1>7, <1>8, <1>9 DEF DNext, JobStep, Upper

LEMMA AlwaysTyped == DSpec => []Typed
<1>1. DInit => Disks /\ RestTyped /\ WritersFit /\ OneWriter
  BY TypesStart
<1>2. Tied /\ (Disks /\ RestTyped /\ WritersFit /\ OneWriter) /\ [DNext]_dvars
        => (Disks /\ RestTyped /\ WritersFit /\ OneWriter)'
  BY TypesStay DEF Typed
<1>3. Tied /\ (Disks /\ RestTyped /\ WritersFit /\ OneWriter) => Typed
  BY DEF Typed
<1>. QED
  BY <1>1, <1>2, <1>3, AlwaysTied, PTL DEF DSpec

(* The types of a deploy's state: among them, that a writer has the file   *)
(* that it writes, and that the job which waits for it is there.           *)
THEOREM DeployTypeCorrect == DSpec => []DTypeOK
<1>1. Typed => DTypeOK
  BY TypesOfDeploy DEF Typed, Tied
<1>. QED
  BY <1>1, AlwaysTyped, PTL

-----------------------------------------------------------------------------
(* The address a node was told. *)

(* The configuration still says what the operator last told it.            *)
ToldTrue == \A n \in NodeNames : told[n] \in {None, Address(n)} \/ Address(n) = None

LEMMA AlwaysTold == DSpec => []ToldTrue
<1>1. DInit => ToldTrue
  BY DEF DInit, ToldTrue, Address
<1>2. Typed /\ ToldTrue /\ [DNext]_dvars => ToldTrue'
  <2> SUFFICES ASSUME Typed, ToldTrue, [DNext]_dvars PROVE ToldTrue'
    OBVIOUS
  <2>1. ASSUME NEW n \in NodeNames, NEW h \in Hosts, Join(n, h) PROVE ToldTrue'
    <3> DEFINE doc == WriteNetwork(nodes[n], h)
    <3>1. nodes \in [NodeNames -> Doc \cup {None, Torn}] /\ nodes[n] \in Doc \cup {None}
          /\ told \in [NodeNames -> Hosts \cup {None}]
      BY <2>1 DEF Typed, Tied, JobsTyped, RestTyped, Join
    <3>2. doc \in Doc /\ doc["address"] = h /\ h # None
      BY <3>1, Joined, NotData
    <3>3. Target(n, doc) \in {h, None}
      BY <3>2 DEF Target, Resolve, LoadMerged, DeepMerge, Doc
    <3> HIDE DEF doc
    <3>4. \/ nodes' = [nodes EXCEPT ![n] = doc] /\ told' = [told EXCEPT ![n] = h]
          \/ /\ \E cut : nodes' = [nodes EXCEPT ![n] = cut]
             /\ told' = [told EXCEPT ![n] = None]
      BY <2>1 DEF Join, doc
    <3>5. /\ \A m \in NodeNames \ {n} : nodes'[m] = nodes[m] /\ told'[m] = told[m]
          /\ told'[n] = None \/ (told'[n] = h /\ nodes'[n] = doc)
      BY <3>1, <3>4
    <3>. QED
      BY <3>3, <3>5 DEF ToldTrue, Address
  <2>2. ASSUME NEW i \in Jobs, JobStep(i) \/ DialFails(i) \/ StageFails(i) \/ Panic(i) \/ Hang(i)
        PROVE  ToldTrue'
    BY <2>2, JobMoves DEF ToldTrue, Address, Typed, Tied
  <2>3. CASE Begin \/ GiveUp \/ Reinstalled \/ (\E h \in Hosts : LateEnds(h) \/ LateBase(h))
             \/ UNCHANGED dvars
    BY <2>3 DEF Begin, GiveUp, Reinstalled, LateEnds, LateBase, dvars, runVars, ToldTrue, Address
  <2>. QED
    BY <2>1, <2>2, <2>3 DEF DNext
<1>. QED
  BY <1>1, <1>2, AlwaysTyped, PTL DEF DSpec

-----------------------------------------------------------------------------
(* One run: the steps between a Begin and the next. *)

Within == \/ Reinstalled \/ (\E h \in Hosts : LateEnds(h) \/ LateBase(h)) \/ UNCHANGED dvars
          \/ \E i \in Jobs : JobStep(i) \/ DialFails(i) \/ StageFails(i) \/ Panic(i) \/ Hang(i)

(* Nothing is forgotten of where two writers met, and of what went wrong.  *)
Frame ==
  /\ UNCHANGED <<nodes, told, run, opts>> /\ Jobs' = Jobs
  /\ (clean' => clean) /\ crossed \subseteq crossed'
  /\ \A j \in Jobs : Dialled(j) => Dialled(j)' /\ Node(j)' = Node(j)

(* The connections of a step that makes none. *)
LEMMA StillConnected ==
  ASSUME UNCHANGED <<conn, run>>
  PROVE  \A j : Dialled(j)' = Dialled(j) /\ Node(j)' = Node(j)
BY DEF Dialled, Node, Conn

LEMMA StagedDoes ==
  ASSUME Typed, NEW i \in Jobs, Staged(i)
  PROVE  LET h == Node(i) IN
         /\ UNCHANGED <<hostVars, nodes, told, run, opts, clean, crossed, failures, changes>>
         /\ h \in Hosts /\ pc[i] = "staging"
         /\ \E to \in {"chmod", "move"} : pc' = [pc EXCEPT ![i] = to]
         /\ \/ UNCHANGED <<disk, writers>> /\ \A w \in writers[h] : w.job # i
            \/ \E w \in writers[h] : w.job = i /\ Written(h, w) /\ Leaves(h, w)
<1>1. pc[i] = "staging"
  BY DEF Staged
<1>2. Node(i) \in Hosts
  BY <1>1, NodeOf DEF Typed
<1>3. /\ UNCHANGED <<hostVars, nodes, told, run, opts, clean, crossed, failures, changes>>
      /\ \E to \in {"chmod", "move"} : pc' = [pc EXCEPT ![i] = to]
  BY DEF Staged, Goes
<1>4. \/ UNCHANGED <<disk, writers>> /\ \A w \in writers[Node(i)] : w.job # i
      \/ \E w \in writers[Node(i)] : w.job = i /\ Written(Node(i), w) /\ Leaves(Node(i), w)
  BY DEF Staged
<1>. QED
  BY <1>1, <1>2, <1>3, <1>4

LEMMA StopDoes ==
  ASSUME Typed, NEW i \in Jobs, StageFails(i) \/ Panic(i) \/ Hang(i)
  PROVE  /\ UNCHANGED <<hostVars, nodes, told, run, opts, disk, crossed, changes>>
         /\ clean' = FALSE
         /\ \E to \in {"failed", "zero", "hung"} : pc' = [pc EXCEPT ![i] = to]
         /\ \A h \in Hosts : /\ {w \in writers[h] : w.job # i} \subseteq writers'[h]
                             /\ \A w \in writers'[h] :
                                  \/ w \in writers[h]
                                  \/ \E v \in writers[h] : v.job = i /\ pc[i] = "staging" /\ w.on = v.on
<1>0. writers \in [Hosts -> SUBSET Writer]
  BY DEF Typed, Disks
<1>1. CASE Panic(i) \/ Hang(i)
  BY <1>0, <1>1 DEF Panic, Hang, Fails, Goes
<1>2. CASE StageFails(i)
  <2> DEFINE h == Node(i)
             mine == {w \in writers[h] : w.job = i}
             late == {[w EXCEPT !.job = Late] : w \in mine}
  <2>1. /\ UNCHANGED <<hostVars, nodes, told, run, opts, disk, crossed, changes>>
        /\ clean' = FALSE /\ pc[i] = "staging" /\ pc' = [pc EXCEPT ![i] = "failed"]
    BY <1>2 DEF StageFails, Fails, Goes
  <2>2. h \in Hosts
    BY <2>1, NodeOf DEF Typed
  <2>3. PICK left \in {{}, late} : writers' = [writers EXCEPT ![h] = (@ \ mine) \cup left]
    BY <1>2 DEF StageFails
  <2>4. \A w \in late : \E v \in writers[h] : v.job = i /\ w.on = v.on
    BY <1>0, <2>2 DEF Writer
  <2>5. \A g \in Hosts : writers'[g] = IF g = h THEN (writers[h] \ mine) \cup left ELSE writers[g]
    BY <1>0, <2>3
  <2>. QED
    BY <2>1, <2>3, <2>4, <2>5
<1>. QED
  BY <1>1, <1>2

LEMMA InOneRun == ASSUME Typed, Within PROVE Frame
<1> USE DEF Typed, Tied
<1>0. HTypeOK /\ JobsTyped /\ Disks
  OBVIOUS
<1>1. CASE Reinstalled \/ (\E h \in Hosts : LateEnds(h) \/ LateBase(h)) \/ UNCHANGED dvars
  <2>1. /\ UNCHANGED <<nodes, told, run, opts, pc, conn, crossed>> /\ (clean' => clean)
    <3>1. CASE \E h \in Hosts : LateBase(h)
      BY <3>1, LateBaseDoes DEF hostVars
    <3>2. CASE Reinstalled \/ (\E h \in Hosts : LateEnds(h)) \/ UNCHANGED dvars
      BY <3>2 DEF Reinstalled, Rekey, LateEnds, dvars, runVars, hostVars
    <3>. QED
      BY <1>1, <3>1, <3>2
  <2>. QED
    BY <2>1, StillConnected DEF Frame, Jobs
<1>2. ASSUME NEW i \in Jobs, JobStep(i) \/ DialFails(i) \/ StageFails(i) \/ Panic(i) \/ Hang(i)
      PROVE  Frame
  <2>1. UNCHANGED <<nodes, told, run, opts>> /\ Jobs' = Jobs
    BY <1>2, JobMoves DEF JobsTyped, Jobs
  <2>2. /\ (clean' => clean) /\ crossed \subseteq crossed'
    <3>1. CASE Spawn(i) \/ NoAddress(i) \/ Arch(i) \/ Unsupported(i)
      BY <3>1, StartDoes
    <3>2. CASE Dial(i) \/ DialFails(i)
      BY <3>2, Dialling
    <3>3. CASE Upper(i)
      <4>1. Node(i) \in Hosts
        <5>1. pc[i] \notin {"waiting", "arch", "failed", "zero", "hung"}
          BY <3>3 DEF Upper, Base, Chmod, Test, KeyInit, Config, Install
        <5>. QED
          BY <5>1, NodeOf
      <4>. QED
        BY <3>3, <4>1, UpperDoes
    <3>4. CASE Stage(i) \/ Move(i)
      <4>1. CASE Stage(i)
        BY <4>1 DEF Stage
      <4>2. CASE Move(i)
        <5>1. Hopeless(i) => (clean' => clean) /\ crossed' = crossed
          BY DEF Hopeless
        <5>2. \A e, next, f : Command(i, e, next, f) => (clean' => clean) /\ crossed' = crossed
          BY DEF Command, NoFault, Fails
        <5>. QED
          BY <4>2, <5>1, <5>2 DEF Move
      <4>. QED
        BY <3>4, <4>1, <4>2
    <3>5. CASE Staged(i) \/ StageFails(i) \/ Panic(i) \/ Hang(i)
      BY <3>5, StagedDoes, StopDoes
    <3>. QED
      BY <1>2, <3>1, <3>2, <3>3, <3>4, <3>5 DEF JobStep, Upper
  <2>3. \A j \in Jobs : Dialled(j) => Dialled(j)' /\ Node(j)' = Node(j)
    <3>1. CASE UNCHANGED hostVars
      BY <2>1, <3>1, StillConnected DEF hostVars
    <3>2. CASE Dial(i) \/ DialFails(i)
      BY <3>2, StaysDialled
    <3>. QED
      BY <1>2, <3>1, <3>2, JobMoves
  <2>. QED
    BY <2>1, <2>2, <2>3 DEF Frame
<1>. QED
  BY <1>1, <1>2 DEF Within

-----------------------------------------------------------------------------
(* The binary. *)

Touching == {"staging", "chmod", "move"}
Placing  == {"test", "key", "config", "install", "ok"}
Good(h)  == Binary(h, run, TRUE)

Staging(ws) == {w \in ws : w.on = "stage"}

LEMMA GoodFile ==
  ASSUME JobsTyped, NEW h \in Hosts
  PROVE  /\ Good(h) \in File /\ Good(h) # None /\ Good(h).whole /\ Good(h).v # Mixed
         /\ Good(h).arch = ArchOf[h] \/ Good(h).upload
         /\ Suits(opts, h) => Good(h).arch = ArchOf[h]
<1>1. run \in 0..MaxRuns /\ run \in Nat /\ Mixed \notin Nat
  BY BoundsOfDeploy, NotData DEF JobsTyped
<1>. QED
  BY <1>1, Files DEF Good, Binary, Suits

LEMMA Completed ==
  ASSUME JobsTyped, NEW h \in Hosts
  PROVE  [Binary(h, run, FALSE) EXCEPT !.whole = TRUE] = Good(h)
<1>1. \A f, g \in File : f.v = g.v /\ f.arch = g.arch /\ f.upload = g.upload /\ g.whole
                         => [f EXCEPT !.whole = TRUE] = g
  BY DEF File
<1>2. Binary(h, run, FALSE) \in File /\ Good(h) \in File
  BY Files DEF Good, JobsTyped
<1>3. LET f == Binary(h, run, FALSE)
          g == Good(h)
      IN  f.v = g.v /\ f.arch = g.arch /\ (f.upload <=> g.upload) /\ g.whole
  BY DEF Good, Binary
<1>. QED
  BY <1>1, <1>2, <1>3 DEF File

(* No two writers met where this job runs, or nothing is wrong that was    *)
(* not so when the deploy began.                                           *)
Alone(i) == clean \/ Node(i) \notin crossed

(* Jobs that write at the same node meet.                                  *)
Sole == \A i, j \in Jobs :
          i # j /\ {pc[i], pc[j]} \subseteq Touching /\ Node(i) = Node(j) => ~Alone(i)

(* A job that is alone has staged its release, or put it in place.         *)
Fine(i) ==
  LET h == Node(i) IN
  /\ pc[i] = "staging" => Staging(writers[h]) = {Me(i)} /\ disk[h].stage = Binary(h, run, FALSE)
  /\ pc[i] \in {"chmod", "move"} => Staging(writers[h]) = {} /\ disk[h].stage = Good(h)
  /\ pc[i] \in Placing => disk[h].bin = Good(h)

Placed == \A i \in Jobs : pc[i] \in Touching \cup Placing /\ Alone(i) => Fine(i)

(* What a clean run finds on its nodes.                                    *)
CleanNode(i) ==
  LET h == Address(opts.names[i]) IN
  /\ h # None /\ Suits(opts, h)
  /\ writers[h] \subseteq {Me(i)} /\ Provisionable(disk[h]) /\ disk[h].key # Torn
  /\ pc[i] = "install" => disk[h].cfg = Rendered(i)

CleanNodes == clean =>
  /\ \A i \in Jobs : CleanNode(i)
  /\ \A i, j \in Jobs : Address(opts.names[i]) = Address(opts.names[j]) => i = j

Settled == Sole /\ Placed /\ CleanNodes

(* Where a job is that is past the architecture.                           *)
LEMMA Where ==
  ASSUME Typed, NEW i \in Jobs, pc[i] \notin {"waiting", "arch", "failed", "zero", "hung"}
  PROVE  /\ Node(i) \in Hosts /\ Dialled(i) /\ Node(i) = Address(opts.names[i])
         /\ conn[Conn(i)].at = "accepted"
<1>1. Node(i) \in Hosts /\ Dialled(i) /\ conn[Conn(i)].at = "accepted"
  BY NodeOf DEF Typed
<1>. QED
  BY <1>1 DEF Typed, Tied, Addressed

(* A job that was not alone is not alone any more. *)
LEMMA NeverAlone ==
  ASSUME Typed, Frame, NEW i \in Jobs, Dialled(i), Alone(i)'
  PROVE  Alone(i) /\ Node(i)' = Node(i)
BY DEF Frame, Alone

(* Who writes stays who writes.                                            *)
LEMMA SoleStays ==
  ASSUME Typed, Settled, Frame, \A j \in Jobs : pc'[j] \in Touching => pc[j] \in Touching
  PROVE  Sole'
<1> SUFFICES ASSUME NEW i \in Jobs, NEW j \in Jobs, i # j, pc'[i] \in Touching, pc'[j] \in Touching,
                    Node(i)' = Node(j)', Alone(i)'
             PROVE  FALSE
  BY DEF Sole, Frame
<1>1. pc[i] \in Touching /\ pc[j] \in Touching
  OBVIOUS
<1>2. Dialled(i) /\ Dialled(j)
  BY <1>1, Where DEF Touching
<1>3. Alone(i) /\ Node(i) = Node(j)
  BY <1>2, NeverAlone DEF Frame
<1>. QED
  BY <1>1, <1>3 DEF Settled, Sole

(* A job stays well where its files are left alone, or only the write of a *)
(* late writer ends.                                                       *)
LEMMA StaysFine ==
  ASSUME Typed, Settled, Frame, NEW i \in Jobs,
         pc'[i] = pc[i] \/ (pc[i] = "chmod" /\ pc'[i] = "move")
                        \/ (pc[i] \in Placing /\ pc'[i] \in Placing),
         pc'[i] \in Touching \cup Placing, Alone(i)',
         pc[i] \in Touching => /\ Staging(writers'[Node(i)]) = Staging(writers[Node(i)])
                               /\ disk'[Node(i)].stage = disk[Node(i)].stage,
         pc[i] \in Placing => \/ disk'[Node(i)].bin = disk[Node(i)].bin
                              \/ disk'[Node(i)].bin = Good(Node(i))
  PROVE  Fine(i)'
<1>1. pc[i] \in Touching \cup Placing
  BY DEF Touching, Placing
<1>2. Dialled(i)
  BY <1>1, Where DEF Touching, Placing
<1>3. Alone(i) /\ Node(i)' = Node(i)
  BY <1>2, NeverAlone
<1>4. Fine(i)
  BY <1>1, <1>3 DEF Settled, Placed
<1>5. /\ \A h : Good(h)' = Good(h) /\ Binary(h, run, FALSE)' = Binary(h, run, FALSE)
      /\ Me(i)' = Me(i) /\ run' = run
  BY DEF Good, Binary, Me, Frame
<1>6. CASE pc[i] \in Touching
  BY <1>3, <1>4, <1>5, <1>6 DEF Fine, Touching, Placing
<1>7. CASE pc[i] \in Placing
  BY <1>3, <1>4, <1>5, <1>7 DEF Fine, Touching, Placing
<1>. QED
  BY <1>1, <1>6, <1>7

(* What keeps a clean run clean.                                           *)
LEMMA CleanStays ==
  ASSUME Typed, Settled, Frame,
         clean' => \A i \in Jobs :
           LET h == Address(opts.names[i]) IN
           h \in Hosts =>
             /\ writers'[h] \subseteq writers[h] \cup {Me(i)}
             /\ Provisionable(disk[h]) => Provisionable(disk'[h])
             /\ disk'[h].key = Torn => disk[h].key = Torn
             /\ pc'[i] = "install" => \/ disk'[h].cfg = Rendered(i)
                                      \/ pc[i] = "install" /\ disk'[h].cfg = disk[h].cfg
  PROVE  CleanNodes'
<1> SUFFICES ASSUME clean' PROVE /\ \A i \in Jobs : CleanNode(i)'
                                 /\ \A i, j \in Jobs : Address(opts.names[i])' = Address(opts.names[j])' => i = j
  BY DEF CleanNodes, Frame
<1>1. clean /\ nodes' = nodes /\ opts' = opts /\ run' = run
  BY DEF Frame
<1>2. \A i, j \in Jobs : Address(opts.names[i])' = Address(opts.names[j])' => i = j
  BY <1>1 DEF Address, Settled, CleanNodes
<1>3. ASSUME NEW i \in Jobs PROVE CleanNode(i)'
  <2> DEFINE h == Address(opts.names[i])
  <2>1. CleanNode(i)
    BY <1>1 DEF Settled, CleanNodes
  <2>2. h \in Hosts
    <3>1. h \in Hosts \cup {None}
      BY JobNumbers, Addresses DEF Address, Typed, Tied, JobsTyped
    <3>. QED
      BY <2>1, <3>1 DEF CleanNode
  <2>3. h' = h /\ Me(i)' = Me(i) /\ Rendered(i)' = Rendered(i) /\ Suits(opts, h)' = Suits(opts, h)
    BY <1>1 DEF Address, Me, Rendered, Suits
  <2>4. Provisionable(disk[h])' = Provisionable(disk'[h])
    BY <2>3 DEF Provisionable
  <2>. QED
    BY <2>1, <2>2, <2>3, <2>4 DEF CleanNode
<1>. QED
  BY <1>2, <1>3

(* A write that ends leaves the rest, and a whole binary, as it is.        *)
LEMMA LeavesDoes ==
  ASSUME Typed, NEW h \in Hosts, NEW w \in writers[h], Leaves(h, w), Written(h, w) \/ UNCHANGED disk
  PROVE  LET d == disk[h]
             e == disk'[h]
         IN
         /\ \A g \in Hosts \ {h} : disk'[g] = disk[g] /\ writers'[g] = writers[g]
         /\ writers'[h] = writers[h] \ {w} /\ e \in Disk /\ Rest(d, e)
         /\ w.on = "bin" => e.stage = d.stage
         /\ d.bin = None => e.bin = None
         /\ d.bin # None /\ d.bin.whole => e.bin = d.bin
<1> DEFINE d == disk[h]
           e == disk'[h]
<1>1. /\ Disks /\ WritersFit /\ d \in Disk /\ w.on \in {"stage", "bin"}
  BY DEF Typed, Disks, Writer
<1>2. /\ \A g \in Hosts \ {h} : writers'[g] = writers[g]
      /\ writers'[h] = writers[h] \ {w}
  BY <1>1 DEF Leaves, Disks
<1>3. CASE UNCHANGED disk
  BY <1>1, <1>2, <1>3 DEF Rest
<1>4. CASE Written(h, w)
  <2>1. /\ disk' \in [Hosts -> Disk] /\ \A g \in Hosts \ {h} : disk'[g] = disk[g]
        /\ w.on = "stage" => /\ d.stage # None /\ d.stage \in File
                             /\ e = [d EXCEPT !.stage = [d.stage EXCEPT !.whole = TRUE]]
        /\ w.on = "bin" => /\ d.bin # None /\ d.bin \in File
                           /\ e = [d EXCEPT !.bin = [d.bin EXCEPT !.whole = TRUE]]
    BY <1>1, <1>4, WrittenDoes
  <2>2. Rest(d, e)
    BY <1>1, <2>1 DEF Rest, Disk, Provisionable
  <2>3. CASE w.on = "stage"
    <3>1. e.bin = d.bin /\ e \in Disk
      BY <1>1, <2>1, <2>3 DEF Disk
    <3>. QED
      BY <1>2, <2>1, <2>2, <2>3, <3>1
  <2>4. CASE w.on = "bin"
    <3>1. e.stage = d.stage /\ e.bin = [d.bin EXCEPT !.whole = TRUE] /\ d.bin \in File /\ d.bin # None
      BY <1>1, <2>1, <2>4 DEF Disk
    <3>2. d.bin.whole => e.bin = d.bin
      BY <3>1 DEF File
    <3>. QED
      BY <1>2, <2>1, <2>2, <2>4, <3>1, <3>2
  <2>. QED
    BY <1>1, <2>3, <2>4
<1>. QED
  BY <1>3, <1>4

(* The end of a write, of a job that waits for it or of a late one.        *)
LEMMA EndsSettled ==
  ASSUME Typed, Settled, Frame, UNCHANGED <<hostVars, nodes, run, opts, clean, crossed>>,
         NEW h \in Hosts, NEW w \in writers[h], Leaves(h, w), Written(h, w) \/ UNCHANGED disk,
         NEW i, \A j \in Jobs \ {i} : pc'[j] = pc[j],
         w.job \in {i, Late}, i # Late,
         i \in Jobs => /\ Written(h, w) /\ w.job = i /\ Node(i) = h /\ pc[i] = "staging"
                       /\ pc'[i] \in {"chmod", "move"}
  PROVE  Settled'
<1>1. /\ \A g \in Hosts \ {h} : disk'[g] = disk[g] /\ writers'[g] = writers[g]
      /\ writers'[h] = writers[h] \ {w} /\ Rest(disk[h], disk'[h])
      /\ w.on = "bin" => disk'[h].stage = disk[h].stage
      /\ disk[h].bin # None /\ disk[h].bin.whole => disk'[h].bin = disk[h].bin
  BY LeavesDoes
<1>2. Sole'
  BY SoleStays DEF Touching
<1>3. CleanNodes'
  BY <1>1, CleanStays DEF Rest
<1>4. Placed'
  <2> SUFFICES ASSUME NEW j \in Jobs, pc'[j] \in Touching \cup Placing, Alone(j)' PROVE Fine(j)'
    BY DEF Placed, Frame
  <2>1. Good(h) # None /\ Good(h).whole
    BY GoodFile DEF Typed, Tied
  <2>2. CASE j = i
    <3>1. i \in Jobs /\ Alone(i) /\ pc[i] = "staging" /\ Node(i)' = h /\ Node(i) = h
      BY <2>2, Where, NeverAlone
    <3>2. Staging(writers[h]) = {Me(i)} /\ disk[h].stage = Binary(h, run, FALSE)
      BY <3>1 DEF Settled, Placed, Fine, Touching
    <3>3. w = Me(i) /\ w.on = "stage"
      <4>1. Me(i) \in writers[h] /\ Me(i).job = i /\ Me(i).on = "stage"
        BY <3>2 DEF Staging, Me
      <4>2. w.job = i /\ w.job # Late
        BY <3>1
      <4>. QED
        BY <4>1, <4>2 DEF Typed, OneWriter
    <3>4. Staging(writers'[h]) = {}
      BY <1>1, <3>2, <3>3 DEF Staging
    <3>5. disk'[h].stage = [disk[h].stage EXCEPT !.whole = TRUE]
      <4>1. Disks /\ WritersFit /\ disk[h] \in Disk /\ Written(h, w)
        BY <3>1 DEF Typed, Disks
      <4>2. disk'[h] = [disk[h] EXCEPT !.stage = [disk[h].stage EXCEPT !.whole = TRUE]]
        BY <3>3, <4>1, WrittenDoes
      <4>. QED
        BY <4>1, <4>2 DEF Disk
    <3>6. disk'[h].stage = Good(h) /\ Good(h)' = Good(h) /\ pc'[i] \in {"chmod", "move"}
      <4>1. [disk[h].stage EXCEPT !.whole = TRUE] = Good(h)
        BY <1>1, <3>1, <3>2, Completed DEF Typed, Tied
      <4>2. Good(h)' = Good(h)
        BY DEF Good, Binary, Frame
      <4>. QED
        BY <2>2, <3>1, <3>5, <4>1, <4>2
    <3>. QED
      BY <2>2, <3>1, <3>4, <3>6 DEF Fine, Placing
  <2>3. CASE j # i
    <3>1. pc[j] = pc'[j] /\ Dialled(j)
      BY <2>3, Where DEF Touching, Placing
    <3>2. Alone(j) /\ Node(j)' = Node(j) /\ Fine(j) /\ Node(j) \in Hosts
      BY <3>1, NeverAlone, Where DEF Settled, Placed, Touching, Placing
    <3>3. CASE Node(j) # h
      <4>1. Staging(writers'[Node(j)]) = Staging(writers[Node(j)]) /\ disk'[Node(j)] = disk[Node(j)]
        BY <1>1, <3>2, <3>3 DEF Staging
      <4>. QED
        BY <3>1, <4>1, StaysFine
    <3>4. CASE Node(j) = h /\ pc[j] \in Touching
      <4>1. w.job = Late
        <5>1. i \notin Jobs
          BY <2>3, <3>2, <3>4 DEF Settled, Sole, Touching
        <5>. QED
          BY <5>1 DEF Typed, WritersFit
      <4>2. Staging(writers[h]) \subseteq {Me(j)} /\ w # Me(j)
        <5>1. Me(j).job # Late
          BY JobNumbers DEF Me, Late, Typed, Tied
        <5>. QED
          BY <3>2, <3>4, <4>1, <5>1 DEF Fine, Touching
      <4>3. w.on = "bin"
        BY <4>2 DEF Staging, Typed, Disks, Writer
      <4>4. Staging(writers'[h]) = Staging(writers[h]) /\ disk'[h].stage = disk[h].stage
        BY <1>1, <4>3 DEF Staging
      <4>5. pc[j] \notin Placing
        BY <3>4 DEF Touching, Placing
      <4>. QED
        BY <3>1, <3>4, <4>4, <4>5, StaysFine
    <3>5. CASE Node(j) = h /\ pc[j] \in Placing
      <4>1. disk'[h].bin = disk[h].bin /\ pc[j] \notin Touching
        BY <1>1, <2>1, <3>2, <3>5 DEF Fine, Touching, Placing
      <4>. QED
        BY <3>1, <3>5, <4>1, StaysFine
    <3>. QED
      BY <3>1, <3>3, <3>4, <3>5
  <2>. QED
    BY <2>2, <2>3
<1>. QED
  BY <1>2, <1>3, <1>4 DEF Settled

(* The steps that leave every binary, and who writes one, alone.           *)
LEMMA QuietSettled ==
  ASSUME Typed, Settled, Frame, writers' = writers, \A h \in Hosts : Places(h),
         \A j \in Jobs : \/ pc'[j] = pc[j] \/ pc'[j] \notin Touching \cup Placing
                         \/ pc[j] = "chmod" /\ pc'[j] = "move"
                         \/ pc[j] \in Placing /\ pc'[j] \in Placing,
         clean' => \A j \in Jobs :
           LET h == Address(opts.names[j]) IN
           h \in Hosts =>
             /\ Provisionable(disk[h]) => Provisionable(disk'[h])
             /\ disk'[h].key = Torn => disk[h].key = Torn
             /\ pc'[j] = "install" => \/ disk'[h].cfg = Rendered(j)
                                      \/ pc[j] = "install" /\ disk'[h].cfg = disk[h].cfg
  PROVE  Settled'
<1>1. CleanNodes'
  BY CleanStays
<1>2. Sole'
  <2>1. \A j \in Jobs : pc'[j] \in Touching => pc[j] \in Touching
    BY DEF Touching, Placing
  <2>. QED
    BY <2>1, SoleStays
<1>3. Placed'
  <2> SUFFICES ASSUME NEW j \in Jobs, pc'[j] \in Touching \cup Placing, Alone(j)' PROVE Fine(j)'
    BY DEF Placed, Frame
  <2>1. pc[j] \in Touching \cup Placing
    BY DEF Touching, Placing
  <2>2. Node(j) \in Hosts
    BY <2>1, Where DEF Touching, Placing
  <2>3. Places(Node(j))
    BY <2>2
  <2>4. /\ disk'[Node(j)].stage = disk[Node(j)].stage /\ disk'[Node(j)].bin = disk[Node(j)].bin
        /\ Staging(writers'[Node(j)]) = Staging(writers[Node(j)])
    BY <2>3 DEF Places
  <2>. QED
    BY <2>4, StaysFine
<1>. QED
  BY <1>1, <1>2, <1>3 DEF Settled

LEMMA StopSettled ==
  ASSUME Typed, Settled, Frame, NEW i \in Jobs, StageFails(i) \/ Panic(i) \/ Hang(i)
  PROVE  Settled'
<1>1. /\ UNCHANGED <<hostVars, nodes, told, run, opts, disk, crossed, changes>>
      /\ clean' = FALSE
      /\ \E to \in {"failed", "zero", "hung"} : pc' = [pc EXCEPT ![i] = to]
      /\ \A h \in Hosts : /\ {w \in writers[h] : w.job # i} \subseteq writers'[h]
                          /\ \A w \in writers'[h] :
                               \/ w \in writers[h]
                               \/ \E v \in writers[h] : v.job = i /\ pc[i] = "staging" /\ w.on = v.on
  BY StopDoes
<1>2. pc \in [Jobs -> Stages \cup Ended]
  BY JobNumbers DEF Typed, Tied, JobsTyped
<1>3. pc'[i] \in {"failed", "zero", "hung"} /\ \A j \in Jobs \ {i} : pc'[j] = pc[j]
  BY <1>1, <1>2
<1>4. CleanNodes'
  BY <1>1 DEF CleanNodes
<1>5. Sole'
  BY <1>3, SoleStays DEF Touching
<1>6. Placed'
  <2> SUFFICES ASSUME NEW j \in Jobs, pc'[j] \in Touching \cup Placing, Alone(j)' PROVE Fine(j)'
    BY DEF Placed, Frame
  <2>1. j # i /\ pc'[j] = pc[j]
    BY <1>3 DEF Touching, Placing
  <2>2. Node(j) \in Hosts /\ Dialled(j)
    BY <2>1, Where DEF Touching, Placing
  <2>3. Fine(j)
    BY <2>1, <2>2, NeverAlone DEF Settled, Placed
  <2>4. pc[j] \in Touching => Staging(writers'[Node(j)]) = Staging(writers[Node(j)])
    <3> SUFFICES ASSUME pc[j] \in Touching
                 PROVE  Staging(writers'[Node(j)]) = Staging(writers[Node(j)])
      OBVIOUS
    <3>1. Staging(writers[Node(j)]) \subseteq {Me(j)}
      BY <2>3 DEF Fine, Touching
    <3>2. \A v \in Staging(writers[Node(j)]) : v.job # i
      BY <2>1, <3>1 DEF Me
    <3>. QED
      BY <1>1, <2>2, <3>2 DEF Staging
  <2>. QED
    BY <1>1, <2>1, <2>4, StaysFine
<1>. QED
  BY <1>4, <1>5, <1>6 DEF Settled

LEMMA StageSettled ==
  ASSUME Typed, Settled, Frame, NEW i \in Jobs, Stage(i)
  PROVE  Settled'
<1> DEFINE h == Node(i)
           met == {w \in writers[h] : w.on = "stage" /\ opts.upload = None}
           others == {j \in Jobs \ {i} : pc[j] \in {"staging", "chmod", "move"} /\ Node(j) = h}
<1>0. pc[i] = "stage" /\ Disks /\ JobsTyped /\ pc \in [Jobs -> Stages \cup Ended]
  BY JobNumbers DEF Stage, Typed, Tied, JobsTyped
<1>1. h \in Hosts /\ Dialled(i) /\ h = Address(opts.names[i])
  BY <1>0, Where
<1>2. /\ UNCHANGED <<hostVars, nodes, told, run, opts, clean, failures, changes>>
      /\ pc' = [pc EXCEPT ![i] = "staging"]
      /\ \A g \in Hosts \ {h} : disk'[g] = disk[g]
      /\ \E v \in {run, Mixed} :
           /\ disk'[h] = [disk[h] EXCEPT !.stage = Binary(h, v, FALSE)]
           /\ met = {} => v = run
      /\ writers' = [writers EXCEPT ![h] = {w \in @ : w.on = "bin"} \cup met \cup {Me(i)}]
      /\ crossed' = IF met # {} \/ others # {} THEN crossed \cup {h} ELSE crossed
  BY <1>0, <1>1, StageDoes
<1>3. /\ pc'[i] = "staging" /\ \A j \in Jobs \ {i} : pc'[j] = pc[j]
      /\ \A g \in Hosts \ {h} : writers'[g] = writers[g]
      /\ writers'[h] = {w \in writers[h] : w.on = "bin"} \cup met \cup {Me(i)}
  BY <1>0, <1>1, <1>2 DEF Disks
<1>4. Rest(disk[h], disk'[h]) /\ disk'[h].bin = disk[h].bin
      /\ (met = {} => disk'[h].stage = Binary(h, run, FALSE))
  <2>1. disk[h] \in Disk
    BY <1>0, <1>1 DEF Disks
  <2>2. PICK v : /\ disk'[h] = [disk[h] EXCEPT !.stage = Binary(h, v, FALSE)]
                 /\ met = {} => v = run
    BY <1>2
  <2>3. Rest(disk[h], disk'[h]) /\ disk'[h].bin = disk[h].bin /\ disk'[h].stage = Binary(h, v, FALSE)
    BY <2>1, <2>2 DEF Rest, Disk, Provisionable
  <2>. QED
    BY <2>2, <2>3
<1>5. Alone(i)' => met = {} /\ others = {}
  <2> SUFFICES ASSUME Alone(i)' PROVE met = {} /\ others = {}
    OBVIOUS
  <2>1. clean \/ h \notin crossed'
    BY <1>1, <1>2 DEF Alone, Frame
  <2>2. CASE h \notin crossed'
    BY <1>2, <2>2
  <2>3. CASE clean
    <3>1. /\ writers[h] \subseteq {Me(i)}
          /\ \A j \in Jobs : Address(opts.names[j]) = Address(opts.names[i]) => j = i
      BY <1>1, <2>3 DEF Settled, CleanNodes, CleanNode
    <3>2. met = {}
      <4>1. Me(i) \notin writers[h]
        <5>1. i # Late /\ Me(i).job = i
          BY JobNumbers, <1>0 DEF Late, Me
        <5>. QED
          BY <1>0, <1>1, <5>1 DEF Typed, WritersFit
      <4>. QED
        BY <3>1, <4>1
    <3>3. others = {}
      <4> SUFFICES ASSUME NEW j \in Jobs \ {i}, pc[j] \in {"staging", "chmod", "move"}, Node(j) = h
                   PROVE  FALSE
        OBVIOUS
      <4>1. Node(j) = Address(opts.names[j])
        BY Where
      <4>. QED
        BY <1>1, <3>1, <4>1
    <3>. QED
      BY <3>2, <3>3
  <2>. QED
    BY <2>1, <2>2, <2>3
<1> HIDE DEF met
<1>6. CleanNodes'
  <2>1. \A j \in Jobs : LET g == Address(opts.names[j]) IN
          clean' /\ g \in Hosts => writers'[g] \subseteq writers[g] \cup {Me(j)}
    <3> SUFFICES ASSUME NEW j \in Jobs, clean', Address(opts.names[j]) \in Hosts
                 PROVE  writers'[Address(opts.names[j])] \subseteq writers[Address(opts.names[j])] \cup {Me(j)}
      OBVIOUS
    <3>1. CASE Address(opts.names[j]) = h
      <4>1. j = i
        BY <1>1, <1>2, <3>1 DEF Settled, CleanNodes
      <4>. QED
        BY <1>3, <3>1, <4>1 DEF met
    <3>2. CASE Address(opts.names[j]) # h
      BY <1>3, <3>2
    <3>. QED
      BY <3>1, <3>2
  <2>2. \A g \in Hosts : /\ disk'[g].key = disk[g].key /\ disk'[g].cfg = disk[g].cfg
                         /\ Provisionable(disk[g]) => Provisionable(disk'[g])
    BY <1>2, <1>4 DEF Rest
  <2>3. \A j \in Jobs : pc'[j] = "install" => pc[j] = "install"
    BY <1>3
  <2>. QED
    BY <2>1, <2>2, <2>3, CleanStays
<1>7. Sole'
  <2> SUFFICES ASSUME NEW j \in Jobs, NEW k \in Jobs, j # k, pc'[j] \in Touching, pc'[k] \in Touching,
                      Node(j)' = Node(k)', Alone(j)'
               PROVE  FALSE
    BY DEF Sole, Frame
  <2>1. \A l \in Jobs \ {i} : pc'[l] \in Touching => pc[l] \in Touching /\ Dialled(l) /\ Node(l)' = Node(l)
    BY <1>3, Where DEF Touching, Frame
  <2>2. Node(i)' = h
    BY <1>1 DEF Frame
  <2>3. Alone(k)'
    BY DEF Alone
  <2>4. CASE j = i
    BY <1>5, <2>1, <2>2, <2>4 DEF Touching
  <2>5. CASE k = i
    BY <1>5, <2>1, <2>2, <2>3, <2>5 DEF Touching
  <2>6. CASE j # i /\ k # i
    <3>1. Alone(j) /\ Node(j) = Node(k) /\ pc[j] \in Touching /\ pc[k] \in Touching
      BY <2>1, <2>6, NeverAlone
    <3>. QED
      BY <3>1 DEF Settled, Sole
  <2>. QED
    BY <2>4, <2>5, <2>6
<1>8. Placed'
  <2> SUFFICES ASSUME NEW j \in Jobs, pc'[j] \in Touching \cup Placing, Alone(j)' PROVE Fine(j)'
    BY DEF Placed, Frame
  <2>1. CASE j = i
    <3>1. met = {} /\ Node(i)' = h /\ Me(i)' = Me(i) /\ run' = run /\ pc'[i] = "staging"
      BY <1>1, <1>2, <1>3, <1>5, <2>1 DEF Frame, Me
    <3>2. Staging(writers'[h]) = {Me(i)}
      BY <1>3, <3>1 DEF Staging, Me
    <3>3. Binary(h, run, FALSE)' = Binary(h, run, FALSE)
      BY <1>2, <3>1 DEF Binary
    <3>. QED
      BY <1>4, <2>1, <3>1, <3>2, <3>3 DEF Fine, Placing
  <2>2. CASE j # i
    <3>1. pc[j] = pc'[j] /\ Node(j) \in Hosts /\ Dialled(j)
      BY <1>3, <2>2, Where DEF Touching, Placing
    <3>2. pc[j] \in Touching => Node(j) # h
      <4> SUFFICES ASSUME pc[j] \in Touching, Node(j) = h PROVE FALSE
        OBVIOUS
      <4>1. Alone(i)'
        BY <1>1, <3>1 DEF Alone, Frame
      <4>. QED
        BY <1>5, <2>2, <4>1 DEF Touching
    <3>3. disk'[Node(j)].bin = disk[Node(j)].bin
      BY <1>2, <1>4, <3>1
    <3>4. Node(j) # h => disk'[Node(j)] = disk[Node(j)] /\ writers'[Node(j)] = writers[Node(j)]
      BY <1>2, <1>3, <3>1
    <3>. QED
      BY <3>1, <3>2, <3>3, <3>4, StaysFine
  <2>. QED
    BY <2>1, <2>2
<1>. QED
  BY <1>6, <1>7, <1>8 DEF Settled

LEMMA MoveSettled ==
  ASSUME Typed, Settled, Frame, NEW i \in Jobs, Move(i)
  PROVE  Settled'
<1> DEFINE h == Node(i)
           d == disk[h]
           moved == [d EXCEPT !.stage = None, !.bin = d.stage]
<1>0. pc[i] = "move" /\ Disks /\ JobsTyped /\ pc \in [Jobs -> Stages \cup Ended]
  BY JobNumbers DEF Move, Typed, Tied, JobsTyped
<1>1. h \in Hosts /\ Dialled(i) /\ h = Address(opts.names[i])
  BY <1>0, Where
<1>2. /\ UNCHANGED <<hostVars, nodes, told, run, opts, crossed, changes>>
      /\ \A g \in Hosts \ {h} : disk'[g] = disk[g]
      /\ \E to \in {"test", "failed"} :
           /\ pc' = [pc EXCEPT ![i] = to]
           /\ to = "failed" => ~clean' \/ d.stage = None
           /\ to = "test" => disk'[h] = moved /\ d.stage # None
      /\ \/ disk'[h] = d /\ writers' = writers
         \/ /\ disk'[h] = moved /\ d.stage # None
            /\ writers' = [writers EXCEPT ![h] = Moved(@)]
  BY <1>0, <1>1, MoveDoes
<1>3. /\ pc'[i] \in {"test", "failed"} /\ \A j \in Jobs \ {i} : pc'[j] = pc[j]
      /\ pc'[i] = "test" => disk'[h] = moved
      /\ \A g \in Hosts \ {h} : writers'[g] = writers[g]
      /\ writers'[h] = writers[h] \/ (writers'[h] = Moved(writers[h]) /\ disk'[h] = moved)
  BY <1>0, <1>1, <1>2 DEF Disks
<1>4. Rest(d, moved) /\ moved.bin = d.stage
  BY <1>0, <1>1 DEF Disks, Disk, Rest, Provisionable
<1>5. Rest(d, disk'[h]) /\ disk'[h].bin \in {d.bin, d.stage}
  BY <1>2, <1>4 DEF Rest
<1> HIDE DEF moved
<1>6. Sole'
  BY <1>3, SoleStays DEF Touching
<1>7. CleanNodes'
  <2>1. clean /\ writers[h] \subseteq {Me(i)} => writers'[h] = {}
    <3> SUFFICES ASSUME writers[h] \subseteq {Me(i)} PROVE writers'[h] = {}
      OBVIOUS
    <3>1. Me(i) \notin writers[h]
      <4>1. i # Late /\ Me(i).job = i
        BY JobNumbers, <1>0 DEF Late, Me
      <4>. QED
        BY <1>0, <1>1, <4>1 DEF Typed, WritersFit
    <3>. QED
      BY <1>3, <3>1 DEF Moved
  <2>2. \A j \in Jobs : LET g == Address(opts.names[j]) IN
          clean' /\ g \in Hosts => writers'[g] \subseteq writers[g] \cup {Me(j)}
    <3> SUFFICES ASSUME NEW j \in Jobs, clean', Address(opts.names[j]) \in Hosts
                 PROVE  writers'[Address(opts.names[j])] \subseteq writers[Address(opts.names[j])] \cup {Me(j)}
      OBVIOUS
    <3>1. CASE Address(opts.names[j]) = h
      <4>1. clean /\ writers[h] \subseteq {Me(i)}
        BY <1>1 DEF Settled, CleanNodes, CleanNode, Frame
      <4>. QED
        BY <2>1, <3>1, <4>1
    <3>2. CASE Address(opts.names[j]) # h
      BY <1>3, <3>2
    <3>. QED
      BY <3>1, <3>2
  <2>3. \A g \in Hosts : /\ disk'[g].key = disk[g].key /\ disk'[g].cfg = disk[g].cfg
                         /\ Provisionable(disk[g]) => Provisionable(disk'[g])
    BY <1>2, <1>5 DEF Rest
  <2>4. \A j \in Jobs : pc'[j] = "install" => pc[j] = "install"
    BY <1>3
  <2>. QED
    BY <2>2, <2>3, <2>4, CleanStays
<1>8. Placed'
  <2> SUFFICES ASSUME NEW j \in Jobs, pc'[j] \in Touching \cup Placing, Alone(j)' PROVE Fine(j)'
    BY DEF Placed, Frame
  <2>0. Node(j) = h => d.stage = Good(h)
    <3> SUFFICES ASSUME Node(j) = h PROVE d.stage = Good(h)
      OBVIOUS
    <3>1. Dialled(j)
      BY <1>0, <1>3, Where DEF Touching, Placing
    <3>2. Alone(i)
      BY <3>1, NeverAlone DEF Alone
    <3>. QED
      BY <1>0, <3>2 DEF Settled, Placed, Fine, Touching
  <2>1. CASE j = i
    <3>1. pc'[i] = "test" /\ Node(i)' = h /\ Good(h)' = Good(h) /\ d.stage = Good(h)
      BY <1>1, <1>3, <2>0, <2>1 DEF Touching, Placing, Frame, Good, Binary
    <3>2. disk'[h].bin = Good(h)
      BY <1>3, <1>4, <3>1
    <3>. QED
      BY <2>1, <3>1, <3>2 DEF Fine
  <2>2. CASE j # i
    <3>1. pc[j] = pc'[j] /\ Node(j) \in Hosts /\ Dialled(j)
      BY <1>3, <2>2, Where DEF Touching, Placing
    <3>2. pc[j] \in Touching => Node(j) # h
      <4> SUFFICES ASSUME pc[j] \in Touching, Node(j) = h PROVE FALSE
        OBVIOUS
      <4>1. Alone(i)
        BY <3>1, NeverAlone DEF Alone
      <4>. QED
        BY <1>0, <2>2, <4>1 DEF Settled, Sole, Touching
    <3>3. Node(j) # h => disk'[Node(j)] = disk[Node(j)] /\ writers'[Node(j)] = writers[Node(j)]
      BY <1>2, <1>3, <3>1
    <3>4. \/ disk'[Node(j)].bin = disk[Node(j)].bin
          \/ disk'[Node(j)].bin = Good(Node(j))
      BY <1>5, <2>0, <3>3
    <3>. QED
      BY <3>1, <3>2, <3>3, <3>4, StaysFine
  <2>. QED
    BY <2>1, <2>2
<1>. QED
  BY <1>6, <1>7, <1>8 DEF Settled

LEMMA SettledStays ==
  ASSUME Typed, Settled, [DNext]_dvars
  PROVE  Settled'
<1>0. Tied /\ HTypeOK /\ Disks /\ JobsTyped /\ pc \in [Jobs -> Stages \cup Ended]
  BY JobNumbers DEF Typed, Tied, JobsTyped
<1>1. CASE Begin
  <2>1. /\ nodes' = nodes /\ disk' = disk /\ writers' = writers
        /\ pc' = [i \in DOMAIN opts'.names |-> "waiting"]
        /\ clean' = CanSucceed(opts')
    BY <1>1 DEF Begin
  <2>2. Jobs' = DOMAIN opts'.names /\ \A i \in Jobs' : pc'[i] = "waiting"
    BY <2>1 DEF Jobs
  <2>3. Sole' /\ Placed'
    BY <2>2 DEF Sole, Placed, Touching, Placing
  <2>4. CleanNodes'
    BY <2>1, <2>2 DEF CleanNodes, CleanNode, CanSucceed, Address, Suits, Provisionable
  <2>. QED
    BY <2>3, <2>4 DEF Settled
<1>2. CASE GiveUp \/ \E n \in NodeNames, h \in Hosts : Join(n, h)
  <2>1. Jobs' = {}
    BY <1>2 DEF GiveUp, Join, Jobs
  <2>. QED
    BY <2>1 DEF Settled, Sole, Placed, CleanNodes
<1>3. CASE Reinstalled \/ UNCHANGED dvars
  <2>1. Frame
    BY <1>3, InOneRun DEF Within
  <2>2. UNCHANGED <<disk, writers, pc>>
    BY <1>3 DEF Reinstalled, dvars, runVars
  <2>3. \A h \in Hosts : Places(h)
    BY <2>2 DEF Places
  <2>. QED
    BY <2>1, <2>2, <2>3, QuietSettled
<1>4. ASSUME NEW h \in Hosts, LateEnds(h) PROVE Settled'
  <2>1. Frame
    BY <1>4, InOneRun DEF Within
  <2>2. PICK w \in writers[h] :
          w.job = Late /\ Leaves(h, w) /\ (Written(h, w) \/ UNCHANGED disk)
    BY <1>4 DEF LateEnds
  <2>3. UNCHANGED <<hostVars, nodes, run, opts, clean, crossed, pc>>
    BY <1>4 DEF LateEnds
  <2>4. PICK i : i \notin Jobs /\ i # Late
    <3>1. -1 \notin Jobs /\ -1 # Late
      BY <1>0, JobNumbers DEF Late
    <3>. QED
      BY <3>1
  <2>. QED
    BY <2>1, <2>2, <2>3, <2>4, EndsSettled
<1>6. ASSUME NEW h \in Hosts, LateBase(h) PROVE Settled'
  <2>1. Frame
    BY <1>6, InOneRun DEF Within
  <2>2. /\ UNCHANGED <<hostVars, nodes, run, opts, clean, crossed, pc, writers>>
        /\ \A g \in Hosts : Places(g) /\ Rest(disk[g], disk'[g])
    BY <1>0, <1>6, LateBaseDoes
  <2>. QED
    BY <2>1, <2>2, QuietSettled DEF Rest
<1>5. ASSUME NEW i \in Jobs, JobStep(i) \/ DialFails(i) \/ StageFails(i) \/ Panic(i) \/ Hang(i)
      PROVE  Settled'
  <2>0. Frame
    BY <1>5, InOneRun DEF Within
  <2>1. CASE Spawn(i) \/ NoAddress(i) \/ Arch(i) \/ Unsupported(i)
    <3>1. /\ UNCHANGED <<disk, writers>>
          /\ \E to \in {"arch", "base", "failed"} : pc' = [pc EXCEPT ![i] = to]
      BY <1>0, <2>1, StartDoes
    <3>2. \A h \in Hosts : Places(h)
      BY <3>1 DEF Places
    <3>3. \A j \in Jobs : pc'[j] = pc[j] \/ pc'[j] \in {"arch", "base", "failed"}
      BY <1>0, <3>1
    <3>. QED
      BY <2>0, <3>1, <3>2, <3>3, QuietSettled DEF Touching, Placing
  <2>2. CASE Dial(i) \/ DialFails(i)
    <3>1. UNCHANGED <<disk, writers, pc>>
      BY <1>0, <2>2, Dialling
    <3>2. \A h \in Hosts : Places(h)
      BY <3>1 DEF Places
    <3>. QED
      BY <2>0, <3>1, <3>2, QuietSettled
  <2>3. CASE Upper(i)
    <3>1. pc[i] \notin {"waiting", "arch", "failed", "zero", "hung"}
      BY <2>3 DEF Upper, Base, Chmod, Test, KeyInit, Config, Install
    <3>2. Node(i) \in Hosts /\ Node(i) = Address(opts.names[i])
      BY <3>1, Where
    <3>3. /\ writers' = writers
          /\ \A g \in Hosts \ {Node(i)} : disk'[g] = disk[g]
      BY <1>0, <2>3, <3>2, UpperDoes
    <3>4. PICK to \in (Stages \cup Ended) \ {"waiting", "arch"} :
            pc' = [pc EXCEPT ![i] = to] /\ Leaving(i, to, disk[Node(i)], disk'[Node(i)])
      BY <1>0, <2>3, <3>2, UpperDoes
    <3>5. \A h \in Hosts : Places(h)
      BY <3>3, <3>4 DEF Places, Leaving, Keeps
    <3>6. /\ pc'[i] = to /\ \A j \in Jobs \ {i} : pc'[j] = pc[j]
          /\ to = "failed" \/ <<pc[i], to>> \in Order
      BY <1>0, <3>4 DEF Leaving, Next
    <3>7. \A j \in Jobs : \/ pc'[j] = pc[j] \/ pc'[j] \notin Touching \cup Placing
                          \/ pc[j] = "chmod" /\ pc'[j] = "move"
                          \/ pc[j] \in Placing /\ pc'[j] \in Placing
      BY <3>6 DEF Order, Touching, Placing
    <3>8. clean' => \A j \in Jobs :
            LET h == Address(opts.names[j]) IN
            h \in Hosts =>
              /\ Provisionable(disk[h]) => Provisionable(disk'[h])
              /\ disk'[h].key = Torn => disk[h].key = Torn
              /\ pc'[j] = "install" => \/ disk'[h].cfg = Rendered(j)
                                       \/ pc[j] = "install" /\ disk'[h].cfg = disk[h].cfg
      <4> SUFFICES ASSUME clean', NEW j \in Jobs, Address(opts.names[j]) \in Hosts
                   PROVE  LET h == Address(opts.names[j]) IN
                          /\ Provisionable(disk[h]) => Provisionable(disk'[h])
                          /\ disk'[h].key = Torn => disk[h].key = Torn
                          /\ pc'[j] = "install" => \/ disk'[h].cfg = Rendered(j)
                                                   \/ pc[j] = "install" /\ disk'[h].cfg = disk[h].cfg
        OBVIOUS
      <4>1. CASE j = i
        <5>1. /\ Provisionable(disk[Node(i)]) => Provisionable(disk'[Node(i)])
              /\ disk'[Node(i)].key = Torn => disk[Node(i)].key = Torn
          BY <3>4 DEF Leaving
        <5>2. pc'[i] = "install" => disk'[Node(i)].cfg = Rendered(i)
          BY <3>4, <3>6 DEF Leaving, Next, Order
        <5>. QED
          BY <3>2, <4>1, <5>1, <5>2
      <4>2. CASE j # i
        <5>1. Address(opts.names[j]) # Node(i)
          BY <2>0, <3>2, <4>2 DEF Settled, CleanNodes, Frame
        <5>. QED
          BY <3>3, <3>6, <4>2, <5>1
      <4>. QED
        BY <4>1, <4>2
    <3>. QED
      BY <2>0, <3>3, <3>5, <3>7, <3>8, QuietSettled
  <2>4. CASE Staged(i)
    <3>1. /\ UNCHANGED <<hostVars, nodes, run, opts, clean, crossed>>
          /\ Node(i) \in Hosts /\ pc[i] = "staging"
          /\ \E to \in {"chmod", "move"} : pc' = [pc EXCEPT ![i] = to]
          /\ \/ UNCHANGED <<disk, writers>> /\ \A w \in writers[Node(i)] : w.job # i
             \/ \E w \in writers[Node(i)] : w.job = i /\ Written(Node(i), w) /\ Leaves(Node(i), w)
      BY <2>4, StagedDoes
    <3>2. pc'[i] \in {"chmod", "move"} /\ \A j \in Jobs \ {i} : pc'[j] = pc[j]
      BY <1>0, <3>1
    <3>3. i # Late
      BY <1>0, JobNumbers DEF Late
    <3>4. CASE \E w \in writers[Node(i)] : w.job = i /\ Written(Node(i), w) /\ Leaves(Node(i), w)
      BY <2>0, <3>1, <3>2, <3>3, <3>4, EndsSettled
    <3>5. CASE UNCHANGED <<disk, writers>> /\ \A w \in writers[Node(i)] : w.job # i
      <4>1. CleanNodes'
        BY <3>2, <3>5, <2>0, CleanStays
      <4>2. Sole'
        BY <2>0, <3>1, <3>2, SoleStays DEF Touching
      <4>3. Placed'
        <5> SUFFICES ASSUME NEW j \in Jobs, pc'[j] \in Touching \cup Placing, Alone(j)' PROVE Fine(j)'
          BY <2>0 DEF Placed, Frame
        <5>1. Dialled(i) /\ Dialled(j)
          BY <3>1, <3>2, Where DEF Touching, Placing
        <5>2. j # i
          <6> SUFFICES ASSUME j = i PROVE FALSE
            OBVIOUS
          <6>1. Me(i) \in writers[Node(i)]
            BY <2>0, <3>1, <5>1, NeverAlone DEF Settled, Placed, Fine, Touching, Staging
          <6>. QED
            BY <3>5, <6>1 DEF Me
        <5>. QED
          BY <2>0, <3>2, <3>5, <5>2, StaysFine
      <4>. QED
        BY <4>1, <4>2, <4>3 DEF Settled
    <3>. QED
      BY <3>1, <3>4, <3>5
  <2>5. CASE Stage(i)
    BY <2>0, <2>5, StageSettled
  <2>6. CASE Move(i)
    BY <2>0, <2>6, MoveSettled
  <2>7. CASE StageFails(i) \/ Panic(i) \/ Hang(i)
    BY <2>0, <2>7, StopSettled
  <2>. QED
    BY <1>5, <2>1, <2>2, <2>3, <2>4, <2>5, <2>6, <2>7 DEF JobStep, Upper
<1>. QED
  BY <1>1, <1>2, <1>3, <1>4, <1>5, <1>6 DEF DNext

LEMMA AlwaysSettled == DSpec => []Settled
<1>1. DInit => Settled
  BY DEF DInit, Jobs, Settled, Sole, Placed, CleanNodes
<1>. QED
  BY <1>1, SettledStays, AlwaysTyped, PTL DEF DSpec

-----------------------------------------------------------------------------
(* What a step makes of a node's disk. *)
LEMMA DiskMoves ==
  ASSUME Typed, Within, NEW h \in Hosts
  PROVE  /\ Rest(disk[h], disk'[h]) \/ \E i \in Jobs : Upper(i) /\ Node(i) = h
         /\ \/ disk'[h].bin = disk[h].bin
            \/ /\ disk[h].bin = None => disk'[h].bin = None
               /\ disk[h].bin # None /\ disk[h].bin.whole => disk'[h].bin = disk[h].bin
            \/ \E i \in Jobs : Move(i) /\ Node(i) = h /\ disk'[h].bin = disk[h].stage
<1> DEFINE d == disk[h]
           e == disk'[h]
           Goal == /\ Rest(disk[h], disk'[h]) \/ \E i \in Jobs : Upper(i) /\ Node(i) = h
                   /\ \/ disk'[h].bin = disk[h].bin
                      \/ /\ disk[h].bin = None => disk'[h].bin = None
                         /\ disk[h].bin # None /\ disk[h].bin.whole => disk'[h].bin = disk[h].bin
                      \/ \E i \in Jobs : Move(i) /\ Node(i) = h /\ disk'[h].bin = disk[h].stage
<1> SUFFICES Goal
  OBVIOUS
<1>0. Tied /\ HTypeOK /\ Disks /\ JobsTyped
  BY DEF Typed, Tied
<1>1. ASSUME e = d PROVE Goal
  BY <1>1 DEF Rest
<1>2. ASSUME NEW g \in Hosts, NEW w \in writers[g], Leaves(g, w), Written(g, w) \/ UNCHANGED disk
      PROVE  Goal
  <2>1. CASE g = h
    BY <1>2, <2>1, LeavesDoes
  <2>2. CASE g # h
    <3>1. e = d
      BY <1>2, <2>2, LeavesDoes
    <3>. QED
      BY <1>1, <3>1
  <2>. QED
    BY <2>1, <2>2
<1>3. CASE Reinstalled \/ UNCHANGED dvars
  BY <1>1, <1>3 DEF Reinstalled, dvars, runVars
<1>4. ASSUME NEW g \in Hosts, LateEnds(g) \/ LateBase(g) PROVE Goal
  <2>1. CASE LateEnds(g)
    BY <1>2, <2>1 DEF LateEnds
  <2>2. CASE LateBase(g)
    BY <1>0, <2>2, LateBaseDoes DEF Places
  <2>. QED
    BY <1>4, <2>1, <2>2
<1>5. ASSUME NEW i \in Jobs, Upper(i) PROVE Goal
  <2>1. Node(i) \in Hosts
    <3>1. pc[i] \notin {"waiting", "arch", "failed", "zero", "hung"}
      BY <1>5 DEF Upper, Base, Chmod, Test, KeyInit, Config, Install
    <3>. QED
      BY <3>1, Where
  <2>2. CASE Node(i) = h
    <3>1. e.bin = d.bin
      BY <1>0, <1>5, <2>1, <2>2, UpperDoes DEF Leaving, Keeps
    <3>. QED
      BY <1>5, <2>2, <3>1
  <2>3. CASE Node(i) # h
    <3>1. e = d
      BY <1>0, <1>5, <2>1, <2>3, UpperDoes
    <3>. QED
      BY <1>1, <3>1
  <2>. QED
    BY <2>2, <2>3
<1>6. ASSUME NEW i \in Jobs, Move(i) PROVE Goal
  <2>1. Node(i) \in Hosts
    <3>1. pc[i] = "move"
      BY <1>6 DEF Move
    <3>. QED
      BY <3>1, Where
  <2> DEFINE moved == [disk[Node(i)] EXCEPT !.stage = None, !.bin = disk[Node(i)].stage]
  <2>2. /\ \A g \in Hosts \ {Node(i)} : disk'[g] = disk[g]
        /\ disk'[Node(i)] = disk[Node(i)] \/ disk'[Node(i)] = moved
    BY <1>0, <1>6, <2>1, MoveDoes
  <2>3. Rest(disk[Node(i)], moved) /\ moved.bin = disk[Node(i)].stage
    BY <1>0, <2>1 DEF Disks, Disk, Rest, Provisionable
  <2> HIDE DEF moved
  <2>4. CASE Node(i) = h /\ disk'[Node(i)] = moved
    BY <1>6, <2>3, <2>4
  <2>. QED
    BY <1>1, <2>2, <2>4
<1>7. ASSUME NEW i \in Jobs, Stage(i) PROVE Goal
  <2>1. Node(i) \in Hosts
    <3>1. pc[i] = "stage"
      BY <1>7 DEF Stage
    <3>. QED
      BY <3>1, Where
  <2>2. /\ \A g \in Hosts \ {Node(i)} : disk'[g] = disk[g]
        /\ \E v : disk'[Node(i)] = [disk[Node(i)] EXCEPT !.stage = Binary(Node(i), v, FALSE)]
    BY <1>0, <1>7, <2>1, StageDoes
  <2>3. CASE Node(i) = h
    <3>1. Rest(d, e) /\ e.bin = d.bin
      BY <1>0, <2>1, <2>2, <2>3 DEF Disks, Disk, Rest, Provisionable
    <3>. QED
      BY <3>1
  <2>. QED
    BY <1>1, <2>2, <2>3
<1>8. ASSUME NEW i \in Jobs, Staged(i) PROVE Goal
  BY <1>1, <1>2, <1>8, StagedDoes
<1>9. ASSUME NEW i \in Jobs, StageFails(i) \/ Panic(i) \/ Hang(i) \/ Spawn(i) \/ NoAddress(i)
                               \/ Arch(i) \/ Unsupported(i) \/ Dial(i) \/ DialFails(i)
      PROVE  Goal
  BY <1>0, <1>1, <1>9, StopDoes, StartDoes, Dialling
<1> HIDE DEF Goal
<1>. QED
  BY <1>3, <1>4, <1>5, <1>6, <1>7, <1>8, <1>9 DEF Within, JobStep, Upper

(* Whatever fails, and however a deploy stops, a node on which no two      *)
(* writers met has a whole binary of one release, once it had one; and one *)
(* for its architecture, unless the operator uploaded another.             *)
THEOREM NeverBroken == DSpec => []KeepsWorking
<1>1. DInit => KeepsWorking
  BY DEF DInit, KeepsWorking, Empty
<1>2. Typed /\ Settled /\ KeepsWorking /\ [DNext]_dvars => KeepsWorking'
  <2> DEFINE Works(h, b) == b.whole /\ b.v # Mixed /\ (b.arch = ArchOf[h] \/ b.upload)
  <2> SUFFICES ASSUME Typed, Settled, KeepsWorking, [DNext]_dvars,
                      NEW h \in Hosts, h \notin crossed', disk'[h].bin # None
               PROVE  Works(h, disk'[h].bin)
    BY DEF KeepsWorking
  <2>1. CASE Begin \/ GiveUp \/ \E n \in NodeNames, g \in Hosts : Join(n, g)
    <3>1. UNCHANGED <<disk, crossed>>
      BY <2>1 DEF Begin, GiveUp, Join
    <3>. QED
      BY <3>1 DEF KeepsWorking
  <2>2. CASE Within
    <3>1. h \notin crossed
      BY <2>2, InOneRun DEF Frame
    <3>2. disk[h].bin # None => Works(h, disk[h].bin)
      BY <3>1 DEF KeepsWorking
    <3>3. CASE \E i \in Jobs : Move(i) /\ Node(i) = h /\ disk'[h].bin = disk[h].stage
      <4>1. PICK i \in Jobs : pc[i] = "move" /\ Node(i) = h /\ disk'[h].bin = disk[h].stage
        BY <3>3 DEF Move
      <4>2. disk[h].stage = Good(h)
        BY <3>1, <4>1 DEF Settled, Placed, Alone, Fine, Touching
      <4>3. Works(h, Good(h))
        BY GoodFile DEF Typed, Tied
      <4>. QED
        BY <4>1, <4>2, <4>3
    <3> HIDE DEF Works
    <3>4. CASE disk'[h].bin = disk[h].bin
      BY <3>2, <3>4
    <3>5. CASE ~ (\E i \in Jobs : Move(i) /\ Node(i) = h /\ disk'[h].bin = disk[h].stage)
               /\ disk'[h].bin # disk[h].bin
      <4>1. disk[h].bin # None /\ ~ disk[h].bin.whole
        BY <2>2, <3>5, DiskMoves
      <4>. QED
        BY <3>2, <4>1 DEF Works
    <3>. QED
      BY <3>3, <3>4, <3>5
  <2>. QED
    BY <2>1, <2>2 DEF DNext, Within
<1>. QED
  BY <1>1, <1>2, AlwaysTyped, AlwaysSettled, PTL DEF DSpec

-----------------------------------------------------------------------------
(* What a deploy leaves on a node. *)

(* No row of the node has failed so far.                                   *)
AllWell(h) == \A j \in RowsAt(h) : pc[j] \notin {"failed", "zero"}

Configs(h) == {Rendered(j) : j \in RowsAt(h)}

(* What this deploy brings can run there.                                  *)
Suited(h) == Good(h).arch = ArchOf[h]

BroughtTo(i) ==
  LET h == Node(i)
      d == disk[h]
  IN
  /\ pc[i] \in {"stage"} \cup Touching \cup Placing => d.podman
  /\ pc[i] \in {"config", "install", "ok"} => d.key = "made" /\ (h \notin crossed => Suited(h))
  /\ pc[i] = "install" \/ (pc[i] = "ok" /\ opts.boot) => (AllWell(h) => d.cfg \in Configs(h))
  /\ pc[i] = "ok" /\ opts.boot => d.timer /\ (AllWell(h) => d.unit \notin {None, Torn})

Brought == \A i \in Jobs : BroughtTo(i)

LEMMA RealConfigs == ASSUME JobsTyped PROVE \A h : Configs(h) \cap {None, Torn} = {}
<1>1. \A j \in Jobs : Rendered(j) \in Nat \X NodeNames
  BY JobNumbers, BoundsOfDeploy DEF JobsTyped, Rendered
<1>2. (Nat \X NodeNames) \cap {None, Torn} = {}
  BY NotData
<1>. QED
  BY <1>1, <1>2 DEF Configs, RowsAt

(* Rows stay, and one that failed stays failed.                            *)
LEMMA RowsStay ==
  ASSUME Typed, Within, NEW h
  PROVE  /\ RowsAt(h) \subseteq RowsAt(h)' /\ Configs(h) \subseteq Configs(h)'
         /\ AllWell(h)' => AllWell(h)
<1>1. Frame
  BY InOneRun
<1>2. RowsAt(h) \subseteq RowsAt(h)'
  BY <1>1 DEF RowsAt, Frame
<1>3. Configs(h) \subseteq Configs(h)'
  BY <1>1, <1>2 DEF Configs, Rendered, Frame
<1>4. \A j \in Jobs : pc[j] \in {"failed", "zero"} => pc'[j] = pc[j]
  <2>0. JobsTyped /\ pc \in [Jobs -> Stages \cup Ended]
    BY JobNumbers DEF Typed, Tied, JobsTyped
  <2>1. ASSUME NEW i \in Jobs, JobStep(i) \/ DialFails(i) \/ StageFails(i) \/ Panic(i) \/ Hang(i)
        PROVE  pc[i] \notin {"failed", "zero"}
    <3>1. CASE Spawn(i) \/ Dial(i) \/ NoAddress(i) \/ Arch(i) \/ DialFails(i)
      BY <3>1 DEF Spawn, Dial, NoAddress, Arch, DialFails
    <3>4. CASE StageFails(i) \/ Panic(i) \/ Hang(i)
      BY <3>4 DEF StageFails, Panic, Hang, Ended
    <3>2. CASE Base(i) \/ Unsupported(i) \/ Stage(i) \/ Staged(i) \/ Chmod(i) \/ Move(i)
      BY <3>2 DEF Base, Unsupported, Stage, Staged, Chmod, Move
    <3>3. CASE Test(i) \/ KeyInit(i) \/ Config(i) \/ Install(i)
      BY <3>3 DEF Test, KeyInit, Config, Install
    <3>. QED
      BY <2>1, <3>1, <3>2, <3>3, <3>4 DEF JobStep
  <2>2. ASSUME NEW i \in Jobs, JobStep(i) \/ DialFails(i) \/ StageFails(i) \/ Panic(i) \/ Hang(i)
        PROVE  \A j \in Jobs : pc[j] \in {"failed", "zero"} => pc'[j] = pc[j]
    BY <2>0, <2>1, <2>2, JobMoves
  <2>3. CASE Reinstalled \/ (\E g \in Hosts : LateEnds(g) \/ LateBase(g)) \/ UNCHANGED dvars
    BY <2>3 DEF Reinstalled, LateEnds, LateBase, dvars, runVars
  <2>. QED
    BY <2>2, <2>3 DEF Within
<1>5. AllWell(h)' => AllWell(h)
  BY <1>2, <1>4 DEF AllWell, RowsAt
<1>. QED
  BY <1>2, <1>3, <1>5

(* The steps that bring nothing.                                           *)
LEMMA BroughtRests ==
  ASSUME Typed, Within, Brought,
         \A h \in Hosts : Rest(disk[h], disk'[h]),
         NEW i \in Jobs,
         \/ pc'[i] = pc[i]
         \/ pc'[i] \in {"waiting", "arch", "base", "failed", "zero", "hung"}
         \/ pc[i] \in {"stage"} \cup Touching /\ pc'[i] \in Touching \cup {"test"}
  PROVE  BroughtTo(i)'
<1>1. CASE pc'[i] \in {"waiting", "arch", "base", "failed", "zero", "hung"}
  BY <1>1 DEF BroughtTo, Touching, Placing
<1>2. CASE pc'[i] \notin {"waiting", "arch", "base", "failed", "zero", "hung"}
  <2>1. pc[i] \notin {"waiting", "arch", "failed", "zero", "hung"}
    BY <1>2 DEF Touching
  <2>2. PICK h \in Hosts : h = Node(i)
    BY <2>1, Where
  <2>3. /\ Node(i)' = h /\ opts' = opts /\ Rest(disk[h], disk'[h])
        /\ h \in crossed => h \in crossed'
        /\ Suited(h)' = Suited(h)
    BY <2>1, <2>2, Where, InOneRun DEF Frame, Suited, Good, Binary
  <2>4. BroughtTo(i)
    BY DEF Brought
  <2>5. /\ AllWell(h)' => AllWell(h)
        /\ Configs(h) \subseteq Configs(h)'
    BY RowsStay
  <2>. QED
    <3>1. pc'[i] = pc[i] \/ (pc[i] \in {"stage"} \cup Touching /\ pc'[i] \in Touching \cup {"test"})
      BY <1>2
    <3>2. /\ pc'[i] \in {"stage"} \cup Touching \cup Placing => disk'[h].podman
          /\ pc'[i] \in {"config", "install", "ok"} =>
               disk'[h].key = "made" /\ (h \notin crossed' => Suited(h)')
      BY <2>2, <2>3, <2>4, <3>1 DEF BroughtTo, Rest, Touching, Placing
    <3>3. pc'[i] = "install" \/ (pc'[i] = "ok" /\ opts.boot) =>
            (AllWell(h)' => disk'[h].cfg \in Configs(h)')
      BY <2>2, <2>3, <2>4, <2>5, <3>1 DEF BroughtTo, Rest, Touching
    <3>4. pc'[i] = "ok" /\ opts.boot => disk'[h].timer /\ (AllWell(h)' => disk'[h].unit \notin {None, Torn})
      BY <2>2, <2>3, <2>4, <2>5, <3>1 DEF BroughtTo, Rest, Touching
    <3>. QED
      BY <2>3, <3>2, <3>3, <3>4 DEF BroughtTo
<1>. QED
  BY <1>1, <1>2

(* The steps that bring something. *)
LEMMA BroughtUp ==
  ASSUME Typed, Settled, Within, Brought, NEW k \in Jobs, Upper(k), NEW i \in Jobs
  PROVE  BroughtTo(i)'
<1>0. Tied /\ HTypeOK /\ Disks /\ JobsTyped /\ pc \in [Jobs -> Stages \cup Ended]
  BY JobNumbers DEF Typed, Tied, JobsTyped
<1>1. pc[k] \in {"base", "chmod", "test", "key", "config", "install"}
  BY DEF Upper, Base, Chmod, Test, KeyInit, Config, Install
<1>2. PICK h \in Hosts : h = Node(k)
  BY <1>1, Where
<1>3. /\ \A g \in Hosts \ {h} : disk'[g] = disk[g]
      /\ \E to \in (Stages \cup Ended) \ {"waiting", "arch"} :
           pc' = [pc EXCEPT ![k] = to] /\ Leaving(k, to, disk[h], disk'[h])
  BY <1>0, <1>2, UpperDoes
<1>4. PICK to : pc' = [pc EXCEPT ![k] = to] /\ Leaving(k, to, disk[h], disk'[h])
  BY <1>3
<1>5. pc'[k] = to /\ \A j \in Jobs \ {k} : pc'[j] = pc[j]
  BY <1>0, <1>4
<1>6. /\ Keeps(disk[h], disk'[h])
      /\ to # "failed" => Next(k, to, disk[h], disk'[h])
  BY <1>4 DEF Leaving
<1>7. /\ k \in RowsAt(h) /\ k \in RowsAt(h)'
      /\ AllWell(h)' => AllWell(h) /\ to # "failed"
      /\ Configs(h) \subseteq Configs(h)' /\ Rendered(k) \in Configs(h)'
      /\ Configs(h) \cap {None, Torn} = {}
  <2>1. k \in RowsAt(h)
    BY <1>1, <1>2, Where DEF RowsAt
  <2>2. RowsAt(h) \subseteq RowsAt(h)' /\ Configs(h) \subseteq Configs(h)' /\ (AllWell(h)' => AllWell(h))
    BY RowsStay
  <2>3. AllWell(h)' => to # "failed"
    BY <1>5, <2>1, <2>2 DEF AllWell
  <2>4. Rendered(k) \in Configs(h)
    BY <2>1 DEF Configs
  <2>. QED
    BY <1>0, <2>1, <2>2, <2>3, <2>4, RealConfigs
<1>8. BroughtTo(i) /\ BroughtTo(k)
  BY DEF Brought
<1>9. UNCHANGED <<opts, run, crossed>> /\ \A g : Suited(g)' = Suited(g)
  BY <1>0, <1>2, UpperDoes, InOneRun DEF Frame, Suited, Good, Binary
<1>10. CASE i = k
  <2>1. Node(i)' = h
    BY <1>1, <1>2, <1>10, Where, InOneRun DEF Frame
  <2>2. CASE to = "failed"
    BY <1>5, <1>10, <2>2 DEF BroughtTo, Touching, Placing
  <2>3. CASE to # "failed"
    <3>1. Next(k, to, disk[h], disk'[h]) /\ <<pc[k], to>> \in Order
      BY <1>6, <2>3 DEF Next
    <3>2. to \in {"stage"} \cup Touching \cup Placing => disk'[h].podman
      BY <1>2, <1>6, <1>8, <3>1 DEF BroughtTo, Keeps, Next, Order, Touching, Placing
    <3>3. to \in {"config", "install", "ok"} => disk'[h].key = "made"
      BY <1>2, <1>6, <1>8, <3>1 DEF BroughtTo, Keeps, Next, Order
    <3>6. to \in {"config", "install", "ok"} /\ h \notin crossed => Suited(h)
      <4>1. CASE pc[k] = "key"
        <5>1. h \notin crossed => disk[h].bin = Good(h)
          BY <1>2, <4>1 DEF Settled, Placed, Alone, Fine, Placing
        <5>2. Runnable(h)
          BY <1>2, <3>1, <4>1 DEF Next
        <5>. QED
          BY <5>1, <5>2 DEF Runnable, Suited
      <4>2. CASE pc[k] # "key"
        BY <1>2, <1>8, <3>1, <4>2 DEF BroughtTo, Order
      <4>. QED
        BY <4>1, <4>2
    <3>4. to = "install" \/ (to = "ok" /\ opts.boot) => (AllWell(h)' => disk'[h].cfg \in Configs(h)')
      BY <1>2, <1>7, <1>8, <3>1 DEF BroughtTo, Next, Order
    <3>5. to = "ok" /\ opts.boot =>
            disk'[h].timer /\ (AllWell(h)' => disk'[h].unit \notin {None, Torn})
      BY <1>2, <1>7, <1>8, <3>1 DEF BroughtTo, Next, Order
    <3>. QED
      BY <1>5, <1>9, <1>10, <2>1, <3>2, <3>3, <3>4, <3>5, <3>6 DEF BroughtTo
  <2>. QED
    BY <2>2, <2>3
<1>11. CASE i # k /\ pc[i] \in {"stage"} \cup Touching \cup Placing
  <2>1. PICK g \in Hosts : g = Node(i)
    BY <1>11, Where DEF Touching, Placing
  <2>2. Node(i)' = g /\ pc'[i] = pc[i]
    BY <1>5, <1>11, <2>1, Where, InOneRun DEF Frame, Touching, Placing
  <2>3. CASE g = h
    <3>1. pc[i] \in {"stage"} \cup Touching \cup Placing => disk'[h].podman
      BY <1>6, <1>8, <2>1, <2>3 DEF BroughtTo, Keeps
    <3>2. pc[i] \in {"config", "install", "ok"} =>
            disk'[h].key = "made" /\ (h \notin crossed => Suited(h))
      BY <1>6, <1>8, <2>1, <2>3 DEF BroughtTo, Keeps
    <3>3. pc[i] = "install" \/ (pc[i] = "ok" /\ opts.boot) => (AllWell(h)' => disk'[h].cfg \in Configs(h)')
      BY <1>6, <1>7, <1>8, <2>1, <2>3 DEF BroughtTo, Next
    <3>4. pc[i] = "ok" /\ opts.boot =>
            disk'[h].timer /\ (AllWell(h)' => disk'[h].unit \notin {None, Torn})
      <4>1. pc[i] = "ok" /\ opts.boot => disk'[h].timer
        BY <1>6, <1>8, <2>1, <2>3 DEF BroughtTo, Keeps
      <4> SUFFICES ASSUME pc[i] = "ok", opts.boot, AllWell(h)' PROVE disk'[h].unit \notin {None, Torn}
        BY <4>1
      <4>2. disk[h].unit \notin {None, Torn} /\ Next(k, to, disk[h], disk'[h])
        BY <1>6, <1>7, <1>8, <2>1, <2>3 DEF BroughtTo
      <4>3. pc[k] = "install" => disk[h].cfg \notin {None, Torn}
        BY <1>2, <1>7, <1>8 DEF BroughtTo
      <4>. QED
        BY <4>2, <4>3 DEF Next
    <3>. QED
      BY <1>9, <2>2, <2>3, <3>1, <3>2, <3>3, <3>4 DEF BroughtTo
  <2>4. CASE g # h
    <3>1. disk'[g] = disk[g] /\ Configs(g) \subseteq Configs(g)' /\ (AllWell(g)' => AllWell(g))
      BY <1>3, <2>4, RowsStay
    <3>. QED
      BY <1>8, <1>9, <2>1, <2>2, <3>1 DEF BroughtTo
  <2>. QED
    BY <2>3, <2>4
<1>12. CASE i # k /\ pc[i] \notin {"stage"} \cup Touching \cup Placing
  BY <1>5, <1>12 DEF BroughtTo, Placing
<1>. QED
  BY <1>10, <1>11, <1>12

LEMMA BroughtStays ==
  ASSUME Typed, Settled, Brought, [DNext]_dvars
  PROVE  Brought'
<1>0. Tied /\ HTypeOK /\ Disks /\ JobsTyped /\ pc \in [Jobs -> Stages \cup Ended]
  BY JobNumbers DEF Typed, Tied, JobsTyped
<1>1. CASE Begin
  <2>1. \A i \in Jobs' : pc'[i] = "waiting"
    BY <1>1 DEF Begin, Jobs
  <2>. QED
    BY <2>1 DEF Brought, BroughtTo, Touching, Placing
<1>2. CASE GiveUp \/ \E n \in NodeNames, h \in Hosts : Join(n, h)
  <2>1. Jobs' = {}
    BY <1>2 DEF GiveUp, Join, Jobs
  <2>. QED
    BY <2>1 DEF Brought
<1>3. ASSUME NEW k \in Jobs, Upper(k) PROVE Brought'
  <2>1. Within /\ Jobs' = Jobs
    BY <1>3, InOneRun DEF Within, JobStep, Upper, Frame
  <2>. QED
    BY <1>3, <2>1, BroughtUp DEF Brought
<1>4. ASSUME Within, \A k \in Jobs : ~Upper(k) PROVE Brought'
  <2>1. \A h \in Hosts : Rest(disk[h], disk'[h])
    BY <1>4, DiskMoves
  <2>2. ASSUME NEW k \in Jobs, JobStep(k) \/ DialFails(k) \/ StageFails(k) \/ Panic(k) \/ Hang(k), NEW i \in Jobs
        PROVE  \/ pc'[i] = pc[i]
               \/ pc'[i] \in {"waiting", "arch", "base", "failed", "zero", "hung"}
               \/ pc[i] \in {"stage"} \cup Touching /\ pc'[i] \in Touching \cup {"test"}
    <3>1. CASE Spawn(k) \/ NoAddress(k) \/ Arch(k) \/ Unsupported(k)
      BY <1>0, <3>1, StartDoes
    <3>2. CASE Dial(k) \/ DialFails(k)
      BY <1>0, <3>2, Dialling
    <3>3. CASE Stage(k)
      BY <1>0, <3>3 DEF Stage, Goes, Touching
    <3>4. CASE Staged(k)
      BY <1>0, <3>4, StagedDoes DEF Touching
    <3>5. CASE Move(k)
      <4>1. pc[k] = "move" /\ \E to \in {"test", "failed"} : pc' = [pc EXCEPT ![k] = to]
        BY <3>5 DEF Move, Hopeless, Command, Goes
      <4>. QED
        BY <1>0, <4>1 DEF Touching
    <3>6. CASE StageFails(k) \/ Panic(k) \/ Hang(k)
      BY <1>0, <3>6, StopDoes
    <3>. QED
      BY <1>4, <2>2, <3>1, <3>2, <3>3, <3>4, <3>5, <3>6 DEF JobStep, Upper
  <2>3. \A i \in Jobs : \/ pc'[i] = pc[i]
                        \/ pc'[i] \in {"waiting", "arch", "base", "failed", "zero", "hung"}
                        \/ pc[i] \in {"stage"} \cup Touching /\ pc'[i] \in Touching \cup {"test"}
    <3>1. CASE Reinstalled \/ (\E h \in Hosts : LateEnds(h) \/ LateBase(h)) \/ UNCHANGED dvars
      BY <3>1 DEF Reinstalled, LateEnds, LateBase, dvars, runVars
    <3>. QED
      BY <1>4, <2>2, <3>1 DEF Within
  <2>4. Jobs' = Jobs
    BY <1>4, InOneRun DEF Frame
  <2>. QED
    BY <1>4, <2>1, <2>3, <2>4, BroughtRests DEF Brought
<1>. QED
  BY <1>1, <1>2, <1>3, <1>4 DEF DNext, Within

(* A row that says OK says so of the node that the operator last told, and *)
(* of a node that has what this deploy was to bring.                       *)
THEOREM OkRowsAreTrue == DSpec => []OkIsDeployed
<1>1. DInit => Brought
  BY DEF DInit, Jobs, Brought
<1>2. Typed /\ Settled /\ ToldTrue /\ Brought => OkIsDeployed
  <2> SUFFICES ASSUME Typed, Settled, ToldTrue, Brought, Returned, NEW i \in Jobs, pc[i] = "ok"
               PROVE  LET h == Node(i)
                          d == disk[h]
                      IN
                      /\ told[opts.names[i]] \in {None, h}
                      /\ (\A j \in RowsAt(h) : pc[j] = "ok") /\ h \notin crossed =>
                           /\ d.bin = Binary(h, run, TRUE) /\ Runnable(h) /\ d.key = "made" /\ d.podman
                           /\ opts.boot => /\ d.cfg \in {Rendered(j) : j \in RowsAt(h)}
                                           /\ d.timer /\ d.unit \notin {None, Torn}
    BY DEF OkIsDeployed
  <2>1. Node(i) \in Hosts /\ Node(i) = Address(opts.names[i]) /\ opts.names[i] \in NodeNames
    BY Where, JobNumbers DEF Typed, Tied
  <2>2. Node(i) # None
    BY <2>1, NotData
  <2>3. told[opts.names[i]] \in {None, Node(i)}
    BY <2>1, <2>2 DEF ToldTrue
  <2>4. BroughtTo(i)
    BY DEF Brought
  <2>5. Node(i) \notin crossed => disk[Node(i)].bin = Binary(Node(i), run, TRUE) /\ Runnable(Node(i))
    <3> SUFFICES ASSUME Node(i) \notin crossed
                 PROVE  disk[Node(i)].bin = Binary(Node(i), run, TRUE) /\ Runnable(Node(i))
      OBVIOUS
    <3>1. disk[Node(i)].bin = Good(Node(i))
      BY DEF Settled, Placed, Alone, Fine, Placing
    <3>2. Suited(Node(i))
      BY <2>4 DEF BroughtTo
    <3>. QED
      BY <2>1, <3>1, <3>2, GoodFile DEF Good, Suited, Runnable, Typed, Tied
  <2>6. (\A j \in RowsAt(Node(i)) : pc[j] = "ok") => AllWell(Node(i))
    BY DEF AllWell
  <2>. QED
    BY <2>3, <2>4, <2>5, <2>6 DEF BroughtTo, Placing, Configs
<1>. QED
  BY <1>1, <1>2, BroughtStays, AlwaysTyped, AlwaysSettled, AlwaysTold, PTL DEF DSpec

-----------------------------------------------------------------------------
(* A clean run. *)

(* A row of a clean run has not failed, and its host is the one that was   *)
(* pinned, if any, to the last connection that still has to look.          *)
CleanRow(i) ==
  LET h == Address(opts.names[i])
      c == conn[Conn(i)]
  IN
  /\ pc[i] \notin {"failed", "zero"}
  /\ known[h] \subseteq server[h]
  /\ c.at \notin {"failed", "rejected"}
  /\ c.at = "read" => c.snap = known[h]
  /\ c.at = "pin" => known[h] = {} /\ c.key \in server[h]

CleanRows == clean => \A i \in Jobs : CleanRow(i)

(* A host that has a key, and what is pinned for it, offers one.           *)
LEMMA Offering ==
  ASSUME HTypeOK, {} \notin KeySets, NEW h \in Hosts, known[h] \subseteq server[h]
  PROVE  Offered(h) # {}
<1>1. server[h] # {}
  BY DEF HTypeOK
<1>2. CASE known[h] = {}
  BY <1>1, <1>2 DEF Offered
<1>3. CASE known[h] # {}
  BY <1>3 DEF Offered
<1>. QED
  BY <1>2, <1>3

(* Each job has a node of its own, at its address.                         *)
LEMMA OwnNode ==
  ASSUME Typed, Settled, clean, NEW i \in Jobs
  PROVE  /\ Address(opts.names[i]) \in Hosts
         /\ \A j \in Jobs \ {i} : Address(opts.names[j]) # Address(opts.names[i])
         /\ Dialled(i) => Node(i) = Address(opts.names[i])
<1>1. Address(opts.names[i]) \in Hosts \cup {None}
  BY JobNumbers, Addresses DEF Address, Typed, Tied, JobsTyped
<1>2. CleanNode(i) /\ \A j \in Jobs \ {i} : Address(opts.names[j]) # Address(opts.names[i])
  BY DEF Settled, CleanNodes
<1>. QED
  BY <1>1, <1>2 DEF CleanNode, Typed, Tied, Addressed

(* Nobody is turned away. *)
LEMMA DialClean ==
  ASSUME Typed, Settled, CleanRows, {} \notin KeySets, clean, NEW i \in Jobs, Dial(i)
  PROVE  CleanRows'
<1> DEFINE h == Address(opts.names[i])
           c == Conn(i)
<1>0. HTypeOK /\ JobsTyped /\ c \in Conns
  BY DEF Typed, Tied, JobsTyped
<1>1. /\ UNCHANGED <<nodes, run, opts, pc, server>>
      /\ \A d \in Conns \ {c} : conn'[d] = conn[d]
  BY <1>0, Dialling
<1>2. /\ h \in Hosts /\ \A j \in Jobs \ {i} : Address(opts.names[j]) # h
      /\ Dialled(i) => conn[c].host = h
  BY OwnNode DEF Node
<1>3. CleanRow(i) /\ pc[i] \notin {"failed", "zero"} /\ known[h] \subseteq server[h]
  BY DEF CleanRows, CleanRow
<1>4. /\ \A g \in Hosts \ {h} : known'[g] = known[g]
      /\ known'[h] \subseteq server[h]
      /\ conn'[c].at \notin {"failed", "rejected"}
      /\ conn'[c].at = "read" => conn'[c].snap = known'[h]
      /\ conn'[c].at = "pin" => known'[h] = {} /\ conn'[c].key \in server[h]
  <2>1. CASE Read(c, h)
    <3>1. conn'[c] = [at |-> "read", host |-> h, snap |-> known[h]] /\ known' = known
      BY <1>0, <2>1 DEF Read, HTypeOK
    <3>. QED
      BY <1>3, <3>1
  <2>2. CASE Handshake(c)
    <3>1. conn[c].at = "read" /\ known' = known
      BY <2>2 DEF Handshake
    <3>2. conn[c].host = h
      BY <1>2, <3>1 DEF Dialled, Unused
    <3>3. conn[c].snap = known[h]
      BY <1>3, <3>1 DEF CleanRow
    <3>4. Offered(h) # {}
      BY <1>0, <1>2, <1>3, Offering
    <3>5. PICK k \in Offered(h) :
            \/ /\ k \in known[h]
               /\ conn' = [conn EXCEPT ![c] = [at |-> "accepted", host |-> h, key |-> k]]
            \/ /\ known[h] = {}
               /\ conn' = [conn EXCEPT ![c] = [at |-> "pin", host |-> h, key |-> k]]
            \/ k \notin known[h] /\ known[h] # {}
      BY <2>2, <3>2, <3>3, <3>4 DEF Handshake
    <3>6. k \in server[h] /\ (known[h] # {} => k \in known[h])
      BY <1>0, <1>2, <1>3, Presented
    <3>7. \/ conn'[c].at = "accepted"
          \/ known[h] = {} /\ conn'[c].at = "pin" /\ conn'[c].key = k
      BY <1>0, <3>5, <3>6 DEF HTypeOK
    <3>. QED
      BY <1>3, <3>1, <3>6, <3>7
  <2>3. CASE Pin(c)
    <3>1. conn[c].at = "pin"
      BY <2>3 DEF Pin
    <3>2. conn[c].host = h
      BY <1>2, <3>1 DEF Dialled, Unused
    <3>3. known[h] = {} /\ conn[c].key \in server[h]
      BY <1>3, <3>1 DEF CleanRow
    <3>4. /\ conn'[c].at \in {"accepted", "rejected"}
          /\ \A g \in Hosts : known'[g] = known[g]
                           \/ (g = h /\ known'[g] = {conn[c].key})
          /\ conn'[c].at = "rejected" => known[h] # {}
      BY <1>0, <2>3, <3>2, PinLeaves
    <3>. QED
      BY <1>2, <1>3, <3>3, <3>4
  <2>. QED
    BY <2>1, <2>2, <2>3 DEF Dial, Connecting
<1>5. ASSUME NEW j \in Jobs PROVE CleanRow(j)'
  <2>1. /\ Address(opts.names[j])' = Address(opts.names[j]) /\ Conn(j)' = Conn(j)
        /\ pc'[j] = pc[j] /\ server' = server
    BY <1>1 DEF Address, Conn
  <2>2. CASE j = i
    BY <1>3, <1>4, <2>1, <2>2 DEF CleanRow
  <2>3. CASE j # i
    <3>1. conn'[Conn(j)] = conn[Conn(j)]
      <4>1. Conn(j) # c /\ Conn(j) \in Conns
        BY <1>0, <2>3 DEF Conn, JobsTyped
      <4>. QED
        BY <1>1, <4>1
    <3>2. Address(opts.names[j]) \in Hosts \ {h}
      BY <1>2, <2>3, OwnNode
    <3>3. CleanRow(j)
      BY DEF CleanRows
    <3>. QED
      BY <1>4, <2>1, <3>1, <3>2, <3>3 DEF CleanRow
  <2>. QED
    BY <2>2, <2>3
<1>6. Jobs' = Jobs
  BY <1>1 DEF Jobs
<1>. QED
  BY <1>5, <1>6 DEF CleanRows

(* A row that does not fail, where nobody dials.                           *)
LEMMA RowStaysClean ==
  ASSUME CleanRows, UNCHANGED <<hostVars, nodes, run, opts>>, clean' => clean, Jobs' = Jobs,
         clean' => \A j \in Jobs : pc'[j] = pc[j] \/ pc'[j] \notin {"failed", "zero"}
  PROVE  CleanRows'
<1> SUFFICES ASSUME clean', NEW j \in Jobs PROVE CleanRow(j)'
  BY DEF CleanRows
<1>1. CleanRow(j) /\ (pc'[j] = pc[j] \/ pc'[j] \notin {"failed", "zero"})
  BY DEF CleanRows
<1>2. UNCHANGED <<known, server, conn, nodes, run, opts>>
  BY DEF hostVars
<1>3. Address(opts.names[j])' = Address(opts.names[j]) /\ conn'[Conn(j)'] = conn[Conn(j)]
  BY <1>2 DEF Address, Conn
<1>. QED
  BY <1>1, <1>2, <1>3 DEF CleanRow

(* What a job needs, the steps before it brought. *)
LEMMA NeverCannot ==
  ASSUME Typed, Settled, clean, NEW i \in Jobs, Upper(i)
  PROVE  ~Cannot(i)
<1>1. pc[i] \in {"base", "chmod", "test", "key", "config", "install"}
  BY DEF Upper, Base, Chmod, Test, KeyInit, Config, Install
<1>2. Node(i) \in Hosts /\ Node(i) = Address(opts.names[i])
  BY <1>1, Where
<1>3. CleanNode(i)
  BY DEF Settled, CleanNodes
<1>4. pc[i] \in {"chmod", "key", "install"} => Fine(i)
  BY DEF Settled, Placed, Alone, Touching, Placing
<1>5. /\ Good(Node(i)) # None /\ Good(Node(i)).whole /\ Good(Node(i)).v # Mixed
      /\ Good(Node(i)).arch = ArchOf[Node(i)]
  BY <1>2, <1>3, GoodFile DEF Typed, Tied, CleanNode
<1>9. CASE pc[i] = "base"
  <2>1. disk[Node(i)].podman \/ disk[Node(i)].apt = "free"
    BY <1>2, <1>3 DEF CleanNode, Provisionable
  <2>2. \A j \in Jobs \ {i} : pc[j] = "base" => Node(j) # Node(i)
    <3> SUFFICES ASSUME NEW j \in Jobs \ {i}, pc[j] = "base" PROVE Node(j) # Node(i)
      OBVIOUS
    <3>1. Node(j) = Address(opts.names[j])
      BY Where
    <3>. QED
      BY <1>2, <3>1 DEF Settled, CleanNodes
  <2>. QED
    BY <1>9, <2>1, <2>2 DEF Cannot
<1>6. CASE pc[i] = "chmod"
  BY <1>4, <1>5, <1>6 DEF Cannot, Fine, Touching
<1>7. CASE pc[i] = "key"
  <2>1. disk[Node(i)].bin = Good(Node(i))
    BY <1>4, <1>7 DEF Fine, Placing
  <2>. QED
    BY <1>2, <1>3, <1>5, <1>7, <2>1 DEF Cannot, CleanNode, Runnable
<1>8. CASE pc[i] = "install"
  <2>1. disk[Node(i)].bin = Good(Node(i))
    BY <1>4, <1>8 DEF Fine, Placing
  <2>2. Rendered(i) # Torn
    <3>1. Rendered(i) \in Nat \X NodeNames
      BY JobNumbers, BoundsOfDeploy DEF Typed, Tied, JobsTyped, Rendered
    <3>. QED
      BY <3>1, NotData
  <2>. QED
    BY <1>2, <1>3, <1>5, <1>8, <2>1, <2>2 DEF Cannot, CleanNode, Runnable
<1>. QED
  BY <1>1, <1>6, <1>7, <1>8, <1>9 DEF Cannot

LEMMA CleanRowsStay ==
  ASSUME Typed, Settled, CleanRows, {} \notin KeySets, [DNext]_dvars
  PROVE  CleanRows'
<1>0. HTypeOK /\ Disks /\ JobsTyped /\ pc \in [Jobs -> Stages \cup Ended]
  BY JobNumbers DEF Typed, Tied, JobsTyped
<1>1. CASE Begin
  <2>1. /\ UNCHANGED <<hostVars, nodes>> /\ run' = run + 1 /\ run < MaxRuns
        /\ pc' = [i \in DOMAIN opts'.names |-> "waiting"]
        /\ clean' = CanSucceed(opts')
    BY <1>1 DEF Begin
  <2>2. UNCHANGED <<known, server, conn>> /\ run' \in Runs /\ run' > run
    BY <1>0, <2>1, BoundsOfDeploy DEF hostVars, JobsTyped, Runs
  <2>3. JobsTyped'
    BY <1>0, JobsStayTyped
  <2>4. \A i \in Jobs' : i \in Nat /\ <<run', i>> \in Conns
    <3>1. \A i \in Jobs' : <<run', i>> \in Conns
      BY <2>3 DEF JobsTyped, Conn
    <3>2. opts'.names \in Seq(NodeNames) /\ Jobs' = DOMAIN opts'.names
      BY <2>1, <2>3 DEF JobsTyped, Jobs, OptionSet
    <3>3. \A s \in Seq(NodeNames) : DOMAIN s \subseteq Nat
      OBVIOUS
    <3>. QED
      BY <3>1, <3>2, <3>3
  <2>5. \A i \in Jobs' : conn'[<<run', i>>] = Unused
    BY <2>2, <2>4 DEF Typed, Tied, FreshRuns
  <2>6. Jobs' = DOMAIN opts'.names /\ \A i \in Jobs' : pc'[i] = "waiting"
    BY <2>1 DEF Jobs
  <2>7. clean' => \A i \in Jobs' : known'[Address(opts.names[i])'] \subseteq server'[Address(opts.names[i])']
    BY <2>1, <2>2, <2>6 DEF CanSucceed, Address
  <2>. QED
    <3>1. ASSUME clean', NEW i \in Jobs' PROVE CleanRow(i)'
      <4>1. /\ conn'[<<run', i>>].at = "unused" /\ pc'[i] = "waiting"
            /\ known'[Address(opts.names[i])'] \subseteq server'[Address(opts.names[i])']
        BY <2>5, <2>6, <2>7, <3>1 DEF Unused
      <4>. QED
        BY <4>1 DEF CleanRow, Conn
    <3>. QED
      BY <3>1 DEF CleanRows
<1>2. CASE GiveUp \/ \E n \in NodeNames, h \in Hosts : Join(n, h)
  <2>1. Jobs' = {}
    BY <1>2 DEF GiveUp, Join, Jobs
  <2>. QED
    BY <2>1 DEF CleanRows
<1>3. CASE Reinstalled \/ \E i \in Jobs : DialFails(i) \/ StageFails(i) \/ Panic(i) \/ Hang(i)
  <2>1. ~clean'
    BY <1>3 DEF Reinstalled, DialFails, StageFails, Panic, Hang, Fails
  <2>. QED
    BY <2>1 DEF CleanRows
<1>4. CASE (\E h \in Hosts : LateEnds(h) \/ LateBase(h)) \/ UNCHANGED dvars
  <2>1. UNCHANGED <<hostVars, nodes, run, opts, clean, pc>>
    BY <1>4 DEF LateEnds, LateBase, dvars, runVars
  <2>. QED
    BY <2>1, RowStaysClean DEF Jobs
<1>5. ASSUME NEW i \in Jobs, JobStep(i) PROVE CleanRows'
  <2>1. CASE Dial(i)
    <3>1. CASE clean
      BY <2>1, <3>1, DialClean
    <3>2. CASE ~clean
      BY <1>0, <2>1, <3>2, Dialling DEF CleanRows
    <3>. QED
      BY <3>1, <3>2
  <2>2. ASSUME UNCHANGED <<hostVars, nodes, run, opts>>, clean' => clean,
               NEW to, pc' = [pc EXCEPT ![i] = to],
               clean' => to \notin {"failed", "zero"}
        PROVE  CleanRows'
    BY <1>0, <2>2, RowStaysClean DEF Jobs
  <2>3. CASE Spawn(i) \/ NoAddress(i) \/ Arch(i) \/ Unsupported(i)
    <3>1. /\ UNCHANGED <<hostVars, nodes, run, opts>> /\ (clean' => clean)
      BY <1>0, <2>3, StartDoes
    <3>2. PICK to \in {"arch", "base", "failed"} :
            /\ pc' = [pc EXCEPT ![i] = to]
            /\ to = "failed" => \/ ~clean' \/ Address(opts.names[i]) = None
                                \/ conn[Conn(i)].at \in {"rejected", "failed"}
                                \/ pc[i] = "stage" /\ ~Suits(opts, Node(i))
      BY <1>0, <2>3, StartDoes
    <3>3. clean' => CleanNode(i) /\ CleanRow(i)
      BY <3>1 DEF Settled, CleanNodes, CleanRows
    <3>5. pc[i] = "stage" => Node(i) = Address(opts.names[i])
      BY Where
    <3>4. clean' => to \notin {"failed", "zero"}
      BY <3>2, <3>3, <3>5 DEF CleanNode, CleanRow
    <3>. QED
      BY <2>2, <3>1, <3>2, <3>4
  <2>4. CASE Upper(i)
    <3>0. Node(i) \in Hosts
      <4>1. pc[i] \notin {"waiting", "arch", "failed", "zero", "hung"}
        BY <2>4 DEF Upper, Base, Chmod, Test, KeyInit, Config, Install
      <4>. QED
        BY <4>1, Where
    <3>1. /\ UNCHANGED <<hostVars, nodes, run, opts>> /\ (clean' => clean)
      BY <1>0, <2>4, <3>0, UpperDoes
    <3>2. PICK to \in (Stages \cup Ended) \ {"waiting", "arch"} :
            pc' = [pc EXCEPT ![i] = to] /\ Leaving(i, to, disk[Node(i)], disk'[Node(i)])
      BY <1>0, <2>4, <3>0, UpperDoes
    <3>3. clean' => to # "failed"
      BY <2>4, <3>1, <3>2, NeverCannot DEF Leaving
    <3>4. to # "zero"
      BY <3>2 DEF Leaving, Next, Order
    <3>. QED
      BY <2>2, <3>1, <3>2, <3>3, <3>4
  <2>5. CASE Move(i)
    <3>0. pc[i] = "move" /\ Node(i) \in Hosts
      BY <2>5, Where DEF Move
    <3>1. /\ UNCHANGED <<hostVars, nodes, run, opts>> /\ (clean' => clean)
      BY <1>0, <2>5, <3>0, MoveDoes
    <3>2. PICK to \in {"test", "failed"} :
            /\ pc' = [pc EXCEPT ![i] = to]
            /\ to = "failed" => ~clean' \/ disk[Node(i)].stage = None
      BY <1>0, <2>5, <3>0, MoveDoes
    <3>3. clean' => disk[Node(i)].stage # None
      <4>1. clean => Fine(i)
        BY <3>0 DEF Settled, Placed, Alone, Touching
      <4>. QED
        BY <1>0, <3>0, <3>1, <4>1, GoodFile DEF Fine
    <3>. QED
      BY <2>2, <3>1, <3>2, <3>3
  <2>6. CASE Stage(i) \/ Staged(i)
    <3>1. /\ UNCHANGED <<hostVars, nodes, run, opts, clean>>
          /\ \E to \in {"staging", "move", "chmod"} : pc' = [pc EXCEPT ![i] = to]
      BY <2>6 DEF Stage, Staged, Goes
    <3>. QED
      BY <2>2, <3>1
  <2>. QED
    BY <1>5, <2>1, <2>3, <2>4, <2>5, <2>6 DEF JobStep, Upper
<1>. QED
  BY <1>1, <1>2, <1>3, <1>4, <1>5 DEF DNext

(* A run that nothing disturbs ends with every row OK, whatever the runs   *)
(* before it left; a host without any key would be turned away.            *)
THEOREM CleanRunsSucceed ==
  ASSUME {} \notin KeySets
  PROVE  DSpec => []CleanRunSucceeds
<1>1. DInit => CleanRows
  BY DEF DInit, Jobs, CleanRows
<1>2. CleanRows => CleanRunSucceeds
  BY DEF CleanRows, CleanRow, CleanRunSucceeds, Returned, Ended
<1>3. Typed /\ Settled /\ CleanRows /\ [DNext]_dvars => CleanRows'
  BY CleanRowsStay
<1>. QED
  BY <1>1, <1>2, <1>3, AlwaysTyped, AlwaysSettled, PTL DEF DSpec
=============================================================================

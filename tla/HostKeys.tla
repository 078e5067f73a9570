------------------------------- MODULE HostKeys -------------------------------
(***************************************************************************)
(* Trust on first use (internal/sshx, hostkey.go): the ssh connections of  *)
(* one rucher process share a known_hosts file.  A connection reads it,    *)
(* dials, and where its reading knew no key of the host, pins the one that *)
(* was presented.  A mutex covers each reading and the pinning, never the  *)
(* handshake between them, so a reading may be stale when it is used.      *)
(***************************************************************************)
EXTENDS Naturals

CONSTANTS
  Hosts,
  Conns,     \* connections
  Types,     \* types of host keys: numbers, the one negotiation prefers first
  HostKey,   \* [type, id] records
  KeySets    \* what a host can have: at most one key of each type

ASSUME KeysTyped ==
  /\ Types \subseteq Nat
  /\ \A k \in HostKey : k.type \in Types
  /\ KeySets \subseteq SUBSET HostKey
  /\ \A s \in KeySets : \A j, k \in s : j.type = k.type => j = k

VARIABLES
  known,   \* known_hosts: the keys that are pinned for each host
  server,  \* the keys each host has
  conn     \* the connections: where they are, what they read, what they saw

hostVars == <<known, server, conn>>

Unused == [at |-> "unused"]

ConnStates ==
  {Unused}
    \cup [at : {"read"}, host : Hosts, snap : SUBSET HostKey]
    \cup [at : {"pin", "accepted", "rejected"}, host : Hosts, key : HostKey]
    \cup [at : {"failed"}, host : Hosts]

HTypeOK ==
  /\ known \in [Hosts -> SUBSET HostKey]
  /\ server \in [Hosts -> KeySets]
  /\ conn \in [Conns -> ConnStates]

(* A file written before by hand, or by ssh, may have pinned any type. *)
HInit ==
  /\ server \in [Hosts -> KeySets]
  /\ known \in [Hosts -> SUBSET HostKey]
  /\ \A h \in Hosts : known[h] \subseteq server[h]
  /\ conn = [c \in Conns |-> Unused]

(* acceptNewHostKey reads the file. *)
Read(c, h) ==
  /\ conn[c] = Unused
  /\ conn' = [conn EXCEPT ![c] = [at |-> "read", host |-> h, snap |-> known[h]]]
  /\ UNCHANGED <<known, server>>

OfferedAll(h) ==    \* mutant of Offered: negotiation does not look at the pins
  server[h]

(* pinnedHostKeyAlgorithms: where the file has pins, only their types are  *)
(* negotiated.                                                             *)
Offered(h) ==
  {k \in server[h] : known[h] = {} \/ \E p \in known[h] : p.type = k.type}

(* The handshake, with a second reading just before it: the key presented  *)
(* is one the first reading knew, or the host was new to it, or neither.   *)
Handshake(c) ==
  /\ conn[c].at = "read"
  /\ LET h == conn[c].host
         snap == conn[c].snap
         seen(at, k) == [conn EXCEPT ![c] = [at |-> at, host |-> h, key |-> k]]
     IN
     \/ Offered(h) = {} /\ conn' = [conn EXCEPT ![c] = [at |-> "failed", host |-> h]]
     \/ \E k \in Offered(h) :
          /\ \A j \in Offered(h) : k.type <= j.type
          /\ \/ k \in snap /\ conn' = seen("accepted", k)
             \/ snap = {} /\ conn' = seen("pin", k)
             \/ k \notin snap /\ snap # {} /\ conn' = seen("rejected", k)
  /\ UNCHANGED <<known, server>>

PinUnread(c) ==    \* mutant of Pin: trusts the reading from before the dial
  /\ conn[c].at = "pin"
  /\ conn' = [conn EXCEPT ![c].at = "accepted"]
  /\ known' = [known EXCEPT ![conn[c].host] = @ \cup {conn[c].key}]
  /\ UNCHANGED server

(* appendKnownHost: what the file says by now decides. *)
Pin(c) ==
  /\ conn[c].at = "pin"
  /\ LET h == conn[c].host
         k == conn[c].key
     IN
     \/ /\ k \in known[h] /\ UNCHANGED known
        /\ conn' = [conn EXCEPT ![c].at = "accepted"]
     \/ /\ known[h] = {} /\ known' = [known EXCEPT ![h] = {k}]
        /\ conn' = [conn EXCEPT ![c].at = "accepted"]
     \/ /\ k \notin known[h] /\ known[h] # {} /\ UNCHANGED known
        /\ conn' = [conn EXCEPT ![c].at = "rejected"]
  /\ UNCHANGED server

(* The dial, or the write of the pin, fails. *)
ConnFails(c) ==
  /\ conn[c].at \in {"read", "pin"}
  /\ conn' = [conn EXCEPT ![c] = [at |-> "failed", host |-> conn[c].host]]
  /\ UNCHANGED <<known, server>>

Connecting(c) == Handshake(c) \/ Pin(c)

(* A host is installed anew, or another answers at its address. *)
Rekey(h, keys) ==
  /\ keys # server[h]
  /\ server' = [server EXCEPT ![h] = keys]
  /\ UNCHANGED <<known, conn>>

HNext ==
  \/ \E c \in Conns :
       Connecting(c) \/ ConnFails(c) \/ (\E h \in Hosts : Read(c, h))
  \/ \E h \in Hosts, keys \in KeySets : Rekey(h, keys)

HSpec == HInit /\ [][HNext]_hostVars

-----------------------------------------------------------------------------
(* Properties. *)

(* "The race can never widen TOFU to trust a second key" (hostkey.go): a   *)
(* host for which a key is pinned never gets another, however connections  *)
(* that read the file before interleave.                                   *)
TrustOnce == [][\A h \in Hosts : known[h] # {} => known'[h] = known[h]]_hostVars

(* No command runs on a host whose key is not the pinned one. *)
AcceptedIsPinned ==
  \A c \in Conns : conn[c].at = "accepted" => conn[c].key \in known[conn[c].host]

(* A host that has the keys that are pinned for it, besides others perhaps *)
(* that negotiation would prefer, is never turned away.                    *)
Rejects(c) == conn[c].at # "rejected" /\ conn'[c].at = "rejected"

NotLockedOut ==
  [][\A c \in Conns :
       Rejects(c) /\ conn'[c].key \in server[conn'[c].host]
         => ~ (known[conn'[c].host] \subseteq server[conn'[c].host])]_hostVars
=============================================================================

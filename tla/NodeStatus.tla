------------------------------ MODULE NodeStatus -----------------------------
(***************************************************************************)
(* `ops nodes status` (internal/nodestatus): one row per node, from what   *)
(* ssh and `cat agent-status.json` answer at some moment of the agent's    *)
(* life, and with --live from a second command.                            *)
(***************************************************************************)
EXTENDS AgentPass, FiniteSets

(* What the read of the status file, and the live probe, can come to. *)
Replies == {"unreachable", "denied", "garbled", "answered"}
Probes  == {"off", "unreachable", "failed", "answered"}

ErrorsOfCadres(st) ==    \* mutant of ErrorsOf: the pass's own error is left out
  {c \in Cadres : st.results[c] = "failed"}

(* The errors a pass reports: its own, and those of its cadres. *)
ErrorsOf(st) ==
  (IF st.error THEN {"pass"} ELSE {}) \cup {c \in Cadres : st.results[c] = "failed"}

ProbeErrors(probe) == IF probe \in {"unreachable", "failed"} THEN {"live"} ELSE {}

(* collectOne. *)
Row(reply, probe) ==
  LET none == [reachable |-> reply # "unreachable", pending |-> FALSE, rev |-> 0,
               applied |-> 0, errors |-> {}]
  IN
  CASE reply = "unreachable" -> [none EXCEPT !.errors = {"ssh"}]
    [] reply = "denied"      -> [none EXCEPT !.errors = {"read"} \cup ProbeErrors(probe)]
    [] reply = "garbled"     -> [none EXCEPT !.errors = {"parse"} \cup ProbeErrors(probe)]
    [] reply = "answered" /\ status = None ->
         [none EXCEPT !.pending = TRUE, !.errors = ProbeErrors(probe)]
    [] OTHER ->
         [none EXCEPT !.rev = status.rev,
                      !.applied = Cardinality({c \in Cadres : status.results[c] # "none"}),
                      !.errors = ErrorsOf(status) \cup ProbeErrors(probe)]

(* renderNodesTable: a row of which the command does not exit with 1. *)
Healthy(row) == row.reachable /\ row.errors = {}

(* A healthy row that shows a revision is the truth about the node:        *)
(* each cadre which that revision assigns to it is applied at least as new *)
(* as that, or the operator, damage or a newer revision took it away; and  *)
(* no node that fails to answer looks healthy.                             *)
HealthyRowIsTrue ==
  \A reply \in Replies, probe \in Probes :
    LET row == Row(reply, probe) IN
    Healthy(row) /\ ~row.pending =>
      /\ row.rev \in 1..synced
      /\ row.applied = Cardinality(Assigned(row.rev))
      /\ \A c \in Assigned(row.rev) \ touched :
           \/ applied[c] >= row.rev
           \/ \E r \in (row.rev + 1)..synced : c \notin Assigned(r)
=============================================================================

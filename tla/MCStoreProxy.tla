---------------------------- MODULE MCStoreProxy ----------------------------
(* Instances of StoreProxy for TLC. *)
EXTENDS StoreProxy, TLC

CONSTANTS r1, r2, a1

WriteOf(id, byGate) ==
  [path |-> TRUE, override |-> FALSE, class |-> "write", form |-> FALSE,
   approval |-> id, gate |-> byGate]
Read == NoShape

\* The gate's own traffic.
GateShapes == {WriteOf(i, TRUE) : i \in Id} \cup {Read}

\* The gate's traffic and what else may reach the port: a planted write, one without
\* a header, a form, a read that is a write at the store, a foreign path or verb.
AllShapes ==
  GateShapes \cup {WriteOf(a1, FALSE), WriteOf(NoId, FALSE),
                   [WriteOf(a1, FALSE) EXCEPT !.form = TRUE],
                   [Read EXCEPT !.override = TRUE],
                   [Read EXCEPT !.path = FALSE],
                   [Read EXCEPT !.class = "reject"]}

EmptyLog == {<<>>}
LegacyLog ==
  EmptyLog \cup {<<[kind |-> "legacy", class |-> "write", approval |-> a1, req |-> "nobody"]>>}

\* The columns PGApprovals names, and those a query that matches the table would.
QueryOfCode == {"workflow_id", "decision", "created_at"}
QueryOfTable == {"workflow_id", "decision", "decided_at"}

RequestSymmetry == Permutations(Req)
=============================================================================

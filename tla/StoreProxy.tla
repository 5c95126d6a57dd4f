----------------------------- MODULE StoreProxy -----------------------------
(***************************************************************************)
(* The counting egress proxy (internal/storeproxy, cmd/store-proxy) and    *)
(* the join of its audit log with the approval rows (internal/auditjoin).  *)
(*                                                                         *)
(* Requests are served concurrently.  Each passes the admission checks; a  *)
(* write is preceded by a synced "intent" row, leaves for the store, and   *)
(* is followed by a best-effort "done" or "unknown" row.  The proxy may    *)
(* crash between any two steps and start again on the same log; a request  *)
(* that left it may be applied whatever became of the proxy.  A row can    *)
(* fail to be written, also halfway (short write on a full disk), and what *)
(* is appended to a half line cannot be parsed.  The join first reads the  *)
(* approvals, then the log.                                                *)
(***************************************************************************)
EXTENDS Naturals, Sequences, FiniteSets

CONSTANTS
  Req,         \* requests reaching the proxy
  Id,          \* approval row ids
  NoId,        \* no X-Approval-Id header
  Shapes,      \* what requests look like (see Shape)
  InitialLogs, \* what the log may hold at start: rows of no request here
  Faults,      \* appending to the log, and reading the approvals, may fail
  MaxDays,     \* bound: times the join window moves past the decisions
  QueryColumns \* columns of publish_approvals the join's query names

\* What the admission checks look at.  "gate": sent by the publish gate under an
\* approved id; otherwise by anybody.
Shape == [path : BOOLEAN, override : BOOLEAN, class : {"read", "write", "reject"},
          form : BOOLEAN, approval : Id \cup {NoId}, gate : BOOLEAN]

Kinds == {"refused", "intent", "done", "unknown", "legacy", "bad"}
LogRow == [kind : Kinds, class : {"read", "write", "reject"}, approval : Id \cup {NoId},
           req : Req \cup {"nobody"}]

ASSUME ProxyAssumption ==
  /\ NoId \notin Id
  /\ Shapes \subseteq Shape
  /\ \A s \in Shapes : s.gate => s.class = "write" /\ s.approval \in Id
  /\ InitialLogs \subseteq Seq(LogRow)
  /\ \A rows \in InitialLogs : \A n \in DOMAIN rows : rows[n].req = "nobody"
  /\ Faults \in BOOLEAN /\ MaxDays \in Nat

VARIABLES
  decision,   \* publish_approvals.decision by id
  recent,     \* ids decided within the join's window
  days,       \* times the window has moved
  proxy,      \* "up", "closing" (log closed, handlers still at work), "down"
  log,        \* the audit log, row by row
  torn,       \* the log ends in a half line
  shape,      \* what each request is
  pc,         \* where its handler is
  wire,       \* requests that left the proxy and may still be applied
  applied,    \* requests the store has acted on
  join,       \* the running join: the approvals it has read
  verdict     \* the last verdict

vars == <<decision, recent, days, proxy, log, torn, shape, pc, wire, applied, join, verdict>>
rowVars == <<log, torn>>
requestVars == <<shape, pc, wire, applied>>
approvalVars == <<decision, recent, days>>

-----------------------------------------------------------------------------

PCs == {"idle", "admit", "intent", "forward", "sent", "over"}
Verdict == [status : {"none", "OK", "UNMATCHED", "NOT_RUN"}, unmatched : SUBSET Nat]
NoShape == [path |-> TRUE, override |-> FALSE, class |-> "read", form |-> FALSE,
            approval |-> NoId, gate |-> FALSE]

\* The store acts on the verb an override names, so an overridden read is a write.
WritesAtStore(s) == s.class = "write" \/ s.override

Init ==
  /\ decision = [i \in Id |-> "none"] /\ recent = {} /\ days = 0
  /\ proxy = "up" /\ log \in InitialLogs /\ torn = FALSE
  /\ shape = [r \in Req |-> NoShape] /\ pc = [r \in Req |-> "idle"]
  /\ wire = {} /\ applied = {}
  /\ join = [running |-> FALSE, approved |-> {}]
  /\ verdict = [status |-> "none", unmatched |-> {}]

-----------------------------------------------------------------------------
(* The log *)

RowOf(kind, r) ==
  [kind |-> kind, class |-> shape[r].class, approval |-> shape[r].approval, req |-> r]

\* Write and Sync succeed; a row glued to a half line is one unreadable line.
Appended(kind, r) ==
  /\ proxy = "up"
  /\ log' = Append(log, RowOf(IF torn THEN "bad" ELSE kind, r))
  /\ torn' = FALSE

\* auditSync returns an error: nothing written, part of the line written (perhaps
\* all but its newline), or the line written and Sync failing.  After Close every
\* append fails.
AppendFails(kind, r) ==
  \/ /\ proxy = "closing"
     /\ UNCHANGED rowVars
  \/ /\ Faults /\ proxy = "up"
     /\ \/ UNCHANGED rowVars
        \/ log' = Append(log, RowOf("bad", r)) /\ torn' = TRUE
        \/ /\ log' = Append(log, RowOf(IF torn THEN "bad" ELSE kind, r))
           /\ torn' \in BOOLEAN

Audit(kind, r) == Appended(kind, r) \/ AppendFails(kind, r)

-----------------------------------------------------------------------------
(* The proxy *)

Goto(r, label) == pc' = [pc EXCEPT ![r] = label]

\* A request reaches the listening proxy; the gate's requests carry an approved id.
Arrive(r, s) ==
  /\ pc[r] = "idle" /\ proxy = "up"
  /\ s.gate => decision[s.approval] = "approved"
  /\ shape' = [shape EXCEPT ![r] = s]
  /\ Goto(r, "admit")
  /\ UNCHANGED <<approvalVars, proxy, rowVars, wire, applied, join, verdict>>

Admissible(s) ==
  /\ s.path /\ ~s.override /\ s.class # "reject"
  /\ s.class = "write" => s.approval # NoId /\ ~s.form

Refuse(r) ==
  /\ pc[r] = "admit" /\ ~Admissible(shape[r])
  /\ Audit("refused", r)
  /\ Goto(r, "over")
  /\ UNCHANGED <<approvalVars, proxy, shape, wire, applied, join, verdict>>

Admit(r) ==
  /\ pc[r] = "admit" /\ Admissible(shape[r])
  /\ Goto(r, IF shape[r].class = "write" THEN "intent" ELSE "forward")
  /\ UNCHANGED <<approvalVars, proxy, rowVars, shape, wire, applied, join, verdict>>

\* The client goes away in the middle of its body: no row, no request.
LoseBody(r) ==
  /\ pc[r] = "admit" /\ Admissible(shape[r])
  /\ Goto(r, "over")
  /\ UNCHANGED <<approvalVars, proxy, rowVars, shape, wire, applied, join, verdict>>

\* Slip: the intent row is as best-effort as the outcome rows.
RecordIntentBestEffort(r) ==
  /\ pc[r] = "intent"
  /\ Audit("intent", r)
  /\ Goto(r, "forward")
  /\ UNCHANGED <<approvalVars, proxy, shape, wire, applied, join, verdict>>

\* Write-ahead: the write goes on only if its intent row is on disk.
RecordIntent(r) ==
  /\ pc[r] = "intent"
  /\ \/ Appended("intent", r) /\ Goto(r, "forward")
     \/ AppendFails("intent", r) /\ Goto(r, "over")
  /\ UNCHANGED <<approvalVars, proxy, shape, wire, applied, join, verdict>>

Forward(r) ==
  /\ pc[r] = "forward"
  /\ Goto(r, "sent")
  /\ wire' = wire \cup {r}
  /\ UNCHANGED <<approvalVars, proxy, rowVars, shape, applied, join, verdict>>

\* The store acts on a request that left, in its own time.
StoreApplies(r) ==
  /\ r \in wire
  /\ wire' = wire \ {r} /\ applied' = applied \cup {r}
  /\ UNCHANGED <<approvalVars, proxy, rowVars, shape, pc, join, verdict>>

\* The store answered, having applied the request or refused it.
RecordDone(r) ==
  /\ pc[r] = "sent"
  /\ wire' = wire \ {r}
  /\ Audit("done", r)
  /\ Goto(r, "over")
  /\ UNCHANGED <<approvalVars, proxy, shape, applied, join, verdict>>

\* The forward errored: the request may have been applied, or be applied later.
RecordUnknown(r) ==
  /\ pc[r] = "sent"
  /\ Audit("unknown", r)
  /\ Goto(r, "over")
  /\ UNCHANGED <<approvalVars, proxy, shape, wire, applied, join, verdict>>

\* SIGTERM: Shutdown gives up waiting for handlers, and the log is closed under them.
CloseLog ==
  /\ proxy = "up"
  /\ proxy' = "closing"
  /\ UNCHANGED <<approvalVars, rowVars, requestVars, join, verdict>>

\* The process ends, with every handler in it.
Crash ==
  /\ proxy # "down"
  /\ proxy' = "down"
  /\ pc' = [r \in Req |-> IF pc[r] = "idle" THEN "idle" ELSE "over"]
  /\ UNCHANGED <<approvalVars, rowVars, shape, wire, applied, join, verdict>>

Restart ==
  /\ proxy = "down"
  /\ proxy' = "up"
  /\ UNCHANGED <<approvalVars, rowVars, requestVars, join, verdict>>

-----------------------------------------------------------------------------
(* Approvals and the nightly join *)

RecordApproval(i, d) ==
  /\ decision[i] = "none"
  /\ decision' = [decision EXCEPT ![i] = d]
  /\ recent' = recent \cup {i}
  /\ UNCHANGED <<days, proxy, rowVars, requestVars, join, verdict>>

\* The window (--since, 24h by default) moves past every decision made so far.
DayPasses ==
  /\ days < MaxDays /\ ~join.running
  /\ days' = days + 1 /\ recent' = {}
  /\ UNCHANGED <<decision, proxy, rowVars, requestVars, join, verdict>>

ApprovalColumns == {"workflow_id", "tenant_id", "product_id", "decision", "actor",
                    "reason", "update_id", "decided_at"}
Readable == QueryColumns \subseteq ApprovalColumns

\* ApprovedIDs: the rows approved since the start of the window.
ReadApprovals ==
  /\ ~join.running /\ Readable
  /\ join' = [running |-> TRUE,
              approved |-> {i \in recent : decision[i] = "approved"}]
  /\ UNCHANGED <<approvalVars, proxy, rowVars, requestVars, verdict>>

\* The query fails: always, if it names a column the table does not have.
ReadApprovalsFails ==
  /\ ~join.running
  /\ ~Readable \/ Faults
  /\ verdict' = [status |-> "NOT_RUN", unmatched |-> {}]
  /\ UNCHANGED <<approvalVars, proxy, rowVars, requestVars, join>>

\* Slips: what is counted is the outcome, or the outcome as well.
CountedByOutcome(row) == row.class = "write" /\ row.kind \in {"done", "legacy"}
CountedTwice(row) == row.class = "write" /\ row.kind # "refused"

\* tally: intents, and rows of the legacy kind that are not reads, are the writes.
Counted(row) == row.kind = "intent" \/ (row.kind = "legacy" /\ row.class # "read")

\* join over the rows in scope ("only": the rows of one approval, or NoId for all).
InScope(row, only) == only = NoId \/ row.approval = only
Writes(only) == {n \in DOMAIN log : Counted(log[n]) /\ InScope(log[n], only)}
Unmatched(only) == {n \in Writes(only) : log[n].approval \notin join.approved}

\* Join (only = NoId) and JoinApproval read the log and give the verdict.
ReadLog(only) ==
  /\ join.running
  /\ join' = [running |-> FALSE, approved |-> join.approved]
  /\ verdict' =
       IF \/ log = <<>> \/ \E n \in DOMAIN log : log[n].kind = "bad"
          \/ only # NoId /\ Writes(only) = {}
       THEN [status |-> "NOT_RUN", unmatched |-> {}]
       ELSE [status |-> IF Unmatched(only) = {} THEN "OK" ELSE "UNMATCHED",
             unmatched |-> Unmatched(only)]
  /\ UNCHANGED <<approvalVars, proxy, rowVars, requestVars>>

-----------------------------------------------------------------------------

Next ==
  \/ \E r \in Req :
       \/ \E s \in Shapes : Arrive(r, s)
       \/ Refuse(r) \/ Admit(r) \/ LoseBody(r) \/ RecordIntent(r) \/ Forward(r)
       \/ StoreApplies(r) \/ RecordDone(r) \/ RecordUnknown(r)
  \/ CloseLog \/ Crash \/ Restart
  \/ \E i \in Id, d \in {"approved", "rejected"} : RecordApproval(i, d)
  \/ DayPasses \/ ReadApprovals \/ ReadApprovalsFails
  \/ \E only \in Id \cup {NoId} : ReadLog(only)

Spec == Init /\ [][Next]_vars

-----------------------------------------------------------------------------
(* Properties *)

\* Every variable stays in the domain its Go type has.
TypeOK ==
  /\ decision \in [Id -> {"none", "approved", "rejected"}]
  /\ recent \subseteq Id /\ days \in 0..MaxDays
  /\ proxy \in {"up", "closing", "down"}
  /\ log \in Seq(LogRow) /\ torn \in BOOLEAN
  /\ shape \in [Req -> Shape] /\ pc \in [Req -> PCs]
  /\ wire \subseteq Req /\ applied \subseteq Req
  /\ join \in [running : BOOLEAN, approved : SUBSET Id]
  /\ verdict \in Verdict

Wrote(r) == r \in applied /\ WritesAtStore(shape[r])

\* "A crash between the store applying a write and its completion row can then
\* never hide the write": whatever the store applied as a write has its line in the
\* log (an unreadable one after a short write), through crashes and disk faults.
AppliedIsRecorded ==
  \A r \in Req :
    Wrote(r) => \E n \in DOMAIN log : log[n].req = r /\ log[n].kind \in {"intent", "bad"}

\* A clean verdict is never false: when the join says OK, every write the store had
\* applied (in the join's scope) belongs to an approved workflow.
CleanVerdictIsTrue ==
  [][\A only \in Id \cup {NoId} :
       ReadLog(only) /\ verdict'.status = "OK"
         => \A r \in Req :
              Wrote(r) /\ InScope(shape[r], only) => decision[shape[r].approval] = "approved"]_vars

\* "A planted unapproved write must surface as exactly one unmatched row".
OneUnmatchedPerWrite ==
  \A m, n \in verdict.unmatched : log[m].req = log[n].req /\ log[m].req # "nobody" => m = n

\* "A clean day is 0": no approved write is reported as unmatched.
UnmatchedIsUnapproved ==
  [][verdict' # verdict
       => \A n \in verdict'.unmatched :
            log[n].approval \in Id => decision[log[n].approval] # "approved"]_vars

\* "A clean day is 0", on a log that is older than the window: a write is not
\* reported as unmatched because its approval is.
OldWritesMatch ==
  [][verdict' # verdict
       => \A n \in verdict'.unmatched :
            log[n].approval \in Id \ recent => decision[log[n].approval] # "approved"]_vars

\* "A clean day is 0": a log of readable rows is judged, not put down as NOT_RUN.
CleanDayIsJudged ==
  [][verdict' # verdict /\ verdict'.status = "NOT_RUN"
       => log = <<>> \/ join.running \/ \E n \in DOMAIN log : log[n].kind = "bad"]_vars

=============================================================================

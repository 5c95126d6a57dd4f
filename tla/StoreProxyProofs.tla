-------------------------- MODULE StoreProxyProofs --------------------------
(* Theorems about StoreProxy, for any number of requests and approvals, any   *)
(* log to start from, any crashes and any faults of the disk: the write-ahead *)
(* row is never missing, so a verdict of OK is never wrong.                   *)
EXTENDS StoreProxy, TLAPS

DomainsOK ==
  /\ decision \in [Id -> {"none", "approved", "rejected"}] /\ recent \subseteq Id
  /\ log \in Seq(LogRow)
  /\ shape \in [Req -> Shape] /\ pc \in [Req -> PCs]
  /\ wire \subseteq Req /\ applied \subseteq Req

\* A request whose handler was let past the checks, or that left the proxy.
Passed(r) == pc[r] \in {"intent", "forward", "sent"} \/ r \in wire \cup applied
PassedIsAdmissible == \A r \in Req : Passed(r) => Admissible(shape[r]) /\ pc[r] # "idle"

\* It has its line: the intent row, or what a half line before it made of that.
HasLine(r) ==
  \E n \in DOMAIN log : /\ log[n].req = r /\ log[n].kind \in {"intent", "bad"}
                        /\ log[n].approval = shape[r].approval

\* Write-ahead: a write that may reach the store has its line.
WriteAhead ==
  \A r \in Req :
    /\ shape[r].class = "write"
    /\ pc[r] \in {"forward", "sent"} \/ r \in wire \cup applied
    => HasLine(r)

\* Decisions are final, so what the join has read stays approved.
JoinIsApproved == \A i \in join.approved : i \in Id /\ decision[i] = "approved"

IInv == DomainsOK /\ PassedIsAdmissible /\ WriteAhead /\ JoinIsApproved

-----------------------------------------------------------------------------
\* A row names the request it is about.
LEMMA RowTypes ==
  ASSUME DomainsOK, NEW r \in Req, NEW k \in Kinds
  PROVE  /\ RowOf(k, r) \in LogRow
         /\ RowOf(k, r).req = r /\ RowOf(k, r).kind = k /\ RowOf(k, r).approval = shape[r].approval
<1>1. /\ shape[r].class \in {"read", "write", "reject"} /\ shape[r].approval \in Id \cup {NoId}
  BY DEF DomainsOK, Shape
<1> QED BY <1>1 DEF RowOf, LogRow

\* The log only grows, by one row.
LEMMA LogGrows ==
  ASSUME DomainsOK, NEW row \in LogRow, log' = Append(log, row)
  PROVE  /\ log' \in Seq(LogRow)
         /\ \A n \in DOMAIN log : n \in DOMAIN log' /\ log'[n] = log[n]
         /\ \E n \in DOMAIN log' : log'[n] = row
<1>1. log \in Seq(LogRow) /\ Len(log) \in Nat /\ DOMAIN log = 1 .. Len(log)
  BY DEF DomainsOK
<1>2. log' \in Seq(LogRow) /\ Len(log') = Len(log) + 1 /\ DOMAIN log' = 1 .. Len(log')
  BY <1>1
<1>3. log'[Len(log) + 1] = row /\ \A n \in 1 .. Len(log) : log'[n] = log[n]
  BY <1>1
<1>4. Len(log) + 1 \in DOMAIN log'
  BY <1>1, <1>2
<1> QED BY <1>1, <1>2, <1>3, <1>4

LEMMA AuditGrows ==
  ASSUME DomainsOK, NEW r \in Req, NEW k \in Kinds, Audit(k, r)
  PROVE  /\ log' \in Seq(LogRow)
         /\ \A n \in DOMAIN log : n \in DOMAIN log' /\ log'[n] = log[n]
<1>1. log' = log \/ \E j \in {k, "bad"} : log' = Append(log, RowOf(j, r))
  BY DEF Audit, Appended, AppendFails, rowVars
<1>2. CASE log' = log
  BY <1>2 DEF DomainsOK
<1>3. ASSUME NEW j \in {k, "bad"}, log' = Append(log, RowOf(j, r))
      PROVE  /\ log' \in Seq(LogRow)
             /\ \A n \in DOMAIN log : n \in DOMAIN log' /\ log'[n] = log[n]
  <2>1. RowOf(j, r) \in LogRow
    BY <1>3, RowTypes DEF Kinds
  <2> QED BY <1>3, <2>1, LogGrows
<1> QED BY <1>1, <1>2, <1>3

\* A line stays, while its request is what it is.
LEMMA LineStays ==
  ASSUME NEW r \in Req, HasLine(r), shape'[r] = shape[r],
         \A n \in DOMAIN log : n \in DOMAIN log' /\ log'[n] = log[n]
  PROVE  HasLine(r)'
BY DEF HasLine

-----------------------------------------------------------------------------
LEMMA InitInv == Init => IInv
<1> SUFFICES ASSUME Init PROVE IInv
  OBVIOUS
<1>1. DomainsOK
  BY ProxyAssumption DEF Init, DomainsOK, ProxyAssumption, NoShape, Shape, PCs
<1>2. PassedIsAdmissible /\ WriteAhead
  BY DEF Init, PassedIsAdmissible, WriteAhead, Passed
<1>3. JoinIsApproved
  BY DEF Init, JoinIsApproved
<1> QED BY <1>1, <1>2, <1>3 DEF IInv

LEMMA ArriveInv == ASSUME IInv, NEW r \in Req, NEW s \in Shapes, Arrive(r, s) PROVE IInv'
<1> USE DEF IInv
<1>1. /\ pc[r] = "idle" /\ shape' = [shape EXCEPT ![r] = s] /\ Goto(r, "admit")
      /\ UNCHANGED <<decision, recent, log, wire, applied, join>>
  BY DEF Arrive, approvalVars, rowVars
<1>2. /\ pc' \in [Req -> PCs] /\ shape' \in [Req -> Shape] /\ pc'[r] = "admit"
      /\ \A q \in Req \ {r} : pc'[q] = pc[q] /\ shape'[q] = shape[q]
  BY <1>1, ProxyAssumption DEF Goto, DomainsOK, ProxyAssumption, PCs
<1>3. DomainsOK' /\ JoinIsApproved'
  BY <1>1, <1>2 DEF DomainsOK, JoinIsApproved
<1>4. r \notin wire \cup applied
  BY <1>1 DEF PassedIsAdmissible, Passed
<1>5. PassedIsAdmissible'
  BY <1>1, <1>2, <1>4 DEF PassedIsAdmissible, Passed, Admissible
<1>6. WriteAhead'
  BY <1>1, <1>2, <1>4, LineStays DEF WriteAhead
<1> QED BY <1>3, <1>5, <1>6

\* A handler's step that may audit, and lets no request on towards the store.
LEMMA HandlerInv ==
  ASSUME IInv, NEW r \in Req, NEW to \in PCs \ {"idle", "forward"}, Goto(r, to),
         to \in {"intent", "sent"} => Admissible(shape[r]),
         to = "sent" => pc[r] \in {"forward", "sent"},
         pc[r] # "idle",
         UNCHANGED <<decision, recent, shape, join>>,
         wire' \subseteq wire \cup (IF to = "sent" THEN {r} ELSE {}),
         applied' = applied,
         log' \in Seq(LogRow), \A n \in DOMAIN log : n \in DOMAIN log' /\ log'[n] = log[n]
  PROVE  IInv'
<1> USE DEF IInv
<1>1. /\ pc' \in [Req -> PCs] /\ pc'[r] = to
      /\ \A q \in Req \ {r} : pc'[q] = pc[q]
  BY DEF Goto, DomainsOK
<1>2. DomainsOK' /\ JoinIsApproved'
  BY <1>1 DEF DomainsOK, JoinIsApproved
<1>3. PassedIsAdmissible'
  BY <1>1 DEF PassedIsAdmissible, Passed, Admissible, PCs
<1>4. WriteAhead'
  <2> SUFFICES ASSUME NEW q \in Req, shape'[q].class = "write",
                      pc'[q] \in {"forward", "sent"} \/ q \in wire' \cup applied'
               PROVE  HasLine(q)'
    BY DEF WriteAhead
  <2>1. pc[q] \in {"forward", "sent"} \/ q \in wire \cup applied
    BY <1>1
  <2>2. HasLine(q)
    BY <2>1 DEF WriteAhead
  <2> QED BY <2>2, LineStays
<1> QED BY <1>2, <1>3, <1>4

LEMMA AdmissionInv ==
  ASSUME IInv, NEW r \in Req, Refuse(r) \/ LoseBody(r) \/ Forward(r) \/ RecordDone(r) \/ RecordUnknown(r)
  PROVE  IInv'
<1> USE DEF IInv
<1>1. /\ pc[r] # "idle" /\ UNCHANGED <<decision, recent, shape, join, applied>>
  BY DEF Refuse, LoseBody, Forward, RecordDone, RecordUnknown, approvalVars
<1>2. /\ log' \in Seq(LogRow)
      /\ \A n \in DOMAIN log : n \in DOMAIN log' /\ log'[n] = log[n]
  <2>1. CASE LoseBody(r) \/ Forward(r)
    BY <2>1 DEF LoseBody, Forward, rowVars, DomainsOK
  <2>2. CASE Refuse(r) \/ RecordDone(r) \/ RecordUnknown(r)
    BY <2>2, AuditGrows DEF Refuse, RecordDone, RecordUnknown, Kinds
  <2> QED BY <2>1, <2>2
<1>3. CASE Forward(r)
  <2>1. /\ pc[r] = "forward" /\ Goto(r, "sent") /\ wire' = wire \cup {r}
    BY <1>3 DEF Forward
  <2>2. Admissible(shape[r])
    BY <2>1 DEF PassedIsAdmissible, Passed
  <2> QED BY <1>1, <1>2, <2>1, <2>2, HandlerInv DEF PCs
<1>4. CASE Refuse(r) \/ LoseBody(r) \/ RecordDone(r) \/ RecordUnknown(r)
  <2>1. Goto(r, "over") /\ wire' \subseteq wire
    BY <1>4 DEF Refuse, LoseBody, RecordDone, RecordUnknown
  <2> QED BY <1>1, <1>2, <2>1, HandlerInv DEF PCs
<1> QED BY <1>3, <1>4

\* A read is let on towards the store, a write to its intent row.
LEMMA AdmitInv == ASSUME IInv, NEW r \in Req, Admit(r) PROVE IInv'
<1> USE DEF IInv
<1>1. /\ pc[r] = "admit" /\ Admissible(shape[r])
      /\ Goto(r, IF shape[r].class = "write" THEN "intent" ELSE "forward")
      /\ UNCHANGED <<decision, recent, shape, join, log, wire, applied>>
  BY DEF Admit, approvalVars, rowVars
<1>2. /\ pc' \in [Req -> PCs] /\ \A q \in Req \ {r} : pc'[q] = pc[q]
      /\ pc'[r] = IF shape[r].class = "write" THEN "intent" ELSE "forward"
  BY <1>1 DEF Goto, DomainsOK, PCs
<1>3. DomainsOK' /\ JoinIsApproved'
  BY <1>1, <1>2 DEF DomainsOK, JoinIsApproved
<1>4. PassedIsAdmissible'
  BY <1>1, <1>2 DEF PassedIsAdmissible, Passed, Admissible
<1>5. WriteAhead'
  <2> SUFFICES ASSUME NEW q \in Req, shape[q].class = "write",
                      pc'[q] \in {"forward", "sent"} \/ q \in wire \cup applied
               PROVE  HasLine(q)
    BY <1>1 DEF WriteAhead, HasLine
  <2>1. pc[q] \in {"forward", "sent"} \/ q \in wire \cup applied
    BY <1>2
  <2> QED BY <2>1 DEF WriteAhead
<1> QED BY <1>3, <1>4, <1>5

\* The write goes on only with its line in the log.
LEMMA RecordIntentInv == ASSUME IInv, NEW r \in Req, RecordIntent(r) PROVE IInv'
<1> USE DEF IInv
<1>1. /\ pc[r] = "intent" /\ UNCHANGED <<decision, recent, shape, join, wire, applied>>
      /\ Admissible(shape[r])
  BY DEF RecordIntent, approvalVars, PassedIsAdmissible, Passed
<1>2. CASE AppendFails("intent", r) /\ Goto(r, "over")
  <2>1. /\ log' \in Seq(LogRow)
        /\ \A n \in DOMAIN log : n \in DOMAIN log' /\ log'[n] = log[n]
    BY <1>2, AuditGrows DEF Audit, Kinds
  <2> QED BY <1>1, <1>2, <2>1, HandlerInv DEF PCs
<1>3. CASE Appended("intent", r) /\ Goto(r, "forward")
  <2>1. PICK k \in {"intent", "bad"} : log' = Append(log, RowOf(k, r))
    BY <1>3 DEF Appended
  <2>2. /\ RowOf(k, r) \in LogRow
        /\ RowOf(k, r).req = r /\ RowOf(k, r).kind = k /\ RowOf(k, r).approval = shape[r].approval
    BY RowTypes DEF Kinds
  <2>3. /\ log' \in Seq(LogRow)
        /\ \A n \in DOMAIN log : n \in DOMAIN log' /\ log'[n] = log[n]
        /\ \E n \in DOMAIN log' : log'[n] = RowOf(k, r)
    BY <2>1, <2>2, LogGrows
  <2>4. /\ pc' \in [Req -> PCs] /\ pc'[r] = "forward" /\ \A q \in Req \ {r} : pc'[q] = pc[q]
    BY <1>3 DEF Goto, DomainsOK, PCs
  <2>5. HasLine(r)'
    BY <1>1, <2>2, <2>3 DEF HasLine
  <2>6. DomainsOK' /\ JoinIsApproved'
    BY <1>1, <2>3, <2>4 DEF DomainsOK, JoinIsApproved
  <2>7. PassedIsAdmissible'
    BY <1>1, <2>4 DEF PassedIsAdmissible, Passed, Admissible
  <2>8. WriteAhead'
    <3> SUFFICES ASSUME NEW q \in Req, q # r, shape[q].class = "write",
                        pc[q] \in {"forward", "sent"} \/ q \in wire \cup applied
                 PROVE  HasLine(q)'
      BY <1>1, <2>4, <2>5 DEF WriteAhead
    <3>1. HasLine(q)
      BY DEF WriteAhead
    <3> QED BY <1>1, <2>3, <3>1, LineStays
  <2> QED BY <2>6, <2>7, <2>8
<1> QED BY <1>2, <1>3 DEF RecordIntent

\* What left the proxy is applied; the process ends, or starts again.
LEMMA OutsideInv ==
  ASSUME IInv, (\E r \in Req : StoreApplies(r)) \/ CloseLog \/ Crash \/ Restart
  PROVE  IInv'
<1> USE DEF IInv
<1>1. UNCHANGED <<decision, recent, log, shape, join>>
  BY DEF StoreApplies, CloseLog, Crash, Restart, approvalVars, rowVars, requestVars
<1>2. /\ pc' \in [Req -> PCs]
      /\ \A q \in Req : pc'[q] = pc[q] \/ (pc'[q] = "over" /\ pc[q] # "idle")
  BY DEF StoreApplies, CloseLog, Crash, Restart, requestVars, DomainsOK, PCs
<1>3. wire' \subseteq wire /\ applied' \subseteq wire \cup applied
  BY DEF StoreApplies, CloseLog, Crash, Restart, requestVars
<1>4. DomainsOK' /\ JoinIsApproved'
  BY <1>1, <1>2, <1>3 DEF DomainsOK, JoinIsApproved
<1>5. PassedIsAdmissible'
  BY <1>1, <1>2, <1>3 DEF PassedIsAdmissible, Passed, Admissible
<1>6. WriteAhead'
  BY <1>1, <1>2, <1>3 DEF WriteAhead, HasLine
<1> QED BY <1>4, <1>5, <1>6

LEMMA JoinInv ==
  ASSUME IInv,
         \/ \E i \in Id, d \in {"approved", "rejected"} : RecordApproval(i, d)
         \/ DayPasses \/ ReadApprovals \/ ReadApprovalsFails
         \/ \E only \in Id \cup {NoId} : ReadLog(only)
  PROVE  IInv'
<1> USE DEF IInv
<1>1. UNCHANGED <<log, shape, pc, wire, applied>>
  BY DEF RecordApproval, DayPasses, ReadApprovals, ReadApprovalsFails, ReadLog, rowVars, requestVars
<1>2. PassedIsAdmissible' /\ WriteAhead'
  BY <1>1 DEF PassedIsAdmissible, Passed, Admissible, WriteAhead, HasLine
<1>3. DomainsOK'
  BY <1>1 DEF RecordApproval, DayPasses, ReadApprovals, ReadApprovalsFails, ReadLog, approvalVars,
              DomainsOK
<1>4. JoinIsApproved'
  <2>1. CASE \E i \in Id, d \in {"approved", "rejected"} : RecordApproval(i, d)
    BY <2>1 DEF RecordApproval, JoinIsApproved, DomainsOK
  <2>2. CASE ReadApprovals
    BY <2>2 DEF ReadApprovals, approvalVars, JoinIsApproved, DomainsOK
  <2>3. CASE DayPasses \/ ReadApprovalsFails \/ \E only \in Id \cup {NoId} : ReadLog(only)
    <3>1. decision' = decision /\ join'.approved = join.approved
      BY <2>3 DEF DayPasses, ReadApprovalsFails, ReadLog, approvalVars
    <3> QED BY <3>1 DEF JoinIsApproved
  <2> QED BY <2>1, <2>2, <2>3
<1> QED BY <1>2, <1>3, <1>4

LEMMA StepInv == IInv /\ [Next]_vars => IInv'
<1> SUFFICES ASSUME IInv, [Next]_vars PROVE IInv'
  OBVIOUS
<1>1. CASE Next
  BY <1>1, ArriveInv, AdmissionInv, AdmitInv, RecordIntentInv, OutsideInv, JoinInv DEF Next
<1>2. CASE UNCHANGED vars
  BY <1>2 DEF vars, IInv, DomainsOK, PassedIsAdmissible, Passed, Admissible, WriteAhead, HasLine,
              JoinIsApproved
<1> QED BY <1>1, <1>2

-----------------------------------------------------------------------------
\* The invariant holds throughout: every request, outcome, crash and step of the join keeps it.
THEOREM Invariance == Spec => []IInv
<1> QED BY InitInv, StepInv, PTL DEF Spec

\* Whatever the store applied as a write has its line in the log, through crashes,
\* short writes, a log closed under its handlers and replies that never came.
THEOREM WritesAreRecorded == Spec => []AppliedIsRecorded
<1>1. IInv => AppliedIsRecorded
  BY DEF IInv, AppliedIsRecorded, Wrote, WritesAtStore, PassedIsAdmissible, Passed, Admissible,
         WriteAhead, HasLine
<1> QED BY <1>1, Invariance, PTL

\* A verdict of OK says that every write in its scope was of an approved workflow.
THEOREM OkIsTrue == Spec => CleanVerdictIsTrue
<1> DEFINE True ==
      \A only \in Id \cup {NoId} :
        ReadLog(only) /\ verdict'.status = "OK"
          => \A r \in Req :
               Wrote(r) /\ InScope(shape[r], only) => decision[shape[r].approval] = "approved"
<1>1. IInv => True
  <2> SUFFICES ASSUME IInv, NEW only \in Id \cup {NoId}, ReadLog(only), verdict'.status = "OK",
                      NEW r \in Req, Wrote(r), InScope(shape[r], only)
               PROVE  decision[shape[r].approval] = "approved"
    OBVIOUS
  <2>1. (\A n \in DOMAIN log : log[n].kind # "bad") /\ Unmatched(only) = {}
    BY DEF ReadLog
  <2>2. shape[r].class = "write"
    BY DEF IInv, PassedIsAdmissible, Passed, Admissible, Wrote, WritesAtStore
  <2>3. PICK n \in DOMAIN log : /\ log[n].req = r /\ log[n].kind \in {"intent", "bad"}
                                /\ log[n].approval = shape[r].approval
    BY <2>2 DEF IInv, WriteAhead, HasLine, Wrote
  <2>4. n \in Writes(only)
    BY <2>1, <2>3 DEF Writes, Counted, InScope
  <2>5. log[n].approval \in join.approved
    BY <2>1, <2>4 DEF Unmatched
  <2> QED BY <2>3, <2>5 DEF IInv, JoinIsApproved
<1>2. IInv => [True]_vars
  BY <1>1
<1>3. CleanVerdictIsTrue <=> [][True]_vars
  BY PTL DEF CleanVerdictIsTrue
<1> QED BY <1>2, <1>3, Invariance, PTL DEF Spec

-----------------------------------------------------------------------------
(* One line per write *)

\* Where no intent row has been written.
Early == {"idle", "admit", "intent"}

\* A request has one intent row, written when it goes on.
OneIntent ==
  \A m, n \in DOMAIN log :
    /\ log[m].kind = "intent" /\ log[n].kind = "intent"
    /\ log[m].req = log[n].req /\ log[m].req # "nobody"
    => m = n
IntentMeansGone ==
  \A n \in DOMAIN log :
    log[n].kind = "intent" /\ log[n].req # "nobody" => pc[log[n].req] \notin Early

\* This proxy writes no rows of the legacy kind, and the verdict is about rows
\* that are counted.
LegacyIsOlder == \A n \in DOMAIN log : log[n].kind = "legacy" => log[n].req = "nobody"
VerdictIsOfWrites == \A n \in verdict.unmatched : n \in DOMAIN log /\ Counted(log[n])

LineInv == OneIntent /\ IntentMeansGone /\ LegacyIsOlder /\ VerdictIsOfWrites

\* What a step may append: a row of a request, the intent row only of one that goes on.
LEMMA LogChanges ==
  ASSUME IInv, Next
  PROVE  /\ \A q \in Req : pc'[q] \in Early => pc[q] \in Early
         /\ \/ log' = log
            \/ \E r \in Req, k \in {"refused", "done", "unknown", "bad"} :
                 log' = Append(log, RowOf(k, r))
            \/ \E r \in Req : /\ log' = Append(log, RowOf("intent", r))
                              /\ pc[r] = "intent" /\ pc'[r] \notin Early
<1> USE DEF IInv, DomainsOK
<1> DEFINE Goal == /\ \A q \in Req : pc'[q] \in Early => pc[q] \in Early
                   /\ \/ log' = log
                      \/ \E r \in Req, k \in {"refused", "done", "unknown", "bad"} :
                           log' = Append(log, RowOf(k, r))
                      \/ \E r \in Req : /\ log' = Append(log, RowOf("intent", r))
                                        /\ pc[r] = "intent" /\ pc'[r] \notin Early
<1>1. ASSUME NEW r \in Req, NEW s \in Shapes, Arrive(r, s) PROVE Goal
  BY <1>1 DEF Arrive, Goto, rowVars, Early
<1>2. ASSUME NEW r \in Req, Refuse(r) \/ RecordDone(r) \/ RecordUnknown(r) PROVE Goal
  <2>1. PICK k \in {"refused", "done", "unknown"} : Audit(k, r)
    BY <1>2 DEF Refuse, RecordDone, RecordUnknown
  <2>2. log' = log \/ \E j \in {k, "bad"} : log' = Append(log, RowOf(j, r))
    BY <2>1 DEF Audit, Appended, AppendFails, rowVars
  <2>3. \A q \in Req : pc'[q] \in Early => pc[q] \in Early
    BY <1>2 DEF Refuse, RecordDone, RecordUnknown, Goto, Early
  <2> QED BY <2>2, <2>3
<1>3. ASSUME NEW r \in Req, Admit(r) \/ LoseBody(r) \/ Forward(r) PROVE Goal
  BY <1>3 DEF Admit, LoseBody, Forward, Goto, rowVars, Early
<1>4. ASSUME NEW r \in Req, RecordIntent(r) PROVE Goal
  <2>1. log' = log \/ \E j \in {"intent", "bad"} : log' = Append(log, RowOf(j, r))
    BY <1>4 DEF RecordIntent, Appended, AppendFails, rowVars
  <2>2. /\ pc[r] = "intent" /\ pc'[r] \notin Early
        /\ \A q \in Req : pc'[q] \in Early => pc[q] \in Early
    BY <1>4 DEF RecordIntent, Goto, Early
  <2> QED BY <2>1, <2>2
<1>5. ASSUME (\E r \in Req : StoreApplies(r)) \/ CloseLog \/ Crash \/ Restart PROVE Goal
  BY <1>5 DEF StoreApplies, CloseLog, Crash, Restart, rowVars, requestVars, Early
<1>6. ASSUME \/ \E i \in Id, d \in {"approved", "rejected"} : RecordApproval(i, d)
             \/ DayPasses \/ ReadApprovals \/ ReadApprovalsFails
             \/ \E only \in Id \cup {NoId} : ReadLog(only)
      PROVE Goal
  BY <1>6 DEF RecordApproval, DayPasses, ReadApprovals, ReadApprovalsFails, ReadLog, rowVars,
              requestVars
<1> QED BY <1>1, <1>2, <1>3, <1>4, <1>5, <1>6 DEF Next

\* The verdict is left alone or drawn from the rows that are counted.
LEMMA VerdictChanges ==
  ASSUME Next
  PROVE  \/ verdict' = verdict
         \/ verdict'.unmatched = {}
         \/ log' = log /\ verdict'.unmatched \subseteq {n \in DOMAIN log : Counted(log[n])}
<1>1. ASSUME NEW r \in Req,
             \/ \E s \in Shapes : Arrive(r, s)
             \/ Refuse(r) \/ Admit(r) \/ LoseBody(r) \/ RecordIntent(r) \/ Forward(r)
             \/ StoreApplies(r) \/ RecordDone(r) \/ RecordUnknown(r)
      PROVE  verdict' = verdict
  BY <1>1 DEF Arrive, Refuse, Admit, LoseBody, RecordIntent, Forward, StoreApplies, RecordDone,
              RecordUnknown
<1>2. ASSUME \/ CloseLog \/ Crash \/ Restart \/ DayPasses \/ ReadApprovals
             \/ \E i \in Id, d \in {"approved", "rejected"} : RecordApproval(i, d)
      PROVE  verdict' = verdict
  BY <1>2 DEF CloseLog, Crash, Restart, DayPasses, ReadApprovals, RecordApproval
<1>3. ASSUME ReadApprovalsFails PROVE verdict'.unmatched = {}
  BY <1>3 DEF ReadApprovalsFails
<1>4. ASSUME NEW only \in Id \cup {NoId}, ReadLog(only)
      PROVE  \/ verdict'.unmatched = {}
             \/ log' = log /\ verdict'.unmatched \subseteq {n \in DOMAIN log : Counted(log[n])}
  <2>1. verdict'.unmatched \in {{}, Unmatched(only)} /\ log' = log
    BY <1>4 DEF ReadLog, rowVars
  <2>2. Unmatched(only) \subseteq {n \in DOMAIN log : Counted(log[n])}
    BY DEF Unmatched, Writes
  <2> QED BY <2>1, <2>2
<1> QED BY <1>1, <1>2, <1>3, <1>4 DEF Next

\* The requests the rows name.
LEMMA RowsOfRequests ==
  ASSUME log \in Seq(LogRow)
  PROVE  \A n \in DOMAIN log : log[n].req \in Req \cup {"nobody"}
<1>1. \A x \in LogRow : x.req \in Req \cup {"nobody"}
  BY DEF LogRow
<1>2. \A n \in DOMAIN log : log[n] \in LogRow
  OBVIOUS
<1> QED BY <1>1, <1>2

\* One row more keeps the lines apart.
LEMMA AppendKeepsLines ==
  ASSUME IInv, LineInv, NEW r \in Req, NEW k \in {"refused", "intent", "done", "unknown", "bad"},
         log' = Append(log, RowOf(k, r)),
         \A q \in Req : pc'[q] \in Early => pc[q] \in Early,
         k = "intent" => pc[r] = "intent" /\ pc'[r] \notin Early
  PROVE  OneIntent' /\ IntentMeansGone' /\ LegacyIsOlder'
<1> USE DEF LineInv
<1>1. /\ RowOf(k, r) \in LogRow /\ RowOf(k, r).req = r /\ RowOf(k, r).kind = k
      /\ log \in Seq(LogRow)
  BY RowTypes DEF IInv, DomainsOK, Kinds
<1> DEFINE new == Len(log) + 1
<1>2. /\ DOMAIN log' = (DOMAIN log) \cup {new} /\ new \notin DOMAIN log
      /\ log'[new].req = r /\ log'[new].kind = k
      /\ \A n \in DOMAIN log : log'[n] = log[n]
  BY <1>1
<1> HIDE DEF new
<1>3. \A n \in DOMAIN log : log[n].req \in Req \cup {"nobody"}
  BY <1>1, RowsOfRequests
<1>4. k = "intent" => \A n \in DOMAIN log :
        ~(log[n].kind = "intent" /\ log[n].req = r /\ r # "nobody")
  BY DEF IntentMeansGone, Early
<1>5. OneIntent'
  BY <1>2, <1>4 DEF OneIntent
<1>6. IntentMeansGone'
  BY <1>2, <1>3 DEF IntentMeansGone
<1>7. LegacyIsOlder'
  BY <1>2 DEF LegacyIsOlder
<1> QED BY <1>5, <1>6, <1>7

LEMMA LinesStep == IInv /\ LineInv /\ [Next]_vars => LineInv'
<1> SUFFICES ASSUME IInv, LineInv, [Next]_vars PROVE LineInv'
  OBVIOUS
<1>1. CASE UNCHANGED vars
  BY <1>1 DEF vars, LineInv, OneIntent, IntentMeansGone, LegacyIsOlder, VerdictIsOfWrites, Counted
<1>2. CASE Next
  <2>1. \A q \in Req : pc'[q] \in Early => pc[q] \in Early
    BY <1>2, LogChanges
  <2>2. log \in Seq(LogRow)
    BY DEF IInv, DomainsOK
  <2>3. CASE log' = log
    <3>1. \A n \in DOMAIN log : log[n].req \in Req \cup {"nobody"}
      BY <2>2, RowsOfRequests
    <3>2. OneIntent' /\ LegacyIsOlder'
      BY <2>3 DEF LineInv, OneIntent, LegacyIsOlder
    <3>3. IntentMeansGone'
      BY <2>1, <2>3, <3>1 DEF LineInv, IntentMeansGone
    <3>4. VerdictIsOfWrites'
      BY <1>2, <2>3, VerdictChanges DEF LineInv, VerdictIsOfWrites, Counted
    <3> QED BY <3>2, <3>3, <3>4 DEF LineInv
  <2>4. ASSUME NEW r \in Req, NEW k \in {"refused", "intent", "done", "unknown", "bad"},
               log' = Append(log, RowOf(k, r)),
               k = "intent" => pc[r] = "intent" /\ pc'[r] \notin Early
        PROVE  LineInv'
    <3>1. OneIntent' /\ IntentMeansGone' /\ LegacyIsOlder'
      BY <2>1, <2>4, AppendKeepsLines
    <3>2. \A n \in DOMAIN log : n \in DOMAIN log' /\ log'[n] = log[n]
      <4>1. RowOf(k, r) \in LogRow
        BY RowTypes DEF IInv, Kinds
      <4> QED BY <2>4, <4>1, LogGrows DEF IInv
    <3>3. log' # log
      BY <2>2, <2>4
    <3>4. VerdictIsOfWrites'
      BY <1>2, <3>2, <3>3, VerdictChanges DEF LineInv, VerdictIsOfWrites, Counted
    <3> QED BY <3>1, <3>4 DEF LineInv
  <2>5. \/ log' = log
        \/ \E r \in Req, k \in {"refused", "done", "unknown", "bad"} : log' = Append(log, RowOf(k, r))
        \/ \E r \in Req : /\ log' = Append(log, RowOf("intent", r))
                          /\ pc[r] = "intent" /\ pc'[r] \notin Early
    BY <1>2, LogChanges
  <2> QED BY <2>3, <2>4, <2>5
<1> QED BY <1>1, <1>2

LEMMA LinesInit == Init => LineInv
<1> SUFFICES ASSUME Init PROVE LineInv
  OBVIOUS
<1>1. log \in InitialLogs /\ \A n \in DOMAIN log : log[n].req = "nobody"
  BY ProxyAssumption DEF Init, ProxyAssumption
<1> QED BY <1>1 DEF Init, LineInv, OneIntent, IntentMeansGone, LegacyIsOlder, VerdictIsOfWrites

\* A write the join does not find approved is one unmatched row, whatever outcome
\* rows, restarts and half lines surround it (tally counts the intent alone).
THEOREM UnmatchedOnce == Spec => []OneUnmatchedPerWrite
<1>1. IInv /\ LineInv => OneUnmatchedPerWrite
  BY DEF LineInv, OneIntent, LegacyIsOlder, VerdictIsOfWrites, Counted, OneUnmatchedPerWrite
<1> QED BY <1>1, LinesInit, LinesStep, Invariance, PTL DEF Spec
=============================================================================

------------------------- MODULE PublishGateProofs -------------------------
(***************************************************************************)
(* Theorems about the publish gate, for every set of workflows, contents,  *)
(* hosts and any number of attempts.                                       *)
(***************************************************************************)
EXTENDS PublishGate, SequenceTheorems, TLAPS

LEMMA AttemptFacts ==
  ASSUME NEW a \in Attempt
  PROVE  WorkflowOf(a) \in Workflow
<1>1. PICK w \in Workflow : a \in {w} \X (1..MaxAttempts[w])
  BY DEF Attempt
<1> QED BY <1>1 DEF WorkflowOf

LEMMA RowFacts ==
  /\ \A h \in Worker \cup {NoOne} : ClaimedBy(h) \in Row
  /\ \A s \in Status : Closed(s) \in Row
BY DEF ClaimedBy, Closed, Row, Lease, Status

LEMMA HolderFacts ==
  ASSUME NEW c PROVE Holders(c) \subseteq Attempt
BY DEF Holders

LEMMA ExpiredFacts ==
  ASSUME NEW f \in [Content -> Row], NEW c \in Content
  PROVE  [f EXCEPT ![c].lease = "expired"] \in [Content -> Row]
<1>1. f[c] \in Row
  OBVIOUS
<1>2. [f[c] EXCEPT !.lease = "expired"] \in Row
  BY <1>1 DEF Row, Lease
<1> QED BY <1>2

LEMMA StoreFacts ==
  ASSUME NEW s \in Seq(Content), NEW c \in Content, NEW i \in Nat
  PROVE  /\ Append(s, c) \in Seq(Content)
         /\ [s EXCEPT ![i] = c] \in Seq(Content)
<1>1. CASE i \in 1..Len(s)
  BY <1>1, ExceptSeq
<1>2. CASE i \notin 1..Len(s)
  <2>1. s = [j \in 1..Len(s) |-> s[j]]
    BY LenProperties
  <2>2. [s EXCEPT ![i] = c] = s
    BY <1>2, <2>1
  <2>3. Append(s, c) \in Seq(Content)
    BY AppendProperties
  <2> QED BY <2>2, <2>3
<1> QED BY <1>1, <1>2

-----------------------------------------------------------------------------
(* Type correctness *)

\* Every reachable state is well typed: the rows stay within the CHECK
\* constraints of the two gate tables.
THEOREM TypeCorrect == Spec => []TypeOK
<1>1. Init => TypeOK
  BY GateAssumption DEF Init, TypeOK, Decision, Row, Status, Lease, NoRow, PCs,
     Requests, Results
<1>2. TypeOK /\ [Next]_vars => TypeOK'
  <2> SUFFICES ASSUME TypeOK, [Next]_vars PROVE TypeOK'
    OBVIOUS
  <2> USE DEF TypeOK, Decision, Row, Status, Lease, PCs, Requests, Results, Goto,
       Return, attemptVars
  <2>1. ASSUME NEW c \in Content, EditProduct(c) PROVE TypeOK'
    BY <2>1 DEF EditProduct
  <2>2. ASSUME NEW c \in Content, LeaseExpires(c) PROVE TypeOK'
    BY <2>2, ExpiredFacts, HolderFacts DEF LeaseExpires
  <2>3. ASSUME NEW w \in Workflow, NEW d \in {"approved", "rejected"},
               RecordApproval(w, d) PROVE TypeOK'
    <3>1. approvals' \in [Workflow -> Decision]
      BY <2>3 DEF RecordApproval
    <3> QED BY <2>3, <3>1 DEF RecordApproval
  <2>4. ASSUME NEW a \in Attempt, NEW h \in Worker, Start(a, h) PROVE TypeOK'
    BY <2>4 DEF Start
  <2>5. ASSUME NEW a \in Attempt, Work(a) PROVE TypeOK'
    <3>1. CASE ApprovalFor(a)
      BY <3>1 DEF ApprovalFor
    <3>2. CASE ClaimInsert(a)
      BY <3>2 DEF ClaimInsert, ClaimedBy
    <3>3. CASE ClaimUpdate(a)
      <4>1. CASE Claimable(content[a], host[a])
        <5>1. ledger' = [ledger EXCEPT ![content[a]] = ClaimedBy(host[a])]
          BY <3>3, <4>1 DEF ClaimUpdate
        <5>2. ledger' \in [Content -> Row]
          <6>1. content[a] \in Content /\ ClaimedBy(host[a]) \in Row
            BY RowFacts
          <6> QED BY <5>1, <6>1
        <5>3. pc' \in [Attempt -> PCs]
          <6>1. \E label \in {"dryrun", "find"} : pc' = [pc EXCEPT ![a] = label]
            BY <3>3, <4>1 DEF ClaimUpdate
          <6> QED BY <6>1
        <5>4. overtaken' \subseteq Attempt
          BY <3>3, <4>1, HolderFacts DEF ClaimUpdate
        <5> QED BY <3>3, <5>2, <5>3, <5>4 DEF ClaimUpdate
      <4>2. CASE ~Claimable(content[a], host[a])
        BY <3>3, <4>2 DEF ClaimUpdate
      <4> QED BY <4>1, <4>2
    <3>4. CASE ClaimDistinguish(a)
      BY <3>4 DEF ClaimDistinguish
    <3>5. CASE CompleteDryRun(a)
      BY <3>5, HolderFacts DEF CompleteDryRun, CloseRow, Closed
    <3>6. CASE FindBySKU(a)
      <4>1. pc' \in [Attempt -> PCs] /\ req' \in [Attempt -> Requests]
        BY <3>6 DEF FindBySKU
      <4>2. target' \in [Attempt -> Nat]
        <5>1. \A i \in DOMAIN store : i \in Nat
          BY LenProperties
        <5>2. target' = target \/ \E i \in Nat : target' = [target EXCEPT ![a] = i]
          BY <3>6, <5>1 DEF FindBySKU
        <5> QED BY <5>2
      <4> QED BY <3>6, <4>1, <4>2 DEF FindBySKU
    <3>7. CASE ReplyArrives(a)
      BY <3>7 DEF ReplyArrives
    <3>8. CASE Complete(a)
      BY <3>8, HolderFacts DEF Complete, CloseRow, Closed
    <3>9. CASE Fail(a)
      BY <3>9, HolderFacts DEF Fail, CloseRow, Closed
    <3> QED BY <2>5, <3>1, <3>2, <3>3, <3>4, <3>5, <3>6, <3>7, <3>8, <3>9 DEF Work
  <2>6. ASSUME NEW a \in Attempt, StoreApplies(a) PROVE TypeOK'
    <3>1. store' \in Seq(Content)
      BY <2>6, StoreFacts DEF StoreApplies
    <3> QED BY <2>6, <3>1 DEF StoreApplies
  <2>7. ASSUME NEW a \in Attempt, Fault(a) PROVE TypeOK'
    <3>1. CASE LookupFails(a)
      BY <3>1 DEF LookupFails, Classified
    <3>2. CASE DialFails(a)
      BY <3>2 DEF DialFails
    <3>3. CASE StoreRefuses(a)
      BY <3>3 DEF StoreRefuses
    <3>4. CASE ReplyLost(a)
      BY <3>4 DEF ReplyLost, Orphan, Classified
    <3>5. CASE Abandon(a)
      BY <3>5 DEF Abandon, Orphan
    <3> QED BY <2>7, <3>1, <3>2, <3>3, <3>4, <3>5 DEF Fault
  <2>8. CASE UNCHANGED vars
    BY <2>8 DEF vars
  <2> QED BY <2>1, <2>2, <2>3, <2>4, <2>5, <2>6, <2>7, <2>8 DEF Next
<1> QED BY <1>1, <1>2, PTL DEF Spec

-----------------------------------------------------------------------------
(* No write without approval *)

\* An attempt past the approval check, or with a write on its way, belongs to an
\* approved workflow.
PastApproval(a) == pc[a] \notin {"idle", "approval", "over"} \/ req[a] # "unsent"

ApprovedInv ==
  \A a \in Attempt : PastApproval(a) => approvals[WorkflowOf(a)] = "approved"

LEMMA ApprovedInvariant == Spec => []ApprovedInv
<1>1. Init => ApprovedInv
  BY DEF Init, ApprovedInv, PastApproval
<1>2. TypeOK /\ ApprovedInv /\ [Next]_vars => ApprovedInv'
  <2> SUFFICES ASSUME TypeOK, ApprovedInv, [Next]_vars,
                      NEW b \in Attempt, PastApproval(b)'
               PROVE  approvals'[WorkflowOf(b)] = "approved"
    BY DEF ApprovedInv, WorkflowOf
  <2> USE AttemptFacts DEF TypeOK, ApprovedInv, PastApproval, Goto, Return, attemptVars
  <2>1. ASSUME NEW c \in Content, EditProduct(c) \/ LeaseExpires(c)
        PROVE  approvals'[WorkflowOf(b)] = "approved"
    BY <2>1 DEF EditProduct, LeaseExpires
  <2>2. ASSUME NEW w \in Workflow, NEW d \in {"approved", "rejected"},
               RecordApproval(w, d)
        PROVE  approvals'[WorkflowOf(b)] = "approved"
    BY <2>2 DEF RecordApproval
  <2>3. ASSUME NEW a \in Attempt, NEW h \in Worker, Start(a, h)
        PROVE  approvals'[WorkflowOf(b)] = "approved"
    BY <2>3 DEF Start
  <2>4. ASSUME NEW a \in Attempt, Work(a)
        PROVE  approvals'[WorkflowOf(b)] = "approved"
    <3>1. CASE ApprovalFor(a)
      <4>1. approvals[WorkflowOf(a)] \in {"none", "approved", "rejected"}
        BY DEF Decision
      <4> QED BY <3>1, <4>1 DEF ApprovalFor
    <3>2. CASE ClaimInsert(a) \/ ClaimUpdate(a) \/ ClaimDistinguish(a)
      BY <3>2 DEF ClaimInsert, ClaimUpdate, ClaimDistinguish
    <3>3. CASE CompleteDryRun(a) \/ FindBySKU(a) \/ ReplyArrives(a)
      BY <3>3 DEF CompleteDryRun, FindBySKU, ReplyArrives
    <3>4. CASE Complete(a) \/ Fail(a)
      BY <3>4 DEF Complete, Fail, Classified
    <3> QED BY <2>4, <3>1, <3>2, <3>3, <3>4 DEF Work
  <2>5. ASSUME NEW a \in Attempt, StoreApplies(a)
        PROVE  approvals'[WorkflowOf(b)] = "approved"
    BY <2>5 DEF StoreApplies
  <2>6. ASSUME NEW a \in Attempt, Fault(a)
        PROVE  approvals'[WorkflowOf(b)] = "approved"
    BY <2>6 DEF Fault, LookupFails, DialFails, StoreRefuses, ReplyLost, Abandon,
       Orphan, Classified, Running
  <2>7. CASE UNCHANGED vars
    BY <2>7 DEF vars
  <2> QED BY <2>1, <2>2, <2>3, <2>4, <2>5, <2>6, <2>7 DEF Next
<1> QED BY <1>1, <1>2, TypeCorrect, PTL DEF Spec

\* No store write ever leaves a worker for a workflow that is not approved, under
\* any interleaving, crash, lost reply or late write.
THEOREM ApprovalSafety == Spec => []WriteNeedsApproval
<1>1. ApprovedInv => WriteNeedsApproval
  BY DEF ApprovedInv, PastApproval, WriteNeedsApproval
<1> QED BY <1>1, ApprovedInvariant, PTL

-----------------------------------------------------------------------------
(* The claim excludes *)

\* The row of a key is the claim of the attempt that works under it, unless that
\* attempt was overtaken.
HoldInv ==
  \A a \in Attempt :
    Holding(a) /\ a \notin overtaken => ledger[content[a]] = ClaimedBy(host[a])

ClaimInv == HoldInv /\ ClaimExclusive

\* The fields and the host of an attempt are set once, when it starts; an attempt
\* begins to hold a key by ClaimUpdate alone; and overtaken attempts remain so.
LEMMA HoldingSteps ==
  ASSUME TypeOK, [Next]_vars
  PROVE  /\ overtaken \subseteq overtaken'
         /\ \A b \in Attempt : pc[b] # "idle" => content'[b] = content[b] /\ host'[b] = host[b]
         /\ \A b \in Attempt : Holding(b)' => Holding(b) \/ ClaimUpdate(b)
<1> USE DEF TypeOK, Holding, Goto, Return, attemptVars
<1>1. ASSUME NEW a \in Attempt, Work(a)
      PROVE  /\ overtaken \subseteq overtaken' /\ UNCHANGED <<content, host>>
             /\ \A b \in Attempt : Holding(b)' => Holding(b) \/ ClaimUpdate(b)
  <2>1. CASE ClaimUpdate(a)
    <3>1. overtaken \subseteq overtaken' /\ UNCHANGED <<content, host>>
      BY <2>1 DEF ClaimUpdate
    <3>2. \A b \in Attempt : b # a => pc'[b] = pc[b]
      BY <2>1 DEF ClaimUpdate
    <3> QED BY <2>1, <3>1, <3>2
  <2>2. CASE ApprovalFor(a) \/ ClaimInsert(a) \/ ClaimDistinguish(a) \/ FindBySKU(a) \/ ReplyArrives(a)
    BY <2>2 DEF ApprovalFor, ClaimInsert, ClaimDistinguish, FindBySKU, ReplyArrives
  <2>3. CASE CompleteDryRun(a) \/ Complete(a) \/ Fail(a)
    BY <2>3 DEF CompleteDryRun, Complete, Fail, CloseRow
  <2> QED BY <1>1, <2>1, <2>2, <2>3 DEF Work
<1>2. ASSUME NEW a \in Attempt, Fault(a) \/ StoreApplies(a)
      PROVE  /\ UNCHANGED <<overtaken, content, host>>
             /\ \A b \in Attempt : Holding(b)' => Holding(b)
  BY <1>2 DEF Fault, LookupFails, DialFails, StoreRefuses, ReplyLost, Abandon, Classified,
     StoreApplies
<1>3. ASSUME NEW a \in Attempt, NEW h \in Worker, Start(a, h)
      PROVE  /\ UNCHANGED overtaken
             /\ \A b \in Attempt : pc[b] # "idle" => content'[b] = content[b] /\ host'[b] = host[b]
             /\ \A b \in Attempt : Holding(b)' => Holding(b)
  BY <1>3 DEF Start
<1>4. ASSUME NEW c \in Content, EditProduct(c) \/ LeaseExpires(c)
      PROVE  overtaken \subseteq overtaken' /\ UNCHANGED <<content, host, pc>>
  BY <1>4 DEF EditProduct, LeaseExpires
<1>5. ASSUME NEW w \in Workflow, NEW d \in {"approved", "rejected"}, RecordApproval(w, d)
      PROVE  UNCHANGED <<overtaken, content, host, pc>>
  BY <1>5 DEF RecordApproval
<1>6. CASE UNCHANGED vars
  BY <1>6 DEF vars
<1> QED BY <1>1, <1>2, <1>3, <1>4, <1>5, <1>6 DEF Next

LEMMA HoldersAreRunning == \A a \in Attempt : Holding(a) => pc[a] # "idle" /\ Running(a)
BY DEF Holding, Running

\* The claiming UPDATE refuses a key somebody else works under, unless it takes the
\* key from an attempt of its own host, which is then overtaken.
LEMMA ClaimRefused ==
  ASSUME TypeOK, HoldInv, NEW a \in Attempt, NEW b \in Attempt, ClaimUpdate(a),
         Holding(b), b \notin overtaken', content[a] = content[b]
  PROVE  ~Holding(a)' /\ ledger' = ledger
<1>1. b \notin overtaken
  BY DEF ClaimUpdate
<1>2. /\ ledger[content[a]] = ClaimedBy(host[b])
      /\ ledger[content[a]].lease = "live" /\ ledger[content[a]].owner = host[b]
  BY <1>1 DEF HoldInv, ClaimedBy
<1>3. ~Claimable(content[a], host[a])
  <2>1. SUFFICES ASSUME Claimable(content[a], host[a]) PROVE FALSE
    OBVIOUS
  <2>2. host[a] = host[b]
    BY <1>2, <2>1 DEF Claimable
  <2>3. b \in {x \in Holders(content[a]) : host[x] = host[a]}
    BY <2>2 DEF Holders
  <2> QED BY <2>1, <2>3 DEF ClaimUpdate
<1>4. ledger' = ledger /\ pc' = [pc EXCEPT ![a] = "distinguish"]
  BY <1>3 DEF ClaimUpdate, Goto
<1> QED BY <1>4 DEF Holding, TypeOK

\* Two holders of one key after a step: both held it before, or one has claimed it.
LEMMA ExclusiveStep == TypeOK /\ ClaimInv /\ [Next]_vars => ClaimExclusive'
<1> SUFFICES ASSUME TypeOK, ClaimInv, [Next]_vars,
                    NEW a \in Attempt, NEW b \in Attempt, Holding(a)', Holding(b)',
                    content'[a] = content'[b], a # b,
                    a \notin overtaken', b \notin overtaken'
             PROVE  FALSE
  BY DEF ClaimExclusive, Holding, Attempt
<1>1. /\ a \notin overtaken /\ b \notin overtaken
      /\ Holding(a) \/ ClaimUpdate(a)
      /\ Holding(b) \/ ClaimUpdate(b)
  BY HoldingSteps
<1>2. pc[a] # "idle" /\ pc[b] # "idle"
  BY <1>1 DEF Holding, ClaimUpdate
<1>3. content[a] = content[b]
  BY <1>2, HoldingSteps
<1>4. CASE Holding(a) /\ Holding(b)
  BY <1>1, <1>3, <1>4 DEF ClaimInv, ClaimExclusive
<1>5. CASE ClaimUpdate(a) /\ Holding(b)
  BY <1>3, <1>5, ClaimRefused DEF ClaimInv
<1>6. CASE Holding(a) /\ ClaimUpdate(b)
  BY <1>3, <1>6, ClaimRefused DEF ClaimInv
<1>7. CASE ClaimUpdate(a) /\ ClaimUpdate(b)
  <2>1. pc[a] = "claim" /\ pc'[a] = pc[a]
    BY <1>7 DEF ClaimUpdate, Goto, TypeOK
  <2> QED BY <2>1 DEF Holding
<1> QED BY <1>1, <1>4, <1>5, <1>6, <1>7

\* Each step keeps the row of every holder that is not overtaken.
LEMMA HoldStep == TypeOK /\ ClaimInv /\ [Next]_vars => HoldInv'
<1> SUFFICES ASSUME TypeOK, ClaimInv, [Next]_vars,
                    NEW b \in Attempt, Holding(b)', b \notin overtaken'
             PROVE  ledger'[content'[b]] = ClaimedBy(host'[b])
  BY DEF HoldInv, Holding, ClaimedBy, Attempt
<1>1. CASE ~Holding(b)
  <2>1. ClaimUpdate(b) /\ UNCHANGED <<content, host>>
    BY <1>1, HoldingSteps DEF ClaimUpdate, attemptVars
  <2>2. Claimable(content[b], host[b])
    BY <2>1 DEF ClaimUpdate, Goto, TypeOK, Holding
  <2>3. ledger' = [ledger EXCEPT ![content[b]] = ClaimedBy(host[b])]
    BY <2>1, <2>2 DEF ClaimUpdate
  <2> QED BY <2>1, <2>3 DEF TypeOK
<1>2. CASE Holding(b)
  <2> USE <1>2 DEF TypeOK
  <2>1. /\ b \notin overtaken /\ content'[b] = content[b] /\ host'[b] = host[b]
        /\ ledger[content[b]] = ClaimedBy(host[b])
    BY HoldingSteps, HoldersAreRunning DEF ClaimInv, HoldInv
  <2>2. SUFFICES ledger'[content[b]] = ledger[content[b]]
    BY <2>1
  <2>3. ASSUME NEW a \in Attempt, Holding(a), pc'[a] = "over", \E status \in Status : CloseRow(a, status)
        PROVE  ledger'[content[b]] = ledger[content[b]]
    <3>1. a # b
      BY <2>3 DEF Holding
    <3>2. CASE content[a] = content[b]
      <4>1. a \in overtaken /\ b \in Holders(content[a])
        BY <2>1, <2>3, <3>1, <3>2 DEF ClaimInv, ClaimExclusive, Holders
      <4> QED BY <2>3, <4>1 DEF CloseRow
    <3> QED BY <2>3, <3>2 DEF CloseRow
  <2>4. ASSUME NEW a \in Attempt, Work(a) PROVE ledger'[content[b]] = ledger[content[b]]
    <3>1. CASE ClaimInsert(a)
      <4>1. ledger[content[b]].status = "in_progress"
        BY <2>1 DEF ClaimedBy
      <4> QED BY <3>1, <4>1 DEF ClaimInsert
    <3>2. CASE ClaimUpdate(a)
      <4>1. CASE content[a] = content[b]
        BY <3>2, <4>1, ClaimRefused DEF ClaimInv
      <4>2. CASE content[a] # content[b]
        BY <3>2, <4>2 DEF ClaimUpdate
      <4> QED BY <4>1, <4>2
    <3>3. CASE CompleteDryRun(a) \/ Complete(a) \/ Fail(a)
      <4>1. Holding(a) /\ pc'[a] = "over" /\ \E status \in Status : CloseRow(a, status)
        BY <3>3 DEF CompleteDryRun, Complete, Fail, Classified, Holding, Return, Goto, Status
      <4> QED BY <2>3, <4>1
    <3>4. CASE ApprovalFor(a) \/ ClaimDistinguish(a) \/ FindBySKU(a) \/ ReplyArrives(a)
      BY <3>4 DEF ApprovalFor, ClaimDistinguish, FindBySKU, ReplyArrives
    <3> QED BY <2>4, <3>1, <3>2, <3>3, <3>4 DEF Work
  <2>5. ASSUME NEW a \in Attempt, (\E h \in Worker : Start(a, h)) \/ StoreApplies(a) \/ Fault(a)
        PROVE  ledger' = ledger
    BY <2>5 DEF Start, StoreApplies, Fault, LookupFails, DialFails, StoreRefuses, ReplyLost, Abandon
  <2>6. ASSUME NEW c \in Content, LeaseExpires(c) PROVE ledger'[content[b]] = ledger[content[b]]
    <3>1. b \notin Holders(c)
      BY <2>6 DEF LeaseExpires
    <3>2. content[b] # c
      BY <3>1 DEF Holders
    <3> QED BY <2>6, <3>2 DEF LeaseExpires
  <2>7. ASSUME \/ \E c \in Content : EditProduct(c)
               \/ \E w \in Workflow, d \in {"approved", "rejected"} : RecordApproval(w, d)
               \/ UNCHANGED vars
        PROVE  ledger' = ledger
    BY <2>7 DEF EditProduct, RecordApproval, vars
  <2> QED BY <2>4, <2>5, <2>6, <2>7 DEF Next
<1> QED BY <1>1, <1>2

LEMMA ClaimInvariant == Spec => []ClaimInv
<1>1. Init => ClaimInv
  BY DEF Init, ClaimInv, HoldInv, ClaimExclusive, Holding
<1>2. TypeOK /\ ClaimInv /\ [Next]_vars => ClaimInv'
  BY ExclusiveStep, HoldStep DEF ClaimInv
<1> QED BY <1>1, <1>2, TypeCorrect, PTL DEF Spec

\* PGStore.Claim is a mutual exclusion for any number of workflows, hosts, keys and
\* attempts, wherever they run and whatever fails: two attempts work under a claim
\* of one key only if a lease ran out under one of them, its own host claimed the
\* key again, or an attempt so overtaken closed the row under it.
THEOREM ClaimExclusion == Spec => []ClaimExclusive
<1>1. ClaimInv => ClaimExclusive
  BY DEF ClaimInv
<1> QED BY <1>1, ClaimInvariant, PTL

-----------------------------------------------------------------------------
(* A completed row is never a lie *)

Sold(c) == Written(c) \/ OnceSold(c)

\* Before its write leaves, an attempt has no request.
BeforeWrite == {"idle", "approval", "insert", "claim", "distinguish", "dryrun", "find"}
UnsentInv == \A a \in Attempt : pc[a] \in BeforeWrite => req[a] = "unsent"

StoreInv == \A i \in DOMAIN store : Sold(store[i])
ReplyInv == \A a \in Attempt : pc[a] = "complete" => Sold(content[a])

\* How one step of an attempt moves its program counter and its request.
Moves(a, from, to) == pc[a] \in from /\ \E label \in to : pc' = [pc EXCEPT ![a] = label]

LEMMA WorkMoves ==
  ASSUME TypeOK, NEW a \in Attempt, Work(a)
  PROVE  /\ UNCHANGED <<content, store>>
         /\ \/ req' = req /\ Moves(a, {"approval"}, {"insert", "over"})
            \/ req' = req /\ Moves(a, {"insert"}, {"claim"})
            \/ req' = req /\ Moves(a, {"claim"}, {"dryrun", "find", "distinguish"})
            \/ req' = req /\ Moves(a, {"distinguish", "dryrun", "fail", "unreachable"}, {"over"})
            \/ req' = [req EXCEPT ![a] = "sent"] /\ Moves(a, {"find"}, {"await"})
            \/ /\ req' = req /\ Moves(a, {"find"}, {"complete"})
               /\ \E i \in DOMAIN store : store[i] = content[a]
            \/ req' = req /\ req[a] = "applied" /\ Moves(a, {"await"}, {"complete"})
            \/ req' = req /\ Moves(a, {"complete"}, {"over"})
<1> USE DEF Moves, Goto, Return, attemptVars
<1>1. CASE ApprovalFor(a)
  BY <1>1 DEF ApprovalFor
<1>2. CASE ClaimInsert(a) \/ ClaimUpdate(a) \/ ClaimDistinguish(a) \/ CompleteDryRun(a)
  BY <1>2 DEF ClaimInsert, ClaimUpdate, ClaimDistinguish, CompleteDryRun
<1>3. CASE FindBySKU(a)
  BY <1>3 DEF FindBySKU, Matches
<1>4. CASE ReplyArrives(a) \/ Complete(a) \/ Fail(a)
  BY <1>4 DEF ReplyArrives, Complete, Fail, Classified
<1> QED BY <1>1, <1>2, <1>3, <1>4 DEF Work

LEMMA FaultMoves ==
  ASSUME TypeOK, NEW a \in Attempt, Fault(a)
  PROVE  /\ UNCHANGED <<content, store, ledger>>
         /\ pc[a] # "idle"
         /\ \E label \in {"fail", "unreachable", "over"} : pc' = [pc EXCEPT ![a] = label]
         /\ \/ req' = req
            \/ req[a] = "sent" /\ \E r \in {"lost", "refused"} : req' = [req EXCEPT ![a] = r]
BY DEF Fault, LookupFails, DialFails, StoreRefuses, ReplyLost, Abandon, Orphan,
   Classified, Running, Goto, Return, attemptVars

\* What was written or sold once stays so, and requests are made one at a time.
LEMMA SoldStable ==
  ASSUME TypeOK, UnsentInv, [Next]_vars
  PROVE  UnsentInv' /\ \A c : Sold(c) => Sold(c)'
<1> DEFINE Kept == \A b \in Attempt : Applied(b) => Applied(b)' /\ content'[b] = content[b]
<1>1. UnsentInv' /\ Kept
  <2> USE DEF TypeOK, UnsentInv, BeforeWrite, Applied, Goto, Return, attemptVars
  <2>1. ASSUME NEW a \in Attempt, NEW h \in Worker, Start(a, h) PROVE UnsentInv' /\ Kept
    BY <2>1 DEF Start
  <2>2. ASSUME NEW a \in Attempt, Work(a) PROVE UnsentInv' /\ Kept
    BY <2>2, WorkMoves DEF Moves
  <2>3. ASSUME NEW a \in Attempt, Fault(a) PROVE UnsentInv' /\ Kept
    BY <2>3, FaultMoves
  <2>4. ASSUME NEW a \in Attempt, StoreApplies(a) PROVE UnsentInv' /\ Kept
    BY <2>4 DEF StoreApplies
  <2>5. ASSUME NEW c \in Content, EditProduct(c) \/ LeaseExpires(c)
        PROVE  UnsentInv' /\ Kept
    BY <2>5 DEF EditProduct, LeaseExpires
  <2>6. ASSUME NEW w \in Workflow, NEW d \in {"approved", "rejected"}, RecordApproval(w, d)
        PROVE  UnsentInv' /\ Kept
    BY <2>6 DEF RecordApproval
  <2>7. CASE UNCHANGED vars
    BY <2>7 DEF vars
  <2> QED BY <2>1, <2>2, <2>3, <2>4, <2>5, <2>6, <2>7 DEF Next
<1> QED BY <1>1 DEF Sold, Written, OnceSold

\* Only the Complete of an attempt that got its reply, or found a match, completes a row.
LEMMA CompletesFromReply ==
  ASSUME TypeOK, [Next]_vars, NEW c \in Content,
         ledger'[c].status = "completed", ledger[c].status # "completed"
  PROVE  \E a \in Attempt : pc[a] = "complete" /\ content[a] = c
<1> USE DEF TypeOK, Goto, Return, attemptVars
<1>1. ASSUME NEW a \in Attempt, NEW h \in Worker, Start(a, h) PROVE FALSE
  BY <1>1 DEF Start
<1>2. ASSUME NEW a \in Attempt, Work(a)
      PROVE  \E b \in Attempt : pc[b] = "complete" /\ content[b] = c
  <2>1. CASE Complete(a)
    BY <2>1 DEF Complete, CloseRow, Closed
  <2>2. CASE ClaimInsert(a) \/ ClaimUpdate(a) \/ CompleteDryRun(a) \/ Fail(a)
    BY <2>2 DEF ClaimInsert, ClaimUpdate, CompleteDryRun, Fail, CloseRow, Closed, ClaimedBy
  <2>3. CASE ApprovalFor(a) \/ ClaimDistinguish(a) \/ FindBySKU(a) \/ ReplyArrives(a)
    BY <2>3 DEF ApprovalFor, ClaimDistinguish, FindBySKU, ReplyArrives
  <2> QED BY <1>2, <2>1, <2>2, <2>3 DEF Work
<1>3. ASSUME NEW a \in Attempt, Fault(a) \/ StoreApplies(a) PROVE FALSE
  BY <1>3, FaultMoves DEF StoreApplies
<1>4. ASSUME NEW d \in Content, EditProduct(d) \/ LeaseExpires(d) PROVE FALSE
  <2>1. CASE EditProduct(d)
    BY <2>1 DEF EditProduct
  <2>2. CASE LeaseExpires(d)
    <3>1. ledger' = [ledger EXCEPT ![d].lease = "expired"] /\ ledger[c] \in Row /\ ledger[d] \in Row
      BY <2>2 DEF LeaseExpires
    <3>2. ledger'[c].status = ledger[c].status
      BY <3>1 DEF Row
    <3> QED BY <3>2
  <2> QED BY <1>4, <2>1, <2>2
<1>5. ASSUME NEW w \in Workflow, NEW d \in {"approved", "rejected"}, RecordApproval(w, d)
      PROVE  FALSE
  BY <1>5 DEF RecordApproval
<1>6. CASE UNCHANGED vars
  BY <1>6 DEF vars
<1> QED BY <1>1, <1>2, <1>3, <1>4, <1>5, <1>6 DEF Next

\* StoreInv and ReplyInv are carried by every step.
LEMMA SoldStep ==
  ASSUME TypeOK, UnsentInv, StoreInv, ReplyInv, [Next]_vars
  PROVE  StoreInv' /\ ReplyInv'
<1>0. \A c : Sold(c) => Sold(c)'
  BY SoldStable
<1> USE DEF TypeOK, StoreInv, ReplyInv, Goto, Return, attemptVars
<1>1. ASSUME NEW a \in Attempt, NEW h \in Worker, Start(a, h) PROVE StoreInv' /\ ReplyInv'
  BY <1>1, <1>0 DEF Start
<1>2. ASSUME NEW a \in Attempt, Work(a) PROVE StoreInv' /\ ReplyInv'
  <2>1. UNCHANGED <<content, store>>
    BY <1>2, WorkMoves
  <2>2. StoreInv'
    BY <2>1, <1>0
  <2>3. ASSUME NEW b \in Attempt, pc'[b] = "complete" PROVE Sold(content[b])
    <3>1. CASE pc[b] = "complete"
      BY <3>1
    <3>2. CASE pc[b] # "complete"
      <4>1. b = a /\ (req[a] = "applied" \/ \E i \in DOMAIN store : store[i] = content[a])
        BY <1>2, <2>3, <3>2, WorkMoves DEF Moves
      <4> QED BY <4>1 DEF Sold, Written, Applied
    <3> QED BY <3>1, <3>2
  <2> QED BY <2>1, <2>2, <2>3, <1>0
<1>3. ASSUME NEW a \in Attempt, Fault(a) PROVE StoreInv' /\ ReplyInv'
  BY <1>3, <1>0, FaultMoves
<1>4. ASSUME NEW a \in Attempt, StoreApplies(a) PROVE StoreInv' /\ ReplyInv'
  <2>1. ReplyInv'
    BY <1>4, <1>0 DEF StoreApplies
  <2>2. Sold(content[a])'
    BY <1>4 DEF StoreApplies, Sold, Written, Applied
  <2>3. ASSUME NEW i \in DOMAIN store' PROVE store'[i] = content'[a] \/ (i \in DOMAIN store /\ store'[i] = store[i])
    <3>1. CASE target[a] = 0
      BY <1>4, <2>3, <3>1, AppendProperties, LenProperties DEF StoreApplies
    <3>2. CASE target[a] # 0
      BY <1>4, <2>3, <3>2 DEF StoreApplies
    <3> QED BY <3>1, <3>2
  <2> QED BY <2>1, <2>2, <2>3, <1>0
<1>5. ASSUME NEW c \in Content, EditProduct(c) \/ LeaseExpires(c) PROVE StoreInv' /\ ReplyInv'
  BY <1>5, <1>0 DEF EditProduct, LeaseExpires
<1>6. ASSUME NEW w \in Workflow, NEW d \in {"approved", "rejected"}, RecordApproval(w, d)
      PROVE  StoreInv' /\ ReplyInv'
  BY <1>6, <1>0 DEF RecordApproval
<1>7. CASE UNCHANGED vars
  BY <1>7, <1>0 DEF vars
<1> QED BY <1>1, <1>2, <1>3, <1>4, <1>5, <1>6, <1>7 DEF Next

\* A row of publish_ledger that says completed is true: the store took a write of
\* that key or sold that content from the start, under every race and fault.
THEOREM CompletedIsTrue == Spec => []CompletedWasWritten
<1> DEFINE Inv == UnsentInv /\ StoreInv /\ ReplyInv /\ CompletedWasWritten
<1>1. Init => Inv
  BY DEF Init, UnsentInv, StoreInv, ReplyInv, CompletedWasWritten, Sold, OnceSold, NoRow
<1>2. TypeOK /\ Inv /\ [Next]_vars => Inv'
  <2> SUFFICES ASSUME TypeOK, Inv, [Next]_vars PROVE Inv'
    OBVIOUS
  <2>1. UnsentInv' /\ \A c : Sold(c) => Sold(c)'
    BY SoldStable
  <2>2. StoreInv' /\ ReplyInv'
    BY SoldStep
  <2>3. ASSUME NEW c \in Content, ledger'[c].status = "completed" PROVE Sold(c)'
    <3>1. CASE ledger[c].status = "completed"
      BY <3>1, <2>1 DEF CompletedWasWritten, Sold
    <3>2. CASE ledger[c].status # "completed"
      BY <3>2, <2>1, <2>3, CompletesFromReply DEF ReplyInv
    <3> QED BY <3>1, <3>2
  <2> QED BY <2>1, <2>2, <2>3 DEF CompletedWasWritten, Sold
<1> QED BY <1>1, <1>2, TypeCorrect, PTL DEF Spec

-----------------------------------------------------------------------------
(* The SKU names one product *)

\* A write on its way still fits the store: an update names a product that is there,
\* and nothing is created beside what was on sale from the start.
WireInv ==
  /\ \A a \in Attempt : req[a] = "sent" /\ target[a] # 0 => target[a] \in DOMAIN store
  /\ \A a \in Attempt : InitialStore # <<>> => ~(req[a] = "sent" /\ target[a] = 0)
  /\ InitialStore # <<>> => store # <<>>
  /\ store # <<>> => InitialStore # <<>> \/ \E a \in Attempt : Created(a)
  /\ \A a \in Attempt : Created(a) => store # <<>>

\* A product created while another create was on its way came from an attempt that
\* worked beside the other's, or the other's has already given up.
OverlapInv ==
  \A a, b \in Attempt :
    req[a] = "sent" /\ target[a] = 0 /\ Created(b) => SideBySide(a, b) \/ pc[a] # "await"

LEMMA StoreIsNotEmptied ==
  ASSUME TypeOK, NEW a \in Attempt, StoreApplies(a), target[a] # 0 => target[a] \in DOMAIN store
  PROVE  /\ store' # <<>>
         /\ DOMAIN store \subseteq DOMAIN store'
<1> USE DEF TypeOK
<1>0. store \in Seq(Content) /\ content[a] \in Content /\ DOMAIN store = 1..Len(store)
  BY LenProperties
<1>1. CASE target[a] = 0
  <2>1. store' = Append(store, content[a])
    BY <1>1 DEF StoreApplies
  <2>2. Len(store') = Len(store) + 1 /\ store' \in Seq(Content)
    BY <1>0, <2>1, AppendProperties
  <2> QED BY <1>0, <2>2, LenProperties
<1>2. CASE target[a] # 0
  <2>1. target[a] \in 1..Len(store) /\ store' = [store EXCEPT ![target[a]] = content[a]]
    BY <1>0, <1>2 DEF StoreApplies
  <2>2. DOMAIN store' = DOMAIN store
    BY <2>1
  <2>3. target[a] \in DOMAIN store'
    BY <1>0, <2>1, <2>2
  <2> QED BY <2>2, <2>3
<1> QED BY <1>1, <1>2

\* An attempt's write kind is decided when its request leaves, and only then.
LEMMA RequestSteps ==
  ASSUME TypeOK, UnsentInv, [Next]_vars, NEW b \in Attempt
  PROVE  /\ Applied(b) => req'[b] = req[b]
         /\ req[b] # "unsent" => target'[b] = target[b] /\ pc[b] # "idle"
         /\ req[b] = "sent" /\ pc'[b] = "await" => pc[b] = "await"
         /\ req'[b] = "sent" => req[b] = "sent" \/ FindBySKU(b)
         /\ Applied(b)' => Applied(b) \/ StoreApplies(b)
<1> DEFINE P == /\ Applied(b) => req'[b] = req[b]
                /\ req[b] # "unsent" => target'[b] = target[b]
                /\ req[b] = "sent" /\ pc'[b] = "await" => pc[b] = "await"
                /\ req'[b] = "sent" => req[b] = "sent" \/ FindBySKU(b)
                /\ Applied(b)' => Applied(b) \/ StoreApplies(b)
<1>0. req[b] # "unsent" => pc[b] \notin BeforeWrite
  BY DEF UnsentInv
<1> USE DEF TypeOK, Applied, Goto, Return, attemptVars
<1>1. ASSUME NEW a \in Attempt, Work(a) PROVE P
  <2>1. CASE ApprovalFor(a) \/ ClaimInsert(a) \/ ClaimUpdate(a) \/ ClaimDistinguish(a)
    BY <2>1 DEF ApprovalFor, ClaimInsert, ClaimUpdate, ClaimDistinguish
  <2>2. CASE CompleteDryRun(a) \/ ReplyArrives(a) \/ Complete(a) \/ Fail(a)
    BY <2>2 DEF CompleteDryRun, ReplyArrives, Complete, Fail, Classified
  <2>3. CASE FindBySKU(a)
    <3>1. CASE a = b
      <4>1. req[b] = "unsent" /\ FindBySKU(b)
        BY <1>0, <2>3, <3>1 DEF FindBySKU, BeforeWrite
      <4>2. req'[b] \in {"unsent", "sent"}
        BY <2>3, <3>1, <4>1 DEF FindBySKU
      <4> QED BY <4>1, <4>2
    <3>2. CASE a # b
      BY <2>3, <3>2 DEF FindBySKU
    <3> QED BY <3>1, <3>2
  <2> QED BY <1>1, <2>1, <2>2, <2>3 DEF Work
<1>2. ASSUME NEW a \in Attempt, Fault(a) PROVE P
  BY <1>2 DEF Fault, LookupFails, DialFails, StoreRefuses, ReplyLost, Abandon, Orphan, Classified
<1>3. ASSUME NEW a \in Attempt, StoreApplies(a) PROVE P
  BY <1>3 DEF StoreApplies
<1>4. ASSUME NEW a \in Attempt, NEW h \in Worker, Start(a, h) PROVE P
  BY <1>4 DEF Start
<1>5. ASSUME NEW c \in Content, EditProduct(c) \/ LeaseExpires(c) PROVE P
  BY <1>5 DEF EditProduct, LeaseExpires
<1>6. ASSUME NEW w \in Workflow, NEW d \in {"approved", "rejected"}, RecordApproval(w, d) PROVE P
  BY <1>6 DEF RecordApproval
<1>7. ASSUME UNCHANGED vars PROVE P
  BY <1>7 DEF vars
<1>8. P
  BY <1>1, <1>2, <1>3, <1>4, <1>5, <1>6, <1>7 DEF Next
<1> QED BY <1>0, <1>8 DEF BeforeWrite

LEMMA OnlyStoreWrites ==
  ASSUME [Next]_vars, ~ \E a \in Attempt : StoreApplies(a)
  PROVE  store' = store
BY DEF Next, Work, Fault, ApprovalFor, ClaimInsert, ClaimUpdate, ClaimDistinguish, CompleteDryRun,
   FindBySKU, ReplyArrives, Complete, Fail, LookupFails, DialFails, StoreRefuses, ReplyLost, Abandon,
   Start, EditProduct, LeaseExpires, RecordApproval, vars

\* What has been created, and who worked beside whom, is never undone.
LEMMA CreatedStable ==
  ASSUME TypeOK, UnsentInv, [Next]_vars
  PROVE  /\ \A a \in Attempt : Created(a) => Created(a)'
         /\ \A a, b \in Attempt :
              req[a] # "unsent" /\ req[b] # "unsent" /\ SideBySide(a, b) => SideBySide(a, b)'
         /\ \A a \in Attempt : Created(a)' => Created(a) \/ (StoreApplies(a) /\ target[a] = 0)
<1>1. ASSUME NEW a \in Attempt, Created(a) PROVE Created(a)'
  <2>1. req'[a] = req[a] /\ target'[a] = target[a]
    BY <1>1, RequestSteps DEF Created, Applied
  <2> QED BY <1>1, <2>1 DEF Created, Applied
<1>2. ASSUME NEW a \in Attempt, NEW b \in Attempt, req[a] # "unsent", req[b] # "unsent",
             SideBySide(a, b)
      PROVE  SideBySide(a, b)'
  <2>1. pc[a] # "idle" /\ pc[b] # "idle"
    BY <1>2, RequestSteps
  <2>2. content'[a] = content[a] /\ content'[b] = content[b] /\ overtaken \subseteq overtaken'
    BY <2>1, HoldingSteps
  <2>3. \A x \in {a, b} : req[x] = "late" => req'[x] = "late"
    BY RequestSteps DEF Applied
  <2> QED BY <1>2, <2>2, <2>3 DEF SideBySide
<1>3. ASSUME NEW a \in Attempt, Created(a)' PROVE Created(a) \/ (StoreApplies(a) /\ target[a] = 0)
  <2>1. Applied(a) \/ StoreApplies(a)
    BY <1>3, RequestSteps DEF Created
  <2>2. target'[a] = 0 /\ target'[a] = target[a]
    BY <1>3, <2>1, RequestSteps DEF Created, Applied, StoreApplies
  <2> QED BY <2>1, <2>2 DEF Created
<1> QED BY <1>1, <1>2, <1>3

StoreFits == UnsentInv /\ WireInv /\ OverlapInv /\ OneProductPerSku

LEMMA WireStep == TypeOK /\ StoreFits /\ [Next]_vars => WireInv'
<1> SUFFICES ASSUME TypeOK, StoreFits, [Next]_vars PROVE WireInv'
  OBVIOUS
<1> USE DEF StoreFits
<1>1. /\ DOMAIN store \subseteq DOMAIN store'
      /\ store # <<>> => store' # <<>>
      /\ store' # store => \E a \in Attempt : StoreApplies(a)
  <2>1. CASE store' = store
    BY <2>1
  <2>2. CASE store' # store
    <3>1. PICK a \in Attempt : StoreApplies(a)
      BY <2>2, OnlyStoreWrites
    <3>2. target[a] # 0 => target[a] \in DOMAIN store
      BY <3>1 DEF WireInv, StoreApplies
    <3> QED BY <3>1, <3>2, StoreIsNotEmptied
  <2> QED BY <2>1, <2>2
<1>2. ASSUME NEW a \in Attempt, req'[a] = "sent", target'[a] # 0
      PROVE  target'[a] \in DOMAIN store'
  <2>1. CASE req[a] = "sent"
    <3>1. target'[a] = target[a]
      BY <2>1, RequestSteps
    <3> QED BY <1>1, <1>2, <2>1, <3>1 DEF WireInv
  <2>2. CASE FindBySKU(a)
    <3>1. req[a] = "unsent"
      BY <2>2 DEF FindBySKU, UnsentInv, BeforeWrite
    <3>2. store' = store /\ target \in [Attempt -> Nat]
      BY <2>2 DEF FindBySKU, TypeOK
    <3>3. target'[a] \in DOMAIN store
      BY <1>2, <2>2, <3>1, <3>2 DEF FindBySKU
    <3> QED BY <3>2, <3>3
  <2> QED BY <1>2, <2>1, <2>2, RequestSteps
<1>3. ASSUME NEW a \in Attempt, InitialStore # <<>>, req'[a] = "sent"
      PROVE  target'[a] # 0
  <2>1. CASE req[a] = "sent"
    BY <1>3, <2>1, RequestSteps DEF WireInv
  <2>2. CASE FindBySKU(a)
    <3>1. store # <<>> /\ req[a] = "unsent" /\ target \in [Attempt -> Nat]
      BY <1>3, <2>2 DEF WireInv, FindBySKU, UnsentInv, BeforeWrite, TypeOK
    <3>2. PICK i \in DOMAIN store : target' = [target EXCEPT ![a] = i]
      BY <1>3, <2>2, <3>1 DEF FindBySKU
    <3>3. i # 0
      BY LenProperties DEF TypeOK
    <3> QED BY <3>1, <3>2, <3>3
  <2> QED BY <1>3, <2>1, <2>2, RequestSteps
<1>4. InitialStore # <<>> => store' # <<>>
  BY <1>1 DEF WireInv
<1>5. ASSUME store' # <<>>, InitialStore = <<>> PROVE \E a \in Attempt : Created(a)'
  <2>1. CASE store # <<>>
    BY <1>5, <2>1, CreatedStable DEF WireInv
  <2>2. CASE store = <<>>
    <3>1. PICK a \in Attempt : StoreApplies(a)
      BY <1>1, <1>5, <2>2
    <3>2. target[a] = 0
      BY <2>2, <3>1 DEF WireInv, StoreApplies
    <3>3. Created(a)'
      BY <3>1, <3>2 DEF StoreApplies, Created, Applied, TypeOK
    <3> QED BY <3>3
  <2> QED BY <2>1, <2>2
<1>6. ASSUME NEW a \in Attempt, Created(a)' PROVE store' # <<>>
  <2>1. CASE Created(a)
    BY <1>1, <2>1 DEF WireInv
  <2>2. CASE StoreApplies(a) /\ target[a] = 0
    BY <2>2, StoreIsNotEmptied
  <2> QED BY <1>6, <2>1, <2>2, CreatedStable
<1> QED BY <1>2, <1>3, <1>4, <1>5, <1>6 DEF WireInv

LEMMA OverlapStep == TypeOK /\ ClaimInv /\ StoreFits /\ [Next]_vars => OverlapInv'
<1> SUFFICES ASSUME TypeOK, ClaimInv, StoreFits, [Next]_vars,
                    NEW a \in Attempt, NEW b \in Attempt,
                    req'[a] = "sent", target'[a] = 0, Created(b)', pc'[a] = "await"
             PROVE  SideBySide(a, b)'
  BY DEF OverlapInv, Attempt
<1> USE DEF StoreFits
<1>1. CASE FindBySKU(a)
  <2>1. req[a] = "unsent" /\ store' = store /\ target \in [Attempt -> Nat]
    BY <1>1 DEF FindBySKU, UnsentInv, BeforeWrite, TypeOK
  <2>2. store = <<>>
    <3>1. \A i \in DOMAIN store : i # 0
      BY LenProperties DEF TypeOK
    <3> QED BY <1>1, <2>1, <3>1 DEF FindBySKU
  <2>3. WireInv'
    BY WireStep
  <2> QED BY <2>1, <2>2, <2>3 DEF WireInv
<1>2. CASE req[a] = "sent"
  <2>1. target[a] = 0 /\ pc[a] = "await"
    BY <1>2, RequestSteps
  <2>2. CASE Created(b)
    <3>1. SideBySide(a, b)
      BY <1>2, <2>1, <2>2 DEF OverlapInv
    <3>2. req[b] # "unsent"
      BY <2>2 DEF Created, Applied
    <3> QED BY <1>2, <3>1, <3>2, CreatedStable
  <2>3. CASE StoreApplies(b)
    <3>1. UNCHANGED <<content, overtaken>> /\ a # b
      BY <2>3 DEF StoreApplies, TypeOK
    <3>2. CASE pc[b] = "await"
      <4>1. content[a] # content[b] \/ a \in overtaken \/ b \in overtaken
        BY <2>1, <3>1, <3>2 DEF ClaimInv, ClaimExclusive, Holding
      <4> QED BY <3>1, <4>1 DEF SideBySide
    <3>3. CASE pc[b] # "await"
      <4>1. req'[b] = "late"
        BY <2>3, <3>3 DEF StoreApplies, TypeOK
      <4> QED BY <4>1 DEF SideBySide
    <3> QED BY <3>2, <3>3
  <2> QED BY <2>2, <2>3, CreatedStable
<1> QED BY <1>1, <1>2, RequestSteps

\* A create that the store applies beside another makes the two attempts side by side.
LEMMA CreateStep ==
  ASSUME TypeOK, StoreFits, [Next]_vars, NEW a \in Attempt, NEW b \in Attempt,
         StoreApplies(a), target[a] = 0, Created(b)
  PROVE  SideBySide(a, b)'
<1>1. CASE pc[a] = "await"
  <2>1. SideBySide(a, b) /\ req[a] # "unsent" /\ req[b] # "unsent"
    BY <1>1 DEF StoreFits, OverlapInv, StoreApplies, Created, Applied
  <2> QED BY <2>1, CreatedStable DEF StoreFits
<1>2. CASE pc[a] # "await"
  <2>1. req'[a] = "late"
    BY <1>2 DEF StoreApplies, TypeOK
  <2> QED BY <2>1 DEF SideBySide
<1> QED BY <1>1, <1>2

LEMMA OneProductStep == TypeOK /\ StoreFits /\ [Next]_vars => OneProductPerSku'
<1> SUFFICES ASSUME TypeOK, StoreFits, [Next]_vars PROVE OneProductPerSku'
  OBVIOUS
<1>1. ASSUME InitialStore # <<>>, NEW a \in Attempt, Created(a)' PROVE FALSE
  BY <1>1, CreatedStable DEF StoreFits, WireInv, OneProductPerSku, StoreApplies
<1>2. ASSUME NEW a \in Attempt, NEW b \in Attempt, Created(a)', Created(b)', a # b
      PROVE  SideBySide(a, b)'
  <2>1. CASE Created(a) /\ Created(b)
    <3>1. SideBySide(a, b)
      BY <1>2, <2>1 DEF StoreFits, OneProductPerSku
    <3>2. req[a] # "unsent" /\ req[b] # "unsent"
      BY <2>1 DEF Created, Applied
    <3> QED BY <3>1, <3>2, CreatedStable DEF StoreFits
  <2>2. CASE StoreApplies(a) /\ target[a] = 0 /\ Created(b)
    BY <2>2, CreateStep
  <2>3. CASE Created(a) /\ StoreApplies(b) /\ target[b] = 0
    <3>1. SideBySide(b, a)'
      BY <2>3, CreateStep
    <3> QED BY <3>1 DEF SideBySide
  <2>4. CASE StoreApplies(a) /\ StoreApplies(b)
    <3>1. req'[b] = req[b] /\ req[b] = "sent"
      BY <1>2, <2>4 DEF StoreApplies
    <3> QED BY <1>2, <3>1 DEF Created, Applied
  <2> QED BY <1>2, <2>1, <2>2, <2>3, <2>4, CreatedStable DEF StoreFits
<1> QED BY <1>1, <1>2 DEF OneProductPerSku

LEMMA StoreInvariant == Spec => []StoreFits
<1>1. Init => StoreFits
  <2> SUFFICES ASSUME Init PROVE StoreFits
    OBVIOUS
  <2>1. \A a \in Attempt : req[a] = "unsent" /\ ~Created(a)
    BY DEF Init, Created, Applied
  <2>2. store = InitialStore
    BY DEF Init
  <2> QED BY <2>1, <2>2 DEF StoreFits, UnsentInv, WireInv, OverlapInv, OneProductPerSku
<1>2. TypeOK /\ ClaimInv /\ StoreFits /\ [Next]_vars => StoreFits'
  BY WireStep, OverlapStep, OneProductStep, SoldStable DEF StoreFits
<1> QED BY <1>1, <1>2, TypeCorrect, ClaimInvariant, PTL DEF Spec

\* The SKU never names two products, through crashes, retries and lost replies of
\* any number of attempts, except by two that worked side by side: under two keys,
\* with a claim that was overtaken, or with a write applied after its attempt ended.
THEOREM NoSecondProduct == Spec => []OneProductPerSku
<1>1. StoreFits => OneProductPerSku
  BY DEF StoreFits
<1> QED BY <1>1, StoreInvariant, PTL

-----------------------------------------------------------------------------
(* The gate implements the listing *)

\* Only a create that the store applies can be the second one.
LEMMA MishapSteps ==
  ASSUME TypeOK, StoreFits, StoreFits', [Next]_vars,
         ~ \E a \in Attempt : StoreApplies(a) /\ target[a] = 0
  PROVE  Mishap' = Mishap
<1> DEFINE Two == \E a, b \in Attempt : a # b /\ Created(a) /\ Created(b)
<1>1. Mishap <=> Two
  BY DEF Mishap, StoreFits, OneProductPerSku
<1>2. Mishap' <=> Two'
  BY DEF Mishap, StoreFits, OneProductPerSku
<1>3. \A a \in Attempt : Created(a)' <=> Created(a)
  BY CreatedStable DEF StoreFits
<1>4. Two' <=> Two
  BY <1>3
<1>5. Mishap' <=> Mishap
  BY <1>1, <1>2, <1>4
<1>6. Mishap \in BOOLEAN /\ Mishap' \in BOOLEAN
  BY DEF Mishap
<1> QED BY <1>5, <1>6

\* Every step of the gate is a decision, a publication or a stutter of the listing.
LEMMA ListingStep ==
  ASSUME TypeOK, StoreFits, StoreFits', ApprovedInv, [Next]_vars
  PROVE  [Listing!Next]_<<approvals, store, Mishap>>
<1> USE DEF Goto, Return, attemptVars
<1>1. ASSUME NEW w \in Workflow, NEW d \in {"approved", "rejected"}, RecordApproval(w, d)
      PROVE  Listing!Decide(w) \/ UNCHANGED <<approvals, store, Mishap>>
  <2>1. Mishap' = Mishap
    <3>1. ~ \E a \in Attempt : StoreApplies(a) /\ target[a] = 0
      BY <1>1 DEF RecordApproval, StoreApplies, TypeOK
    <3> QED BY <3>1, MishapSteps
  <2> QED BY <1>1, <2>1 DEF RecordApproval, Listing!Decide
<1>2. ASSUME NEW a \in Attempt, StoreApplies(a)
      PROVE  /\ WorkflowOf(a) \in Workflow /\ content[a] \in Content
             /\ \/ Listing!Publish(WorkflowOf(a), content[a])
                \/ Listing!PublishBeside(WorkflowOf(a), content[a])
  <2>1. /\ approvals[WorkflowOf(a)] = "approved" /\ approvals' = approvals
        /\ content[a] \in Content /\ WorkflowOf(a) \in Workflow
    BY <1>2, AttemptFacts DEF StoreApplies, ApprovedInv, PastApproval, TypeOK
  <2>2. CASE target[a] # 0
    <3>1. target[a] \in DOMAIN store /\ store' = [store EXCEPT ![target[a]] = content[a]]
      BY <1>2, <2>2 DEF StoreFits, WireInv, StoreApplies
    <3>2. ~ \E b \in Attempt : StoreApplies(b) /\ target[b] = 0
      BY <1>2, <2>2 DEF StoreApplies, TypeOK
    <3>3. Mishap' = Mishap
      BY <3>2, MishapSteps
    <3> QED BY <2>1, <3>1, <3>3 DEF Listing!Publish
  <2>3. CASE target[a] = 0 /\ store # <<>>
    <3>1. store' = Append(store, content[a])
      BY <1>2, <2>3 DEF StoreApplies
    <3>2. PICK b \in Attempt : Created(b)
      BY <1>2, <2>3 DEF StoreFits, WireInv, StoreApplies
    <3>3. SideBySide(a, b)' /\ a # b
      BY <1>2, <2>3, <3>2, CreateStep DEF StoreApplies, Created, Applied
    <3>4. Created(a)' /\ Created(b)'
      BY <1>2, <2>3, <3>2, CreatedStable DEF StoreFits, StoreApplies, Created, Applied, TypeOK
    <3>5. Mishap'
      BY <3>3, <3>4 DEF Mishap
    <3> QED BY <2>1, <3>1, <3>5 DEF Listing!PublishBeside
  <2>4. CASE target[a] = 0 /\ store = <<>>
    <3>1. store' = <<content[a]>>
      BY <1>2, <2>4 DEF StoreApplies
    <3>2. \A b \in Attempt : ~Created(b)
      BY <2>4 DEF StoreFits, WireInv
    <3>3. \A b \in Attempt : Created(b)' => b = a
      <4>1. \A b \in Attempt : b # a => ~StoreApplies(b)
        BY <1>2 DEF StoreApplies, TypeOK
      <4> QED BY <3>2, <4>1, CreatedStable DEF StoreFits
    <3>4. Mishap = FALSE /\ Mishap' = FALSE
      BY <3>2, <3>3 DEF Mishap
    <3> QED BY <2>1, <2>4, <3>1, <3>4 DEF Listing!Publish
  <2> QED BY <2>1, <2>2, <2>3, <2>4
<1>3. ASSUME ~ \E a \in Attempt : StoreApplies(a),
             ~ \E w \in Workflow, d \in {"approved", "rejected"} : RecordApproval(w, d)
      PROVE  UNCHANGED <<approvals, store, Mishap>>
  <2>1. approvals' = approvals
    BY <1>3 DEF Next, Work, Fault, ApprovalFor, ClaimInsert, ClaimUpdate, ClaimDistinguish,
       CompleteDryRun, FindBySKU, ReplyArrives, Complete, Fail, LookupFails, DialFails, StoreRefuses,
       ReplyLost, Abandon, Start, EditProduct, LeaseExpires, vars
  <2> QED BY <1>3, <2>1, OnlyStoreWrites, MishapSteps
<1> QED BY <1>1, <1>2, <1>3 DEF Listing!Next

\* The whole gate, wherever its attempts run and whatever fails, is a listing that
\* only approved workflows change, and that has one product until two attempts that
\* worked side by side have created one each.
THEOREM ImplementsListing == Spec => ListingSpec
<1>1. Init => Listing!Init
  BY DEF Init, Listing!Init, Mishap, Created, Applied
<1>2. TypeOK /\ StoreFits /\ StoreFits' /\ ApprovedInv /\ [Next]_vars
        => [Listing!Next]_<<approvals, store, Mishap>>
  BY ListingStep
<1> QED BY <1>1, <1>2, TypeCorrect, StoreInvariant, ApprovedInvariant, PTL
           DEF Spec, ListingSpec, Listing!Spec

-----------------------------------------------------------------------------
(* Completed is final *)

\* An attempt that closes a row still has its claim, so that the row is not
\* completed, or it was overtaken; a completed row is neither claimed nor inserted.
LEMMA FinalStep ==
  ASSUME TypeOK, ClaimInv, [Next]_vars, NEW c \in Content,
         ledger[c].status = "completed", ledger'[c].status # "completed"
  PROVE  \E a \in Holders(c) \cap overtaken : pc'[a] = "over"
<1> DEFINE Goal == \E a \in Holders(c) \cap overtaken : pc'[a] = "over"
<1> USE DEF TypeOK, attemptVars
<1>1. ASSUME NEW a \in Attempt, Holding(a), a \notin overtaken PROVE content[a] # c
  <2>1. ledger[content[a]] = ClaimedBy(host[a])
    BY <1>1 DEF ClaimInv, HoldInv
  <2>2. ledger[content[a]].status = "in_progress"
    BY <2>1 DEF ClaimedBy
  <2> QED BY <2>2
<1>2. ASSUME NEW a \in Attempt, Work(a) PROVE Goal
  <2>1. CASE ClaimInsert(a)
    BY <2>1 DEF ClaimInsert
  <2>2. CASE ClaimUpdate(a)
    BY <2>2 DEF ClaimUpdate, Claimable
  <2>3. CASE CompleteDryRun(a) \/ Complete(a) \/ Fail(a)
    <3>1. Holding(a) /\ pc'[a] = "over" /\ \E status \in Status : CloseRow(a, status)
      BY <2>3 DEF CompleteDryRun, Complete, Fail, Holding, Classified, Return, Goto, Status
    <3>2. content[a] = c
      BY <3>1 DEF CloseRow
    <3> QED BY <1>1, <3>1, <3>2 DEF Holders
  <2>4. CASE ApprovalFor(a) \/ ClaimDistinguish(a) \/ FindBySKU(a) \/ ReplyArrives(a)
    BY <2>4 DEF ApprovalFor, ClaimDistinguish, FindBySKU, ReplyArrives
  <2> QED BY <1>2, <2>1, <2>2, <2>3, <2>4 DEF Work
<1>3. ASSUME NEW d \in Content, LeaseExpires(d) PROVE FALSE
  <2>1. ledger' = [ledger EXCEPT ![d].lease = "expired"] /\ ledger[c] \in Row /\ ledger[d] \in Row
    BY <1>3 DEF LeaseExpires
  <2>2. ledger'[c].status = ledger[c].status
    BY <2>1 DEF Row
  <2> QED BY <2>2
<1>4. CASE UNCHANGED vars
  BY <1>4 DEF vars
<1>5. ASSUME \/ \E d \in Content : EditProduct(d)
             \/ \E w \in Workflow, d \in {"approved", "rejected"} : RecordApproval(w, d)
             \/ \E a \in Attempt : (\E h \in Worker : Start(a, h)) \/ StoreApplies(a) \/ Fault(a)
      PROVE  FALSE
  BY <1>5, FaultMoves DEF EditProduct, RecordApproval, Start, StoreApplies
<1> QED BY <1>2, <1>3, <1>4, <1>5 DEF Next

\* No claim, lease, crash or late write reopens a finished key, though Complete and
\* Fail write the row by key alone: only an attempt that was overtaken while it
\* worked under the key can, whatever hosts, workflows and leases there are.
THEOREM FinalRows == Spec => CompletedIsFinal
<1>1. TypeOK /\ ClaimInv /\ [Next]_vars =>
        [\A c \in Content :
           ledger[c].status = "completed" /\ ledger'[c].status # "completed"
             => \E a \in Holders(c) \cap overtaken : pc'[a] = "over"]_vars
  BY FinalStep
<1> QED BY <1>1, TypeCorrect, ClaimInvariant, PTL DEF Spec, CompletedIsFinal

=============================================================================

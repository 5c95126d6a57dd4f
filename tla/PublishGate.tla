---------------------------- MODULE PublishGate ----------------------------
(***************************************************************************)
(* The exactly-once WooCommerce publish gate: internal/publishgate and the *)
(* gatePublisher that drives it from the temporal worker.                  *)
(*                                                                         *)
(* One product (one SKU) is published by the activity attempts of several  *)
(* workflow executions.  Every SQL statement and every store request is    *)
(* one step; attempts interleave freely between them.  A row of            *)
(* publish_approvals is approvals[w]; a row of publish_ledger is           *)
(* ledger[c], because for one product the idempotency key is a function of *)
(* the written fields only; the WooCommerce catalogue under the SKU is     *)
(* store, the sequence of products in creation order (index = remote id).  *)
(*                                                                         *)
(* What an attempt cannot know is modelled as nondeterminism: a write that *)
(* left the worker (req = "sent") may be applied, refused, or applied      *)
(* without its reply arriving; an attempt may end at any step (worker      *)
(* killed, activity deadline passed, SQL error).                           *)
(***************************************************************************)
EXTENDS Naturals, Sequences

CONSTANTS
  Workflow,       \* workflow execution ids: the keys of publish_approvals
  Content,        \* versions of the product's write fields
  Worker,         \* worker hosts: the lease owners
  NoOne,          \* lease_owner IS NULL
  RunsOn,         \* <<w, h>>: host h may execute attempts of workflow w
  MaxAttempts,    \* bound: activity attempts of each workflow id
  WrittenFields,  \* field names FieldsFor writes
  EchoedFields,   \* field names the adapter reports back of a live product
  InitialStore,   \* what the store already sells under the SKU
  DryRunHosts,    \* hosts with ECOMMERCE_PUBLISH_MODE=dry-run
  SlowAttempts,   \* a lease may run out under an attempt still at work
  LateWrites      \* a request may be applied after its attempt has ended

ASSUME GateAssumption ==
  /\ NoOne \notin Worker
  /\ RunsOn \subseteq Workflow \X Worker
  /\ MaxAttempts \in [Workflow -> Nat]
  /\ InitialStore \in Seq(Content)
  /\ DryRunHosts \subseteq Worker
  /\ SlowAttempts \in BOOLEAN /\ LateWrites \in BOOLEAN

Attempt == UNION {{w} \X (1..MaxAttempts[w]) : w \in Workflow}

VARIABLES
  draft,      \* the product's current fields in the catalogue database
  approvals,  \* publish_approvals.decision by workflow id
  ledger,     \* publish_ledger by idempotency key
  store,      \* the store's products under the SKU
  pc,         \* where each attempt is
  host,       \* the worker executing it
  content,    \* the fields it loaded
  target,     \* 0: its write is a create; i: it updates remote product i
  req,        \* its write request on the way to the store
  result,     \* what Publish returned to the activity
  overtaken   \* history, read by no guard: attempts whose claim no longer excludes

vars == <<draft, approvals, ledger, store, pc, host, content, target, req, result,
          overtaken>>
attemptVars == <<host, content, target, req, result>>

-----------------------------------------------------------------------------

Decision == {"none", "approved", "rejected"}
Status   == {"absent", "in_progress", "completed", "failed", "dry_run"}
Lease    == {"none", "live", "expired"}
Row      == [status : Status, owner : Worker \cup {NoOne}, lease : Lease]

PCs == {"idle", "approval", "insert", "claim", "distinguish", "dryrun", "find",
        "await", "complete", "fail", "unreachable", "over"}
Requests == {"unsent", "sent", "applied", "late", "refused", "lost"}
Results == {"pending", "no_approval", "rejected", "lease_held", "already_completed",
            "none", "written", "dry_run", "error", "unreachable", "abandoned"}

NoRow == [status |-> "absent", owner |-> NoOne, lease |-> "none"]
Closed(status) == [status |-> status, owner |-> NoOne, lease |-> "none"]
ClaimedBy(h) == [status |-> "in_progress", owner |-> h, lease |-> "live"]

WorkflowOf(a) == a[1]
Running(a) == pc[a] \notin {"idle", "over"}
Holding(a) ==
  pc[a] \in {"dryrun", "find", "await", "complete", "fail", "unreachable"}

Holders(c) == {a \in Attempt : Holding(a) /\ content[a] = c}

\* Matches(live.Fields, req.Fields): every written field must be reported back
\* and be equal, and an empty set of written fields matches nothing.
Matches(live, c) ==
  /\ WrittenFields # {}
  /\ WrittenFields \subseteq EchoedFields
  /\ live = c

Init ==
  /\ draft \in Content
  /\ approvals = [w \in Workflow |-> "none"]
  /\ ledger = [c \in Content |-> NoRow]
  /\ store = InitialStore
  /\ pc = [a \in Attempt |-> "idle"]
  /\ host = [a \in Attempt |-> NoOne]
  /\ content = [a \in Attempt |-> draft]
  /\ target = [a \in Attempt |-> 0]
  /\ req = [a \in Attempt |-> "unsent"]
  /\ result = [a \in Attempt |-> "pending"]
  /\ overtaken = {}

-----------------------------------------------------------------------------
(* The world around the gate *)

\* The catalogue is edited: later attempts load other fields, under another key.
EditProduct(c) ==
  /\ draft' = c
  /\ UNCHANGED <<approvals, ledger, store, pc, attemptVars, overtaken>>

\* Slip: ON CONFLICT DO UPDATE, the last decision wins.
RecordApprovalOverwrites(w, decision) ==
  /\ approvals' = [approvals EXCEPT ![w] = decision]
  /\ UNCHANGED <<draft, ledger, store, pc, attemptVars, overtaken>>

\* PGStore.RecordApproval: INSERT ... ON CONFLICT (workflow_id) DO NOTHING.
RecordApproval(w, decision) ==
  /\ approvals' = IF approvals[w] = "none"
                  THEN [approvals EXCEPT ![w] = decision]
                  ELSE approvals
  /\ UNCHANGED <<draft, ledger, store, pc, attemptVars, overtaken>>

\* now() passes lease_until.  The default lease is as long as the activity's
\* start-to-close timeout and is taken later, so unless SlowAttempts it outlives
\* the attempts at work under it.
LeaseExpires(c) ==
  /\ ledger[c].lease = "live"
  /\ SlowAttempts \/ \A a \in Attempt : Holding(a) => content[a] # c
  /\ ledger' = [ledger EXCEPT ![c].lease = "expired"]
  /\ overtaken' = overtaken \cup Holders(c)
  /\ UNCHANGED <<draft, approvals, store, pc, attemptVars>>

-----------------------------------------------------------------------------
(* One attempt of the publish activity *)

Goto(a, label) == pc' = [pc EXCEPT ![a] = label]

Return(a, r) ==
  /\ Goto(a, "over")
  /\ result' = [result EXCEPT ![a] = r]

\* Temporal dispatches an attempt (a retry, or the first of a later run under the
\* same id) after it has given the previous one up, whose worker may be at work
\* still: a closed run or a timeout ends it only later.  The product is loaded.
Start(a, h) ==
  /\ pc[a] = "idle"
  /\ \A b \in Attempt : WorkflowOf(b) = WorkflowOf(a) /\ b[2] < a[2] => pc[b] # "idle"
  /\ <<WorkflowOf(a), h>> \in RunsOn
  /\ Goto(a, "approval")
  /\ host' = [host EXCEPT ![a] = h]
  /\ content' = [content EXCEPT ![a] = draft]
  /\ UNCHANGED <<draft, approvals, ledger, store, target, req, result, overtaken>>

\* Slip: only a rejection stops the publish, a missing row does not.
ApprovalForFailsOpen(a) ==
  /\ pc[a] = "approval"
  /\ IF approvals[WorkflowOf(a)] = "rejected"
       THEN Return(a, "rejected") ELSE Goto(a, "insert") /\ UNCHANGED result
  /\ UNCHANGED <<draft, approvals, ledger, store, host, content, target, req, overtaken>>

\* Gate.Publish starts with ApprovalFor and fails closed.
ApprovalFor(a) ==
  /\ pc[a] = "approval"
  /\ CASE approvals[WorkflowOf(a)] = "none"     -> Return(a, "no_approval")
       [] approvals[WorkflowOf(a)] = "rejected" -> Return(a, "rejected")
       [] OTHER -> Goto(a, "insert") /\ UNCHANGED result
  /\ UNCHANGED <<draft, approvals, ledger, store, host, content, target, req, overtaken>>

\* Claim, first statement: INSERT ... ON CONFLICT (idem_key) DO NOTHING.
ClaimInsert(a) ==
  /\ pc[a] = "insert"
  /\ ledger' = IF ledger[content[a]].status = "absent"
               THEN [ledger EXCEPT ![content[a]] = ClaimedBy(host[a])]
               ELSE ledger
  /\ Goto(a, "claim")
  /\ UNCHANGED <<draft, approvals, store, attemptVars, overtaken>>

\* Slips in the WHERE clause of the claiming UPDATE.
ClaimableWhenCompleted(c, h) == ledger[c].lease # "live" \/ ledger[c].owner = h
ClaimableWhenHeld(c, h) == ledger[c].status # "completed"
ClaimableWhenReleased(c, h) ==
  /\ ledger[c].status # "completed"
  /\ ledger[c].lease = "none" \/ ledger[c].owner = h

Claimable(c, h) ==
  /\ ledger[c].status # "completed"
  /\ ledger[c].lease # "live" \/ ledger[c].owner = h

\* Claim, second statement: the UPDATE that takes or moves the lease.  A live lease
\* of the caller's own host is taken too, from whichever attempt works under it.
ClaimUpdate(a) ==
  /\ pc[a] = "claim"
  /\ \/ /\ Claimable(content[a], host[a])
        /\ ledger' = [ledger EXCEPT ![content[a]] = ClaimedBy(host[a])]
        /\ overtaken' = overtaken \cup {b \in Holders(content[a]) : host[b] = host[a]}
        /\ Goto(a, IF host[a] \in DryRunHosts THEN "dryrun" ELSE "find")
     \/ /\ ~Claimable(content[a], host[a])
        /\ Goto(a, "distinguish")
        /\ UNCHANGED <<ledger, overtaken>>
  /\ UNCHANGED <<draft, approvals, store, attemptVars>>

\* Claim, third statement: a separate SELECT tells completed from held.
ClaimDistinguish(a) ==
  /\ pc[a] = "distinguish"
  /\ Return(a, IF ledger[content[a]].status = "completed"
               THEN "already_completed" ELSE "lease_held")
  /\ UNCHANGED <<draft, approvals, ledger, store, host, content, target, req, overtaken>>

\* Complete and Fail write the row by key alone: neither owner nor status guards
\* them, and an overtaken attempt takes the row from whoever claimed it since.
CloseRow(a, status) ==
  /\ ledger' = [ledger EXCEPT ![content[a]] = Closed(status)]
  /\ overtaken' = overtaken \cup IF a \in overtaken THEN Holders(content[a]) ELSE {}

CompleteDryRun(a) ==
  /\ pc[a] = "dryrun"
  /\ CloseRow(a, "dry_run")
  /\ Return(a, "dry_run")
  /\ UNCHANGED <<draft, approvals, store, host, content, target, req>>

\* Slip: the write kind is decided without the lookup.
CreateWithoutLookup(a) ==
  /\ pc[a] = "find"
  /\ Goto(a, "await")
  /\ req' = [req EXCEPT ![a] = "sent"]
  /\ target' = [target EXCEPT ![a] = 0]
  /\ UNCHANGED <<draft, approvals, ledger, store, host, content, result, overtaken>>

\* FindProductBySKU returns some product under the SKU, or none.  A live copy
\* that matches needs no write; otherwise the write leaves for the store.
FindBySKU(a) ==
  /\ pc[a] = "find"
  /\ \/ /\ store = <<>>
        /\ Goto(a, "await")
        /\ req' = [req EXCEPT ![a] = "sent"]
        /\ target' = [target EXCEPT ![a] = 0]
     \/ \E i \in DOMAIN store :
          /\ ~Matches(store[i], content[a])
          /\ Goto(a, "await")
          /\ req' = [req EXCEPT ![a] = "sent"]
          /\ target' = [target EXCEPT ![a] = i]
     \/ \E i \in DOMAIN store :
          /\ Matches(store[i], content[a])
          /\ Goto(a, "complete")
          /\ UNCHANGED <<req, target>>
  /\ UNCHANGED <<draft, approvals, ledger, store, host, content, result, overtaken>>

\* classifyRemoteErr: an error of the connection itself (dial or read) is
\* reported as ErrStoreUnreachable, any other error as it is.
Classified == {"fail", "unreachable"}

LookupFails(a) ==
  /\ pc[a] = "find"
  /\ \E label \in Classified : Goto(a, label)
  /\ UNCHANGED <<draft, approvals, ledger, store, attemptVars, overtaken>>

\* Nothing listens at the store's address: the write never leaves the worker.
DialFails(a) ==
  /\ pc[a] = "await" /\ req[a] = "sent"
  /\ Goto(a, "unreachable")
  /\ req' = [req EXCEPT ![a] = "lost"]
  /\ UNCHANGED <<draft, approvals, ledger, store, host, content, target, result, overtaken>>

\* The store answers with a status outside 2xx and writes nothing.
StoreRefuses(a) ==
  /\ pc[a] = "await" /\ req[a] = "sent"
  /\ Goto(a, "fail")
  /\ req' = [req EXCEPT ![a] = "refused"]
  /\ UNCHANGED <<draft, approvals, ledger, store, host, content, target, result, overtaken>>

\* A request nobody waits for any more: it stays on its way, or is dropped.
Orphan(a) ==
  req' = IF req[a] = "sent" /\ ~LateWrites THEN [req EXCEPT ![a] = "lost"] ELSE req

\* Slip: a lost reply is taken for success.
ReplyLostCompletes(a) ==
  /\ pc[a] = "await"
  /\ Goto(a, "complete")
  /\ Orphan(a)
  /\ UNCHANGED <<draft, approvals, ledger, store, host, content, target, result, overtaken>>

\* The reply does not arrive (reset, timeout); the write may have been applied.
ReplyLost(a) ==
  /\ pc[a] = "await"
  /\ \E label \in Classified : Goto(a, label)
  /\ Orphan(a)
  /\ UNCHANGED <<draft, approvals, ledger, store, host, content, target, result, overtaken>>

ReplyArrives(a) ==
  /\ pc[a] = "await" /\ req[a] = "applied"
  /\ Goto(a, "complete")
  /\ UNCHANGED <<draft, approvals, ledger, store, attemptVars, overtaken>>

\* The store executes a write request: PUT by remote id, or POST of a new product,
\* maybe late, when its attempt has stopped to wait for the reply.
StoreApplies(a) ==
  /\ req[a] = "sent"
  /\ store' = IF target[a] = 0 THEN Append(store, content[a])
                               ELSE [store EXCEPT ![target[a]] = content[a]]
  /\ req' = [req EXCEPT ![a] = IF pc[a] = "await" THEN "applied" ELSE "late"]
  /\ UNCHANGED <<draft, approvals, ledger, pc, host, content, target, result, overtaken>>

Complete(a) ==
  /\ pc[a] = "complete"
  /\ CloseRow(a, "completed")
  /\ Return(a, IF req[a] = "applied" THEN "written" ELSE "none")
  /\ UNCHANGED <<draft, approvals, store, host, content, target, req>>

\* The row is released for the next attempt and the error goes to the activity.
Fail(a) ==
  /\ pc[a] \in Classified
  /\ CloseRow(a, "failed")
  /\ Return(a, IF pc[a] = "fail" THEN "error" ELSE "unreachable")
  /\ UNCHANGED <<draft, approvals, store, host, content, target, req>>

\* The worker is killed, the activity's deadline passes (its context ends every
\* later statement, Fail and Complete included), or a SQL statement errors.
Abandon(a) ==
  /\ Running(a)
  /\ Return(a, "abandoned")
  /\ Orphan(a)
  /\ UNCHANGED <<draft, approvals, ledger, store, host, content, target, overtaken>>

-----------------------------------------------------------------------------

Work(a) ==
  \/ ApprovalFor(a) \/ ClaimInsert(a) \/ ClaimUpdate(a) \/ ClaimDistinguish(a)
  \/ CompleteDryRun(a) \/ FindBySKU(a) \/ ReplyArrives(a) \/ Complete(a) \/ Fail(a)

Fault(a) ==
  LookupFails(a) \/ DialFails(a) \/ StoreRefuses(a) \/ ReplyLost(a) \/ Abandon(a)

Next ==
  \/ \E c \in Content : EditProduct(c) \/ LeaseExpires(c)
  \/ \E w \in Workflow, d \in {"approved", "rejected"} : RecordApproval(w, d)
  \/ \E a \in Attempt : \/ \E h \in Worker : Start(a, h)
                        \/ Work(a)
                        \/ StoreApplies(a)
                        \/ Fault(a)

Spec == Init /\ [][Next]_vars

\* An attempt is bounded by its start-to-close timeout, so it ends one way or
\* another, and a lease nobody renews runs out.  Nothing makes a reviewer decide,
\* Temporal start an attempt, or the store answer.
Fairness ==
  /\ \A a \in Attempt : WF_vars(Work(a) \/ Fault(a))
  /\ \A c \in Content : WF_vars(LeaseExpires(c))

FairSpec == Spec /\ Fairness

-----------------------------------------------------------------------------
(* Properties *)

\* Every variable stays within its SQL column's CHECK or its Go type.
TypeOK ==
  /\ draft \in Content
  /\ approvals \in [Workflow -> Decision]
  /\ ledger \in [Content -> Row]
  /\ store \in Seq(Content)
  /\ pc \in [Attempt -> PCs]
  /\ host \in [Attempt -> Worker \cup {NoOne}]
  /\ content \in [Attempt -> Content]
  /\ target \in [Attempt -> Nat]
  /\ req \in [Attempt -> Requests]
  /\ result \in [Attempt -> Results]
  /\ overtaken \subseteq Attempt

\* Whatever races, crashes and arrives late, a write that left a worker belongs
\* to a workflow whose recorded decision is, and still is, "approved" (Publish
\* refuses without an approved row; the first recorded decision is kept).
WriteNeedsApproval ==
  \A a \in Attempt :
    req[a] \notin {"unsent"} => approvals[WorkflowOf(a)] = "approved"

Applied(a) == req[a] \in {"applied", "late"}
Written(c) == \E a \in Attempt : content[a] = c /\ Applied(a)
OnceSold(c) == \E i \in DOMAIN InitialStore : InitialStore[i] = c

\* A completed row is never a lie: the store really took a write of this key, or
\* sold that content from the start (Complete runs after a reply or a match).
CompletedWasWritten ==
  \A c \in Content : ledger[c].status = "completed" => Written(c) \/ OnceSold(c)

\* The claim excludes: two attempts work under a claim of one key only if one of
\* them was overtaken, that is, its lease ran out under it, its own host claimed the
\* key again, or an overtaken attempt closed the row it had claimed (PGStore.Claim).
ClaimExclusive ==
  \A a, b \in Attempt :
    Holding(a) /\ Holding(b) /\ content[a] = content[b]
      => a = b \/ a \in overtaken \/ b \in overtaken

\* a and b worked side by side although they publish one product: under two keys,
\* after one was overtaken, or because a write arrived after its attempt had ended.
SideBySide(a, b) ==
  \/ content[a] # content[b]
  \/ {a, b} \cap overtaken # {}
  \/ "late" \in {req[a], req[b]}

Created(a) == Applied(a) /\ target[a] = 0

\* The SKU names one product: retries, crashes and lost replies never create a
\* second one, nor a first one beside what was on sale (the lookup by SKU precedes
\* every create); two are created by attempts that worked side by side only.
OneProductPerSku ==
  /\ InitialStore # <<>> => \A a \in Attempt : ~Created(a)
  /\ \A a, b \in Attempt : Created(a) /\ Created(b) => a = b \/ SideBySide(a, b)

\* "One approved decision yields exactly one remote write per idempotency key"
\* (publishgate.go, package comment): at most one write of a key is applied.
OneWritePerKey ==
  \A a, b \in Attempt :
    Applied(a) /\ Applied(b) /\ content[a] = content[b] => a = b

\* Completed is final: no claim, lease or store reopens a finished key, and no Fail
\* or dry run but that of an attempt that was overtaken while it worked under that
\* key (Claim's status guard; Complete and Fail themselves are not guarded).
CompletedIsFinal ==
  [][\A c \in Content :
       ledger[c].status = "completed" /\ ledger'[c].status # "completed"
         => \E a \in Holders(c) \cap overtaken : pc'[a] = "over"]_vars

\* A key whose publish has completed stays completed: the ledger is a
\* "GET-by-key short circuit" (publishgate.go, package comment).
CompletedStays ==
  [][\A c \in Content :
       ledger[c].status = "completed" => ledger'[c].status = "completed"]_vars

\* A key whose attempt died is not wedged: it completes or any host can claim it
\* (Fail releases the lease; an abandoned lease runs out).
KeyComesFree ==
  \A c \in Content, h \in Worker :
    ledger[c].status = "in_progress"
      ~> (ledger[c].status = "completed" \/ Claimable(c, h))

\* "No second update is sent when the change is already present"
\* (mvp1_gherkin_test.go, scenario 3).
NoRedundantUpdate ==
  [][\A a \in Attempt :
       req[a] = "unsent" /\ req'[a] = "sent" /\ target'[a] # 0
         => store[target'[a]] # content[a]]_vars

\* "NOTHING left the worker ... the write never happened"
\* (approvalctx.go on ErrStoreUnreachable).
UnreachableMeansNoWrite ==
  \A a \in Attempt : result[a] = "unreachable" => ~Applied(a)

\* A publish that ends in success leaves the store selling what it published
\* (product_publish.go: "product published to WooCommerce").
SuccessIsLive ==
  [][\A a \in Attempt :
       pc[a] # "over" /\ result'[a] \in {"already_completed", "none", "written"}
         => \E i \in DOMAIN store : store[i] = content[a]]_vars

-----------------------------------------------------------------------------
(* The abstract listing: a single product rewritten only by approved          *)
(* workflows, until two attempts that worked side by side have created one     *)
(* each.                                                                       *)

Mishap == \E a, b \in Attempt : a # b /\ Created(a) /\ Created(b) /\ SideBySide(a, b)

Listing == INSTANCE GatedListing
             WITH decision <- approvals, listing <- store, mishap <- Mishap
ListingSpec == Listing!Spec

=============================================================================

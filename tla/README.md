# Formal model of agentic-ecommerce

TLA+ modules for the parts of agentic-ecommerce in which several actors share
state and in which something can be lost: the publish gate and the workflow that
drives it, the store proxy and the nightly join of its log, the worker pool and
the agent scheduler on top of it, the Stripe side of billing, the delivery of
events to webhooks, registrations and the tenants they create, the shutdown of a
process, and the workflows and calls that move money, stock, orders and
memberships. TLC checks small instances; TLAPS proves the most important results
for every value of the constants. All paths below are paths in the repository.

Contents: 1 the system, 2 the components, 3 the modules and how they correspond
to the code, 4 the runs, 5 fairness, 6 proofs, 7 disagreements between code and
documentation, 8 what is left out, 9 the plan.

## 1. The system

```
 UI / reviewers ──HTTP──▶ mc-api ──Update, signal──▶ Temporal ──▶ temporal worker(s)
                            │ │ │                                    │ sagas, memberships
     Stripe ──webhook──────▶│ │ └─ agent scheduler ─▶ worker pool    │ compliance, media
                            │ └─ event bus ─▶ outbound webhooks      │ gatePublisher
   self-service ──HTTP─────▶│                                        ▼
   registration             └────── PostgreSQL ◀── approvals, ledger ── publish gate
                                                                     │
                     audit join ◀── audit log ◀── store proxy ◀──────┘
                                                      └──▶ WooCommerce
```

* `cmd/mc-api` is the HTTP server. It edits products, starts and reviews publish
  workflows, receives Stripe's events and owns the agent scheduler.
* `cmd/temporal-worker` runs the workflows. The last activity of a product
  publish calls the publish gate (`internal/publishgate`), which reads the
  decision row, claims the idempotency key in a ledger and writes to the store.
* Every request for the store goes through `cmd/store-proxy`, which appends to
  an audit log. `cmd/audit-join` compares that log with the decision rows each
  night.
* Events go over a bus (Redis Streams, or in memory, which is what `cmd/mc-api`
  wires) to the registered webhooks. Registrations and tenants are rows that
  handlers and a workflow read, change and save.
* The coordinators of `internal/lifecycle` close a process's components within a
  budget of time.
* Hosts die, Temporal retries activities, leases run out, replies are lost,
  Stripe and reviewers retry: nearly every interesting behaviour of this system
  is a step repeated or interrupted between two pieces of shared state.

## 2. The components

What each keeps, does and must guarantee. "Model" names the module, or says that
there is none yet (section 9) or none wanted (section 8). `PROJECT.json` lists
the same components with their sources.

| Component | State | Operations | Hard behaviour | What makes it correct | Model |
|---|---|---|---|---|---|
| Publish gate | `publish_approvals`, `publish_ledger` | RecordApproval, Claim, Complete, Fail, Publish | crash after the write, lease expiry, two hosts, lost reply | no write without approval, one product per SKU, a completed key was written | `PublishGate`, `GatedListing` |
| Gate publisher | none of its own | load product, write fields, look up by SKU, create, update | the product changes before it is loaded | writes what was approved | `PublishGate`, `ProductPublish` |
| Product publish workflow | review, decided marks, result | checks, wait for a review, record it, publish | Updates against signals, cancellation, retries | one decision, kept, acted upon | `ProductPublish` |
| Review API | none of its own | post a review, fall back to the signal, read the stored decision | Update accepted but its answer lost | every request answered, truthfully | `ProductPublish` |
| Store proxy | audit log, requests in flight | admit, log, forward, log the outcome, close | crash between two of these, short append | what the store applied is in the log | `StoreProxy` |
| Audit join | none kept | read approvals, read log, judge | both grow meanwhile | OK is never false | `StoreProxy` |
| Worker pool | channel, closed flag, counters | Submit, Close, workers | Submit against Close, panics | accepted tasks run, Close drains | `WorkerPool` |
| Agent scheduler | queue, slots, cancel functions, waiters, runs | Submit, dispatch, execute, Cancel, Wait, Close | two locks, reads used after unlocking | slots are accounted for, runs end | `AgentScheduler` |
| Billing: Stripe events | subscriptions, invoices, seen events | webhook, dispatch, administrators' moves | duplicates, any order, restarts, races | nothing recorded is lost, rows follow Stripe | `Billing` |
| Billing: the rest | usage counters | signatures, fees, refunds, usage | rounding | fee bounds | planned (operators) |
| Adaptive pool | target size | grow, shrink | a quarter of a small number is 0 | size within bounds | planned |
| Inventory sync | idempotency keys, two stocks | reserve, source, target, compensate, release | failed compensation, crash with a key held | an adjustment is applied once or undone | `Sagas` |
| WooCommerce sync engine | products, conflicts | import, resolve | import against an edit | no edit silently lost | planned |
| Circuit breaker | state, counts | allow, record | results of calls begun in another state | opens and closes on its own results | planned |
| Lifecycle manager | component list, stopped flag, mutex | Register, Run, Shutdown, phases | late Register under the mutex, phase over its budget | reverse order, each closed once, in time | `Shutdown` |
| Event bus | stream, pending entries | publish, read, reclaim, acknowledge | crash between effect and acknowledgement | at least once, nothing lost | `EventDelivery` |
| Outbound webhooks | registrations, deliveries | register, delete, deliver, retry, record | partial failure over several registrations | every registration served or its failure recorded | `EventDelivery` |
| Payment saga | none of its own | select, charge, mark, publish | lost answer of a charge | charged once; reports what happened | `Sagas` |
| Returns saga | none of its own | label, refund, restock, compensate | failure after steps took effect | compensation matches what was done | `Sagas` |
| Order aggregator | dedup store | normalise, reserve, publish | retried publish, repeated order | announced once | `Sagas` |
| Vendor onboarding | vendor records | verify, create, roll back, notify | two runs of one name | reports what happened | `Sagas` |
| Membership lifecycle | the workflow's | charge, trial, renew, pause, resume, cancel | signals against timers, retried charges | a charge per period, a cancel ends it | `Membership` |
| Registration and tenants | requests, tenants | submit, verify, onboard, create, activate, suspend, archive | rows read and saved apart, failures between | a slug given once, to a verified request | `TenantRegistration` |
| Marketplace, its sync | submissions, ledger, dead letters | submit, review, replay | replay of what succeeded | state machine respected | planned last |
| Coordination log | append-only file | append, read | torn lines | readable rows survive | candidate |
| Audit record of job steps | none (the board's) | write a note from a verdict | repeated step | one note per step | candidate |
| Other workflows, memory watch, quota, authentication, agents, adapters, other HTTP handlers, compliance and media rules, observability | see section 8 | | | | none wanted |

## 3. The modules

| Module | Models | Kind |
|---|---|---|
| `GatedListing` | what the gate promises (package comment of `internal/publishgate/publishgate.go`) | abstract specification |
| `PublishGate` | `internal/publishgate`, gatePublisher and wcAdapter of `cmd/temporal-worker/main.go` | component |
| `PublishGateProofs` | theorems about `PublishGate` | proofs |
| `ProductPublish` | `internal/workflow/product_publish*.go`, the review handlers of `cmd/mc-api` | component, composed with what `PublishGate` guarantees |
| `ProductPublishProofs` | theorems about `ProductPublish` | proofs |
| `StoreProxy` | `internal/storeproxy`, `internal/auditjoin` | two components composed |
| `StoreProxyProofs` | theorems about `StoreProxy` | proofs |
| `WorkerPool` | `internal/workerpool/pool.go` | component |
| `AgentScheduler` | `internal/agent/orchestrator.go` on the pool | component, on top of what `WorkerPool` guarantees |
| `AgentSchedulerProofs` | theorems about `AgentScheduler` | proofs |
| `Billing` | dispatcher, service, repository, webhook and admin handlers | component |
| `EventDelivery` | `internal/eventbus/streams.go` and `memory.go`, `internal/webhook/outbound` | two components composed |
| `EventDeliveryProofs` | theorems about `EventDelivery` | proofs |
| `TenantPromises` | the rows registration shares with the administrators, and what holds of them | state and safety properties of `TenantRegistration` |
| `TenantRegistration` | `internal/registration`, `internal/tenant/aggregate.go`, tenant handlers, the onboarding workflow | components composed |
| `TenantProofs` | theorems about `Billing` and `TenantRegistration` | proofs |
| `ClosingPromises` | what both coordinators promise of the components they close | state and safety properties of `Shutdown` |
| `Shutdown` | `internal/lifecycle/manager.go`, `enhanced_shutdown.go` | component |
| `ClosingProofs` | theorems about `WorkerPool` and `Shutdown` | proofs |
| `Sagas` | four workflows of `internal/workflow`, `internal/sync/tiktok_inventory.go` | components that share a shape |
| `Membership` | `internal/workflow/membership_lifecycle.go` | component |
| `Workflows` | `Membership` or `Sagas` in one state space | composition |
| `WorkflowsProofs` | theorems about `Membership` and `Sagas` | proofs |
| `MC<component>` | values for TLC | instances |

Definitions whose comment begins with "Slip" are not part of the system. Each is
a small mistake one could make in the code (a dropped guard, a reset forgotten,
two calls swapped), kept beside the definition it would replace; putting it in
place of that definition makes the property named with it in `PROJECT.json`
fail, which shows that the property depends on that line of the code.

### GatedListing

Three variables: `decision`, per workflow, `listing`, what the store sells under
the SKU, and `mishap`. A workflow is decided at most once; the listing changes
only to a version of the product published under an approved workflow, and stays
one product unless a mishap, which the implementation names, puts a second beside
it. There is no ledger, lease, request or retry in it. `PublishGate` implements it
with `decision <- approvals, listing <- store`, and its mishap is a pair of
attempts that worked side by side and both created the product;
`ProductPublish`, which has the gate as one step, implements it with its one
approval row and the live revision, and without a mishap.

### PublishGate

One product. `approvals[w]` is a row of `publish_approvals`, `ledger[c]` one of
`publish_ledger` (with one product the idempotency key is a function of the
fields written, so the key is the content `c`), `store` the products the shop
has under the SKU, oldest first, `draft` the product row that the activity will
load. The remaining variables describe activity attempts: program counter, host,
loaded content, the product its write addresses, where its write request is, and
what `Publish` returned. `overtaken` is a history variable that no guard reads:
the attempts whose claim has stopped to exclude others, because their lease ran
out under them, because an attempt on the same host claimed the key again (a
lease belongs to `worker-` and the host's name, and there is one task queue), or
because an overtaken attempt closed the row they had claimed.

Every SQL statement and every store request is an action. In the order of
`Gate.Publish`: `Start` (load the product), `ApprovalFor`, `ClaimInsert`,
`ClaimUpdate`, `ClaimDistinguish` (the three statements of `Claim`),
`CompleteDryRun`, `FindBySKU` (the lookup, the comparison `Matches` and the
decision to create, update or only complete), then the write: `StoreApplies` is
the store's own action on a request in flight, `ReplyArrives`, `ReplyLost`,
`StoreRefuses` and `DialFails` are what the worker sees, sorted as
`classifyRemoteErr` sorts them. `Complete` and `Fail` close the row. `Abandon`
ends an attempt at any step: the host died, the activity timed out, or SQL
failed. Other actors: `RecordApproval` (the first row of an id is kept),
`EditProduct`, `LeaseExpires`.

Abstractions: one SKU; contents are model values with equality, because
`Matches` compares fields for equality (which fields are written and which are
echoed are the constants `WrittenFields` and `EchoedFields`, for the comparison
fails whenever the first is not contained in the second); time is
`LeaseExpires`, allowed at any moment under `SlowAttempts` and otherwise only
when the attempt that took the lease has ended (the lease is longer than the
activity's timeout). An attempt may begin while an earlier one of the same
workflow id is at work: Temporal has given that one up (a timeout, a closed run
under an id that is used again), its worker has not noticed yet. The attempts of an
id are numbered as their workers begin with them, which may be any order.

### ProductPublish

One workflow id and its successive runs. A Temporal workflow runs on one event
loop, so a handler or a stage between two waits is one action; whatever crosses
the network is one of its own. `hand` is the state of the Update handler,
`review` what the main loop goes by: two copies, and how they come apart is the
point. `upd[r][k]` is the Update with id `k` of run `r`, `signals` the channel,
`call` the review requests of mc-api.

Actions of the run: `CheckCompliance`, `ValidateMedia`, `TakeSignal`,
`RecordDecision` (the activity that writes the approval row), `ActOnDecision`,
`PublishAttempt`. Updates: `RejectUnknown` (the SDK, before the handler is
installed), `ValidateUpdate`, `HandleUpdate`. mc-api:
`PostReview`, `AnswerDecided`, `LearnConflict`, `AnswerConflict`, `AnswerLost`,
`UpdateFails`, `FallBack`, `FallbackRecord`, `FallbackSignal`. Outside:
`StartRun`, `StopRun`, `EditProduct`. `PublishAttempt` stands for the gate by
what `PublishGate` shows of it: it writes only if the approval row says
approved, and may have written although it reports an error.

### StoreProxy

Requests are classified by what the admission rules look at (path, method class,
method override, form body, `X-Approval-Id`), and each class is one shape.
`RecordIntent` is the row written and synced before `Forward`; `StoreApplies` is
the store; `RecordDone` and `RecordUnknown` are best effort. Every append may
fail, also halfway (`torn`), and then spoils the row that follows on the same
line. `Crash` drops all handlers, `Restart` opens the same log; requests on the
wire survive both. `CloseLog` closes the file while handlers are still at work.
The join is `ReadApprovals` (or `ReadApprovalsFails`), and later `ReadLog`,
which judges. The log is read in one step: the file only grows, and the reader
stops at the end it finds.

### WorkerPool

`tasks` is the buffered channel, `closed` the flag and the channel's closing
(both under one mutex). Submit is `CheckClosed` (under the mutex), then `Send`,
`Saturate`, `SendOnClosed` or `CancelSubmit`, then `CountSubmitted` (the counter
comes after the send). Workers `Take`, `Finish` (a panic is recovered, so it
finishes too) and `Leave` when the channel is closed and empty. Close is
`BeginClose`, then `Drained` or `Deadline`.

### AgentScheduler

The scheduler has a mutex and the store of runs another, so each operation is
split where it lets go of them. `Dispatch` is the operator behind
`dispatchLocked`: skip runs that are no longer queued, take a slot, mark the
run, hand it to the pool, while slots are left. It is part of `Push`, `Release`
and `CancelSignal`, as in the code. Execution: `Begin`, `AgentReturns` or
`AgentPanics`, `StoreOutcome`, `Release`, `Notify`. Cancel: `CancelRead`,
`CancelWrite`, `CancelNotify`, or `CancelSignal`. Wait: `WaitRead`,
`WaitRegister`. Close: `CloseQueue`, `CloseItem`, `CloseSignal`, `CloseDrained`
or `CloseDeadline`; a later one is `CloseAgain`, which returns nil at once. The pool is represented by `handed` runs (a set: which of
two tasks starts first is up to the Go scheduler anyway) and by its depth,
`PoolDepth`.

### Billing

`history`, `status` and `acked` are Stripe: what it has emitted, what it
believes, what was answered 200. `sub`, `invoice` and `recorded` are the
repository that mc-api wires, `NewInMemoryRepository`. Each call of the
repository holds its mutex and is one step; a webhook request is `Deliver` (look
whether the event was seen, dispatch by kind), `StoreInvoice`, a read
(`LoadForUpsert`, `LoadForDelete`, `LoadForInvoice`), `Save` or `Create`, and
`Record`. `Save` writes what was computed from the earlier read, whatever the
row has become. `AdminLoad` and `AdminSave` are the administrators' cancel,
pause and resume. `Restart` empties the repository and drops the requests.
Stripe's own actions (`StripeReports`, `StripeDeletes`, `StripeCollects`,
`StripeFailsToCollect`) are external: they are modelled by what the dispatcher
relies on, that status and events agree. `Weather` says which behaviours are
considered: calm ones, with one request at a time and in order, in which the
repository must mirror Stripe, and racing ones, in which only what must still
hold is asked.

### EventDelivery

`stream`, `group`, `pending` and `acked` are Redis: the messages, how many the
group has handed out, the pending entries. `call`, `batch` and `job` are a
consumer's read loop, the messages it has read and where its handler is. A turn
of the loop is `Claim` (XAUTOCLAIM of what has idled) or `Read` (XREADGROUP);
`ReplyLost` is either of them with the messages handed out and nobody to handle
them. The handler is `DeliverEvent`: `List` the registrations, and for each
`LoadSecret`, `Post` (with its attempts) and `Record`, then `Acknowledge`.
`SecretGone` and `StoreFails` end it with an error, after which nothing is
acknowledged. `Overtake` lets an entry idle while its consumer is still at work
on it. Registrations come and go at any time (`Register`, `Delete`); `due` notes
which were there when an event was published. On the in-memory bus the publisher
is the consumer (`PublishInMemory`) and the handler's error is dropped. `Crash`
ends a consumer with what it held, `Close` cancels its context.

Several consumers stand for several processes of one group, which is what the
code names them for; `bus` is chosen by the first state and never changes.

### TenantRegistration

`request` and `tenant` are the rows, `call` the HTTP requests and executions of
the onboarding workflow. Each repository locks for one call, so a service method
is a sequence of steps: `VerifyLoad`, `VerifySave`; `OnboardLoad`, `Look` (is the
slug free), `Insert`, `GetTenant` and `PutStatus` (the tenant activates itself),
`OnboardSave`; `AdminMove`, `GetTenant`, `PutStatus`. `PutStatus` writes what
follows from the row that was read; the insert decides under the lock again.
The workflow is given a slug of
its own, which nothing compares with the request's. `WorkflowFails` is a provisioning whose reply is lost and which is attempted
again, or a later activity that fails, after which the rollback removes nothing.

### Shutdown

Time is counted in units and passes only when somebody waits for it (`Tick`); a
component that honours its context returns before its time is over. `Manager`:
`RegisterOpen`, `RegisterLate` (the component is closed while the mutex is held)
and `RegisterReturns`, `RunBegins`, `ParentCancelled`, `WorkReturns`,
`RunShutsDown`, `ShutdownNow` (the first takes the components, others return),
`CloseNext`, `CloseReturns`, `Skip`, `Drained`. `EnhancedShutdown`: `Execute`,
`RunPhase`, `PhaseOver`, which leaves a phase behind that does not end in time,
and `ExecuteCancelled`, after which no phase is given any.

### Sagas

A workflow is a table: to which step an answer, a refusal or an exhausted step
leads, and what the execution reports then. The actions are the same for all
tables: a step is `Answered`, or an attempt is seen to fail, before its effect
(`AttemptFails`) or after it (`ReplyLost`); the attempts are those of each
workflow's retry policy, and of the charge those of the workflow's own loop.
`did` counts effects outside, `lost` and `gaveUp` remember where a reply was lost
and where attempts ran out, so that a property can say which trouble excuses
what. A charge is answered as the adapter of its gateway reads the response:
Stripe's also "failed" without an error (`unpaid`), which the workflow treats as
it treats every answer but a pending one, Alipay's and WeChat Pay's always
pending; and a gateway that was told the order, all but PayPal, knows the charge
when it is asked again (`KnowsTheCharge`). The dedup store of the orders and the keys of the inventory sync are
`keys`; `Crash` empties the latter.

### Membership

`at` is the activity the workflow is in or the wait it is at. A wait makes its
selector ready by what comes first: `woken` is set when the wait begins (if a
signal is queued, in the order of the selector's branches, or the deadline has
passed) or by the first `Signal` or `PeriodEnds` that reaches it, and only then
is it taken (`Cancel`, `Pause`, `Resume`, `TrialEnds`, `Renew`). A cancel that
arrives second stays in its channel for the next wait. The deadline runs on in a
pause, and a resume without a pause leads to a renewal, as in the code.

### Workflows

The executions share a task queue and nothing else, so a behaviour is of one
membership or of one scenario of the sagas, and the two state spaces are put side
by side, not multiplied.

## 4. The runs

Each run is a module, a configuration of the same name and the properties in it.
Deadlock is not checked in any of them, because every instance really may stop:
attempts, requests, tasks and events are bounded in number, and nobody has to
decide, submit or close.

| Run | Instance | Properties | States |
|---|---|---|---|
| `gate_claims` | 2 workflows on a host they share, the retry of one there or on another, 1 content, slow attempts, late writes | ClaimExclusive, OneProductPerSku, CompletedIsFinal, ListingSpec | 1979 k |
| `gate_chaos` | 2 workflows with a host each, one host in dry-run mode, the other workflow tried once, 2 contents, slow attempts, late writes, the fields the live store echoes | WriteNeedsApproval, CompletedWasWritten, KeyComesFree | 314 k |
| `publish_reviews` | both kinds of id, 2 requests, 2 keys, 2 runs; `-auto`: failing Updates; UI: 2 revisions, 3 attempts | DecidedIsKept, ConflictTellsDecision, GateSeesDecision, ListingSpec, EveryCallAnswered, DecisionTakesEffect | 738 k |
| `proxy_audit` | 2 requests of 8 shapes, 1 approval, a legacy log, append and read faults, 1 day passing | AppliedIsRecorded, OneUnmatchedPerWrite, CleanVerdictIsTrue | 1818 k |
| `pool_drain` | 3 tasks, 2 workers, 2 closers, depth 2, cancelled contexts | DrainedMeansRun, AcceptedRuns, CloseReturns | 34 k |
| `pool_submit_close` | 2 tasks, 1 worker, 1 closer | SubmitDoesNotPanic (violated) | 24 |
| `sched_runs` | 3 runs, one urgent and its agent may panic, 1 slot, Cancel, Wait, Close | SlotsAreExecutions, DispatchFits, ClosedMeansEnded, EveryRunEnds | 389 k |
| `billing_events` | 2 requests, 1 administrator, 1 invoice; calm: 4 events in order; racing: 2 events in any order, 1 restart | MirrorsStripe, RecordedHasEffect, EveryEventAcked | 137 k |
| `event_delivery` | either bus, 2 consumers, 2 events of which one does not parse, 2 registrations of which one is flaky and one comes late, 2 attempts, 1 trouble | AckedIsServed, RepeatsAreCaused, EveryEventArrives | 546 k |
| `tenant_registration` | 2 requests of one address for one slug, a second slug, 5 calls (verify twice, onboard, onboard or workflow, an administrator), 1 fault | SlugGivenOnce, TenantIsVerified, OnboardingEnds | 481 k |
| `shutdown_budget` | 3 components, Run beside Shutdown, or Execute of 3 phases, one that ignores its context, itself with a context that may be cancelled; budget 3 | ClosedInReverse, BudgetHolds, EveryComponentCloses | 141 k |
| `workflows` | sagas scenario by scenario (at most 6 troubles, 3 attempts), or a membership with and without trial, 2 signals of a kind, 2 periods, 3 troubles | OncePerSubject, RolledBackIsUndone, ClaimsAreTrue, RenewalsAreDue, CancelEnds | 451 k |

**Gate.** `gate_claims` has what the deployment gives: one task queue, so that
both workflows may come to the same host and hold its lease together, leases that
may run out under an attempt, and writes that arrive late. Two attempts of one
workflow on two hosts are what it takes for a crash after the write and a retry
elsewhere that finds the product, for a second attempt beside a first that was
given up, and for a late Fail; the second workflow competes for the key. Its
properties name exactly what excuses a breach, an attempt that was overtaken, so
that none of them holds by an assumption about the deployment; without that
excuse each is refuted (section 7). The store echoes every written field there,
so that `Matches` may be true. `gate_chaos` has the fields the live store really
echoes, so that `Matches` is never true, and a dry-run host. Two contents add an
edit between attempts, so the retry has another key.

**Publish.** The first state chooses the kind of id. With `-auto` there is
everything that can cross: an Update whose error hides its acceptance, the
fallback to the signal, an anonymous signal, a second run under the same id with
the first one's row, runs stopped at any time. The first request's key is called
`k1`, which loses nothing since keys differ by name only. One attempt suffices
there; the other kind adds attempts and edits. In it Updates do not fail without
a reason, which is the condition under which the gate reads the decision that
the workflow took; GateSeesDecision is restricted to it (section 7 has what
happens otherwise).

**Proxy.** Two requests are needed for one row to spoil another's and for an
approval to fall between the two reads; one day passing moves one approval out
of the window. The join may run over all ids or for one. The log of earlier
proxy versions (legacy rows) is one of the initial logs.

**Pool.** Three tasks on a channel of two and two workers fill, drain and
saturate it; two closers make the second find it closed.

**Scheduler.** With one slot two of three runs queue, and priority decides. A
panicking agent loses the slot, so the queue behind it stands still: EveryRunEnds
excepts that case. That slots are counted right with more of them is proved
(section 6).

**Billing.** The calm behaviours deliver in order, one request at a time, with
repetitions: the repository must agree with Stripe when everything is answered.
The racing ones drop all of that. Four events are creation, failure, payment and
deletion.

**Event delivery.** Two consumers make one reclaim what the other holds. One
trouble is one crash, one lost reply of Redis, one failing call of the store, one
consumer closed or one overtaken handler: each alone already leaves entries
pending, and RepeatsAreCaused counts them, so its bound is met exactly.
Deleting a registration is no trouble and may happen at any time.

**Registration.** Two requests of one address are needed for one to replace the
other; two verifications of one request, for a late save; the fifth call makes
the slug's tenant first, or moves it between the steps of the others.

**Shutdown.** Three components let one register before, one during and one after
the drain. The phases ask for 2, 3 and 1 units of a budget of 3, so the second
gets less than it asks for and the third is skipped unless one returns early; the
second may run on.

**Workflows.** One payment by each gateway, one at a time (Alipay's for WeChat
Pay's too); a return below the threshold and one that is not; two
executions of one order and of one vendor; three calls of one stock movement, so
that a retry meets a key that was released after a failed compensation. Six
troubles exhaust two steps of three attempts, a step and its compensation. Three
troubles exhaust one activity of a membership; two signals of a kind let one
arrive while another is waiting.

### What each property excludes

| Property | Excludes |
|---|---|
| OneProductPerSku | a retry that creates the product again after a crash or a lost reply; a create beside what was on sale |
| CompletedIsFinal | a claim, store or lease that reopens a finished key, and a Fail or dry run by anybody who was not overtaken |
| ListingSpec | a store change by a workflow that was not approved; a decision replaced; a second product but by attempts side by side |
| ClaimExclusive | two attempts at work on one key though neither was overtaken |
| KeyComesFree | a key that a dead host holds for ever |
| WriteNeedsApproval | a write on the way without an approved row |
| CompletedWasWritten | a ledger that says completed for what was never sold (dry run, lost reply) |
| DecidedIsKept | an answer 200 for a decision that loses |
| ConflictTellsDecision | a 409 that names the wrong decision |
| GateSeesDecision | a run that publishes while the row is absent or says otherwise |
| EveryCallAnswered, DecisionTakesEffect | a request that waits for ever on a run, a decision without outcome |
| AppliedIsRecorded | a store write without a line in the log, in any crash |
| OneUnmatchedPerWrite | one write reported twice |
| CleanVerdictIsTrue | OK over a write nobody approved |
| DrainedMeansRun, AcceptedRuns | a Close that returns nil over a task not run; an accepted task forgotten |
| CloseReturns | a Close that hangs |
| SlotsAreExecutions, DispatchFits | slots counted twice or never given back; a run failed for want of room |
| ClosedMeansEnded, EveryRunEnds | a run left queued behind Close, or anywhere but with the pool or the first Close when a second returns; a run that stays where it is |
| MirrorsStripe | a row or invoice that differs from Stripe after ordered delivery |
| RecordedHasEffect | an event recorded as seen without its effect, so that the retry is swallowed |
| EveryEventAcked | an event that is refused for ever |
| AckedIsServed | an event acknowledged over a registration that was neither served nor has its failure recorded |
| RepeatsAreCaused | one event handled by two consumers, or again, when nothing went wrong |
| EveryEventArrives | an event that stays in the stream or with a dead consumer |
| SlugGivenOnce | two calls that both answer with the tenant of one slug; a request that names another's tenant |
| TenantIsVerified | a tenant for an address nobody confirmed; a late Verify that takes a request back behind its tenant |
| OnboardingEnds | two onboardings of one request that refuse each other, and neither ends it |
| ClosedInReverse | a dependency closed under its user; a component closed by Shutdown and by Register |
| BudgetHolds | budgets that add up, one per component |
| EveryComponentCloses | a component registered under way that nobody closes; a Register that hangs on the mutex |
| OncePerSubject | an order announced twice, stock moved twice, a card charged twice by a gateway that was told the order |
| RolledBackIsUndone | a compensation left out or applied to what was not done |
| ClaimsAreTrue | a result or event that says what did not happen |
| RenewalsAreDue | a charge nobody owes: by a retry, a pause, a resume or an old deadline |
| CancelEnds | a cancel signal that waits for the trial or for the period to end, or is taken for another |

## 5. Fairness

Fairness is assumed only for what the runtime schedules.

* Gate (KeyComesFree, in `gate_chaos`): an attempt takes a step or suffers a fault (`WF(Work(a) \/ Fault(a))`),
  since the activity has a start-to-close timeout; a lease runs out. A reviewer
  need not decide, Temporal need not start an attempt, the store need not
  answer.
* Publish: Temporal schedules the open run's next step and its Updates, and a
  request's handler goes on. `UpdateFails` is no obligation. Nobody has to post
  a review, and a run may wait for one for ever.
* Pool: goroutines run and tasks return. Close need not be called, and no
  deadline has to pass: `CloseReturns` follows from draining alone.
* Scheduler: goroutines run and agents return or panic. Cancel and Close that
  have begun go on.
* Billing: a request that was accepted runs to its answer (weak), and Stripe
  sends an event again until it is answered 200. The latter is strong fairness:
  the event competes with others for a free request, so delivery is enabled
  again and again but not always.
* Event delivery: a consumer that went down is started again, a read loop goes
  on, pending entries get old. Endpoints that are not flaky answer. Publishing,
  registering and every trouble are nobody's obligation.
* Registration: a call that has begun goes on. Nobody need call.
* Shutdown: time passes, and a component that honours its context returns. The
  callers and Registers are strongly fair: the mutex they compete for becomes
  free again and again, and Go's mutex hands itself to who has waited a
  millisecond.
* Workflows: a membership's worker goes on with what it can do. Nothing is
  assumed of time: CancelEnds holds although no period ever ends.

## 6. Proofs

All proofs are checked by TLAPS, for arbitrary sets of workflows, hosts,
contents, requests, runs, tasks, slugs, calls, events and executions and for
every bound, from the named assumptions on constants in the component modules
(`GateAssumption`, `PublishAssumption`, `BillingAssumption`, `ProxyAssumption`,
`PoolAssumption`, `SchedulerAssumption`, `DeliveryAssumption`,
`MembershipAssumption`, `WorkflowsAssumption`) and what each theorem states.
`TenantRegistration` and `Shutdown` are instances in their proof modules, so
`RegistrationAssumption` and `ShutdownAssumption` are hypotheses of the theorems
about them. Every safety and action property of a passing run is stated by a
theorem.

`PublishGateProofs`:

* `TypeCorrect`: `TypeOK`.
* `ApprovalSafety`: `WriteNeedsApproval`, with no assumption on leases, hosts or
  crashes. `ApprovedInv` strengthens it: an attempt past the approval check has
  an approved row, and stays so because a recorded decision is never replaced.
  The property alone says nothing about an attempt that has not written yet.
* `ClaimExclusion`: `ClaimExclusive`, from `Spec` alone: any hosts, shared or not,
  any leases. `HoldInv` says that the row of a key is the claim of whoever works
  under it and was not overtaken. Exclusion follows from the steps: an attempt
  comes to hold a key by `ClaimUpdate` only, the row then is no live claim
  (`ClaimRefused`) or one of its own host, and in both cases those who held the
  key are overtaken, or were.
* `CompletedIsTrue`: `CompletedWasWritten`, with no assumption. A key is
  completed after a reply, after a match or by nobody; `UnsentInv`, `StoreInv`
  and `ReplyInv` say that a reply and a product in the store both come from a
  write that was applied, or from the start.
* `FinalRows`: `CompletedIsFinal`, from `Spec` alone. `Complete` and `Fail` write a
  row by its key alone (`internal/publishgate/postgres.go`), so nothing in the
  statement keeps a late one from a row that another attempt has completed; what
  does is that whoever gets that far and was not overtaken still holds the claim
  (`HoldInv`), and a claimed row is not completed. An attempt that was overtaken
  does reopen it: section 7.
* `NoSecondProduct`: `OneProductPerSku`, from `Spec` alone. `StoreFits` adds two
  parts to it. `WireInv`: an update on the way names a product that is there, and
  nothing is created beside what was on sale. `OverlapInv`: if a product has been
  created while a create is on the way, the two attempts worked side by side, or
  the create's attempt has given up, so that the write is late: the lookup that is
  stale when the create is applied does harm in these cases only.
* `ImplementsListing`: `ListingSpec`, from `Spec` alone. Every step is a decision,
  a change of the listing by an approved workflow, or a stutter; a product beside
  another comes from `StoreApplies` of a create, and then `NoSecondProduct` says
  that its attempt and the one that created the other worked side by side, which
  is the mishap of `GatedListing`.

`ProductPublishProofs`:

* `TypeCorrect`: `TypeOK`.
* `ToldIsKept`: `DecidedIsKept`. `AcceptedIsReview` says that an Update that was
  accepted is the review of a run that no longer waits for one, and
  `ToldIsReview` the same of an answer; `RunsAreCounted` that a run to come has no
  Update and no answer yet, so that starting it disturbs neither.
* `ConflictIsTrue` and `RowBeforePublish`: `ConflictTellsDecision` and
  `GateSeesDecision`, both restricted to a UI id whose reviews all go through
  Updates (section 7 has what happens without that restriction). `ConflictIsRow`:
  the first row of an id is kept, so a conflict that was told stays true of it.
  `RowFollows`: the run alone writes that row, from its review (what a request
  that falls back would store for such an id is refused), so no row precedes the
  review, and a request falls back to the signal only when its run is closed.
* `ImplementsListing`: `ListingSpec`, without that restriction: whoever writes
  the row, it is written once, and a publish changes the store only by an
  approved row.

`TenantProofs`:

* `TypeCorrect`: `TypeOK` of `Billing`.
* `RecordedIsApplied`: `RecordedHasEffect`, for every order of delivery, race
  and restart. The inductive invariant `IInv` adds to it that a request at work
  has an event of the history (`WorkInv`), that an administrator saves a state
  of the table (`AdminInv`), and `DispatchInv`: a request about to record has
  the effect in place already, and so has one about to save over a row. Without
  the latter, `Record` would not preserve the property; it holds because rows
  and invoices are never removed except by a restart, which forgets the recorded
  events and the requests with them.
* `RepositoryMirrors`: `MirrorsStripe`, for histories of any length. `HistoryInv`
  says what Stripe may emit: every event can come after the ones before it
  (`Follows`), and the last one leaves the row Stripe's status means (`RowAfter`).
  `CalmInv` says where a calm repository stands in that history: for some k the
  first k events are recorded, at most one request is at work, on event k + 1
  (`Answered`, `OneAtWork`), and row and invoices are as far as that request has
  got (`RowAsFar`, `InvoicesAsFar`). That a repeat of event k, whose answer was
  lost, is answered without an effect is a case of it, and so is the payment
  failure that saves a row of its own before it records.
* `RegistrationTypes`: `TypeOK` of `TenantRegistration`.
* `SlugIsGivenOnce`: `SlugGivenOnce`, for every interleaving, fault and late
  save. `InsertedIsMine` says that from its insert on a call that was not refused
  has the tenant, and `ActiveHasTenant` that an active request has a tenant made
  for it; both rest on `Settled`, that what a call is about does not change.
* `TenantsAreVerified`: `TenantIsVerified`. The property is about tenants;
  `OnboardsVerified` extends it to every call that was let past the check, so
  that a save by a late verification is seen to do no harm.

`StoreProxyProofs`:

* `WritesAreRecorded`: `AppliedIsRecorded`. `WriteAhead` is the reason: a write
  that is past the log, on the wire or applied has its line, and no line is ever
  taken away. `PassedIsAdmissible` is needed beside it, because a request that
  would be a write at the store under another method must not get past admission.
* `OkIsTrue`: `CleanVerdictIsTrue`. What the join has read as approved stays so
  (`JoinIsApproved`), and every applied write has its line by the time the log is
  read.
* `UnmatchedOnce`: `OneUnmatchedPerWrite`. A request has one intent line
  (`OneIntent`), since it has none before it goes on (`IntentMeansGone`); rows
  that were there before the proxy are of no request of its own, and it writes
  none of the legacy kind (`LegacyIsOlder`); a verdict counts no other rows
  (`VerdictIsOfWrites`).

`ClosingProofs`:

* `TypeCorrect`: `TypeOK` of `WorkerPool`, in which the counters never pass the number of tasks.
  This needs that no task runs twice: `OnePlace` says that a task is once in the
  channel, at one worker, or has run.
* `DrainRunsAll`: `DrainedMeansRun`. `SentIsSomewhere` says that nothing sent is
  forgotten, and `GoneMeansOver` that a worker leaves only a closed and empty
  channel; when all have left, everything has run.
* `WithinBudget`: `BudgetHolds`, for any durations and late Registers. `InBudget`:
  what the context leaves the component that is closing and what has been spent
  add up to no more than the budget, so a Tick cannot pass it. That needs
  `Registered`: what the manager drains is not closed again, with a context of a
  full budget, by a late Register.
* `LastRegisteredFirst`: `ClosedInReverse`, if the phases are different ones and
  Execute is called once (`OneExecute`): nothing in `EnhancedShutdown` refuses a
  second call, which runs every phase again. Manager needs no such condition: it
  has one drain (`OneDrain`) and has closed nothing before (`NotYet`). `LastFirst`
  is the order: what is left to close is the first part of what was taken, and
  all after it has ended, except the component a caller waits for.

`AgentSchedulerProofs`:

* `SlotsCounted`: `SlotsAreExecutions`. Slots are counted by hand in three
  places; each action changes the set of those that hold one by the run it is
  about, except the dispatch, which adds the runs it takes from the queue.
  `QueuedIsFresh` says that those are not in the set yet.
* `NoDispatchFails`: `DispatchFits`, from the same invariant.
* `CloseEndsRuns`: `ClosedMeansEnded`. `FateOf` says of each run where it is: in
  the queue, among the items Close has still to cancel, in the pool, or stored
  with its end; and `CloseInv` that the first three are empty when the Close that
  closed the scheduler has returned, and the first one from its beginning, which is
  all a second Close that returns then can promise.

`WorkflowsProofs`:

* `TypeCorrect`: `TypeOK` of `Membership`.
* `ChargedWhenDue`: `RenewalsAreDue`. The count alone is not inductive:
  `ChargesAreCovered` adds that there is a charge to spare whenever one is bound
  to come (`MustCharge`): before the renewal, and already when a deadline has
  passed at the wait or in the notification of a pause. `TimerIsDue` connects the
  selector to that deadline. `ChargedAmongSagas` is the same of `WorkflowsSpec`,
  which the run checks.
* `RollbackUndoes`, `ReportsAreTrue` and `ServedOnce`: `RolledBackIsUndone`,
  `ClaimsAreTrue` and `OncePerSubject`, for any set of executions and any number
  of attempts. `LocalInv` has a part for each workflow that relates the step an
  execution is at, what it did outside and what it is to report
  (`ReturnsUndoes`, `ReturnsClaims`, `PaymentInv`, `OrdersInv`, `VendorInv`,
  `InventoryInv`). That of the payments holds for
  each gateway: a gateway that knows the charge counts it once, so a second charge
  needs a lost reply of PayPal's, and a run past an unpaid answer says nothing of a
  charge. Two parts are about executions that share a subject:
  `OneOrder`, that of the executions about one order at most one gets past the
  dedup store, and `OneHolder`, that a key of the inventory sync has one holder
  while its process lives.

`EventDeliveryProofs`:

* `TypeCorrect`: `TypeOK`.
* `ServedWhenAcked`: `AckedIsServed`. `AllInHand` strengthens it to the handler
  that has not acknowledged yet: whom the event in hand is due to has been served,
  or is still on the handler's list, or is being posted to. `Promises` says which
  handlers that binds: over Streams those whose context has not been cancelled,
  in memory those of a calm behaviour. `LoopInv`, `JobInv`, `OnlyPublished` and
  `OnlyRegistered` keep the hand, the job and the registrations together.
* `RepeatsHaveCauses`: `RepeatsAreCaused`. The records of an event for a
  registration are one entry of a bill (`Bill`) that also counts the records that
  may still come: consumers that have yet to record it (`Ahead`), consumers that
  are closing with it in hand (`Leaving`), deletions its handler has yet to come
  upon (`Missed`) and whether the event may still be handed out (`Comes`). Each
  action either moves an amount from one entry to another or adds one to both the
  bill and the trouble it is due to, so the bill is never more than 1, the trouble
  and the deletions together. `TurnInv` makes that count right: a message is in
  the stream and in a hand once, and is claimed only after it has been read.

Only model-checked: liveness (KeyComesFree, EveryCallAnswered,
DecisionTakesEffect, AcceptedRuns, CloseReturns, EveryRunEnds, EveryEventAcked,
EveryEventArrives, OnboardingEnds, EveryComponentCloses, CancelEnds) is beyond
the prover, which treats neither fairness nor ENABLED.

## 7. Disagreements

Where the code does not do what a document, a comment, a name or a test of the
repository says of it. The first is a run of its own. Each of the others is a
property that stays defined in its module; TLC refutes it under the
specification with the values given (other values as in the component's smallest
run).

| Property | Values | What happens | What is said |
|---|---|---|---|
| SubmitDoesNotPanic | run `pool_submit_close` | `Submit` looks at `closed` under the mutex, lets go and sends; a Close in between closes the channel and the send panics in the caller (`internal/workerpool/pool.go:171-178`). | "ErrPoolClosed if the pool has been closed" (`pool.go:158-160`) |
| OneWritePerKey | 2 workflows on one host | The claim admits a live lease whose owner is the caller's host (`postgres.go:89`), so two approved workflows with the same content on one host both create the product. | "one approved decision yields exactly one remote write per idempotency key" (`publishgate.go:5-6`) |
| CompletedStays | `gate_claims`, also with a host of its own for each workflow and no slow attempt | Two attempts on one host, of two workflows or of one whose earlier attempt was given up, hold the claim together (`postgres.go:89`); one completes the key, and the other's Fail, written by the key alone (`postgres.go:124-131`), reopens it. A lease that runs out does the same across hosts. | "GET-by-key short circuit" (`publishgate.go:4-5`) |
| NoRedundantUpdate | `EchoedFields <- LiveFieldsOfKeys` | `FieldsFor` always writes stock and status, `liveFieldsOf` (`cmd/temporal-worker/main.go:582`) never reports them, so `Matches` is false for a product that sells exactly what is asked. | "no second update is sent when the change is already present" (`mvp1_gherkin_test.go:84-85`) |
| UnreachableMeansNoWrite | 1 workflow, 3 attempts | A `net.OpError` while reading the reply counts as unreachable (`approvalctx.go:26`); the request had been sent. | "NOTHING left the worker" (`approvalctx.go:11-15`) |
| SuccessIsLive | 2 contents, 3 attempts | A completed key answers success for ever (`publishgate.go:188`): publish A, B, A, and the third answers completed while B sells. | "product published to WooCommerce" (`product_publish.go:342`) |
| GateSeesDecision | `Ids = {FALSE}`, UpdateFaults | `workflowIDProductID` cuts the id at its last `-`, inside a uuid; the row is refused, the error dropped (`workflow_lifecycle.go:193,546`), and the signalled approval reaches a gate without a row. | "recording the approval row first (the gate fails closed without it)" (`workflow_lifecycle.go:189-191`) |
| GateSeesDecision, without its restriction | `Ids = {TRUE}`, 2 runs | All runs of a product share the id `-auto` (`sync_handlers.go:205`), and the first row of an id is kept: the second run's decision is not the one the gate reads. | "its executions are keyed per draft revision" (`product_publish_update.go:113-114`) |
| GateSeesDecision, without its restriction | `Ids = {TRUE}`, 1 run, 2 requests, UpdateFaults | One request falls back and stores its decision while the other's Update is accepted with the opposite one. | "exactly-once" (`workflow_lifecycle.go:140`) |
| PublishedIsCompliant | 2 revisions, `Compliant <- FirstOnly` | The product is loaded when it is published, after the checks read an earlier revision (`cmd/temporal-worker/main.go:601`). | "Product title must be present before publish." (`compliance/engine.go:148`) |
| NeedsHumanMeansUnwritten | 3 attempts | The status follows the last attempt's error; an earlier one may have written, and so may the last, by UnreachableMeansNoWrite. | "no write happened" (`product_publish.go:321-323`) |
| CleanDayIsJudged | `QueryColumns <- QueryOfCode` | The join's query names `created_at` (`auditjoin/pg.go:18`), which the migration does not create, so every join is NOT_RUN. | "a clean day is 0" (`auditjoin/join.go:2-4`) |
| OldWritesMatch | `MaxDays = 1` | The window bounds the approvals, not the log. | "a clean day is 0" |
| UnmatchedIsUnapproved | 2 requests | Approvals are read before the log: one approved and written in between is unmatched (`join.go:73`). | "a clean day is 0" |
| CloseMeansDrained | 2 closers | The second Close returns nil at once (`pool.go:203`). | "blocks until all workers exit or ctx fires" (`pool.go:199-200`) |
| ActiveIsACount | 2 tasks, 1 worker | `submitted` is counted after the send; a fast worker makes the gauge -1 (`pool.go:179`). | "the current active worker count" (`pool.go:128-129`) |
| CancelHolds | 2 runs, Cancel | Cancel decides on a run read before dispatch handed it out; it executes and succeeds (`orchestrator.go:290`). | a cancelled queued run is cancelled (`orchestrator_test.go:276`) |
| EveryWaitEnds | 1 run, Wait | The run ends between the read and the registration (`orchestrator.go:324`); nobody notifies. | tests wait with `context.Background()` (`orchestrator_test.go:105-106`) |
| EveryCloseMeansEnded | 2 runs | A second Close finds `closed` set and returns nil (`orchestrator.go:414-416`) while the first still cancels and drains, or after the first has given up at its deadline. | "It is safe to call more than once" (`orchestrator.go:405-406`) |
| EveryRunEnds, without its exception for panics | 1 panicking run | The slot is given back after `agent.Run` without a defer (`orchestrator.go:380`): it is lost, and with the last one the queue stands still. | "panic isolation" (`pool.go:1-2`) |
| CanceledIsTerminal | racing, 3 events | `UpsertSubscriptionFromStripe` stores the reported state without the table (`service.go:184`). | "StateCanceled is terminal" (`state.go:23`) |
| AppliedOnce | 2 requests | Seen, Dispatch and Record are three calls (`stripe_webhook_handlers.go:68`): two deliveries both pass. | "without side effects" (`CHANGELOG.md:1634-1636`) |
| AckedIsKept | 1 restart | mc-api always wires the in-memory repository (`main.go:438`). | "used by tests and dev mode" (`inmemory.go:12-13`) |
| FailureMarks | 4 events | `mark_past_due` from trialing is not in the table and its error is dropped (`dispatcher.go:188`). | "StatePastDue is reached when an invoice payment fails" (`state.go:18`) |
| EveryEventAcked, without its exception for deletions | 1 administrator | After an administrator's cancel, Stripe's deletion fails with ErrInvalidTransition and is answered 500 on each retry (`dispatcher.go:151`). | "every accepted Stripe event id is recorded" (`CHANGELOG.md:1634-1635`) |
| AckedIsServed, without its exception for the in-memory bus | 1 failing call of the store | `Publish` drops the handler's error (`internal/eventbus/memory.go:53`), and this is the bus mc-api wires: nothing is delivered again. | "at-least-once delivery semantics" (`docs/event-bus-architecture.md:6`) |
| ActiveIsTerminal | 1 request, 2 calls | Verify saves the row as it read it, over the one that onboarding made active. | "StatusActive is the terminal status" (`internal/registration/registration.go:39`) |
| ArchivedIsTerminal | 2 administrators' moves | The transition is asked of a row read earlier: an activation that read before the archival saves after it. | "StatusArchived is terminal" (`internal/tenant/aggregate.go:26`) |
| RefusedLeavesNothing | 1 workflow, 1 fault | The rollback is a no-op (`internal/workflow/tenant_onboarding.go:413-418`): the slug stays taken by a tenant without a plan. | "runs RollbackRecord to delete the row" (`tenant_onboarding.go:176`) |
| ReturnedMeansDrained | Run beside Shutdown | The second to shut down finds the flag up and returns while the first still drains (`internal/lifecycle/manager.go:138-140`). | "After work returns the Manager drains all Closers" (`manager.go:98-99`) |
| RolledBackIsNotRefunded | 1 return | Nothing takes a refund back when a later step fails (`internal/workflow/returns_saga.go:212-224`): the result is rolled_back, the customer has the money and keeps the goods. | `rolled_back` |
| NoOrderIsDropped | 1 order, 1 trouble | The reply of the reservation is lost; the next attempt finds its own reservation, and the order is a duplicate of nothing. | "the dedup gate rejected the duplicate" (`order_aggregator.go:210`) |
| VendorNameOnce | 2 executions | Both verify the name before either creates the record. | "duplicate vendor name" (`vendor_onboarding.go:280`) |
| AnnouncedFailedIsFailed | 1 payment | Every state but completed is announced by a failure event (`payment_saga.go:336-340`), so a payment that is pending is announced as failed. | `pending` |
| PaymentChargesOnce | 1 payment by PayPal, 1 trouble | The activity is attempted once but the workflow's own loop charges again, and PayPal's order and capture carry nothing that tells of the first (`internal/adapter/payment/paypal_adapter.go:86-121`). Stripe is sent an Idempotency-Key (`stripe_adapter.go:100`), Alipay and WeChat Pay the order as `out_trade_no`: they know the charge. | "single-attempt for idempotency" (`docs/operations/temporal-conventions.md:70`) |
| PaidIsCharged | 1 payment by Stripe | `parseStripeChargeResponse` answers `requires_action` and `requires_payment_method` with status failed and no error (`stripe_adapter.go:126-133`); `resolvedCommercialStatus` makes every status but pending "completed" (`payment_saga.go:223-228`), and the order is marked paid and announced although nobody was charged. | "On decline/failure: retry up to 3 times with exponential backoff", "On persistent failure: emit PaymentFailedEvent" (`payment_saga.go:7-8`) |
| StrayResumeIsNoOp | 1 resume | The wait returns no transition, and the loop's default case renews: the member is charged at once (`internal/workflow/membership_lifecycle.go:412`). | "Resume without prior pause is a no-op for replay safety" (same line) |
| PausedIsNotCharged | 1 pause, 1 period | The deadline runs on in a pause, and the renewal charges. | "so the customer is not double-billed for the paused interval" (`internal/domain/membership/subscription.go:160-161`) |
| FailedStartChargedNobody | 1 trouble more than attempts | The charge is made before it is recorded, and nothing takes it back when the recording is given up. | - |

Met while modelling, and in no property: the dead-letter stream of
`docs/event-bus-architecture.md:50` is not in the code, and a message that does
not parse is claimed and passed over for ever; the workflow of the membership
computes its timer with `time.Until` (`membership_lifecycle.go:373`), which reads
the worker's clock, against the repository's own determinism rules; a membership
that is cancelled never calls CancelSubscription of its gateway, and nothing in
the repository sends the workflow's signals; the tenant onboarding workflow
reports "active" for a tenant it leaves provisioning, of a request it leaves
verified.

## 8. What is left out

* In the modelled parts: SQL isolation below one statement, Temporal's own
  replay (its guarantee of one event loop per workflow is taken), HTTP details
  beyond the classes the proxy distinguishes, the contents of audit events and
  metrics. The variables they would fill are read by nothing.
* Several SKUs, subscriptions or tenants at once: rows of different keys never
  meet in the code that is modelled. Scheduler runs are not deleted, for the
  code never deletes one.
* Adapters, agents, authentication, compliance and media rules, observability:
  I/O, pure functions over one product, or values that nothing reads back.
* Memory watch and quota: a sampling loop over real time and counters under one
  mutex.
* Content generation, image approval, sourcing, media processing, marketplace
  sync and replay, and revenue refresh workflows: sequences of activities that
  share no state between executions.
* Event delivery: the test delivery of a webhook, disabled registrations and the
  filter by tenant (each only narrows the set of registrations that are listed),
  `InMemoryBus.Close`, which nobody calls.
* Billing: the status incomplete_expired, which the dispatcher maps to canceled
  as it does canceled itself (`dispatcher.go:208`); an event without
  `metadata.tenant_id` or that does not parse, which is answered with an error on
  every retry and changes nothing.
* Registration: an id that an administrator gives a tenant beside its slug
  (`cmd/mc-api/tenant_admin_handlers.go:118-119`): in the model a tenant's id is
  its slug, as it is for every tenant a request leads to; the quota of tenants and
  the validation of names and plans; that the temporal worker wires empty in-memory repositories of its own
  (`cmd/temporal-worker/main.go:292-298`), so that its onboarding workflow finds
  no request (the model has it share those of mc-api, as it must to be of use).
* Shutdown: the errors that are joined and returned; a component whose Close calls
  the Manager again, which would wait for itself (none does).
* Sagas: the approval gate of vendors, which always approves; of the gateways
  everything but what `Charge` tells them of an earlier attempt and how its
  response is read, which is where they differ for the workflow. WeChat Pay is not
  an instance of its own: like Alipay it is told the order and answers pending. A
  PayPal order whose capture is neither completed nor declined counts as charged
  and pending. The workflows and the inventory sync have no caller outside tests
  yet.
* Membership: a workflow context that is cancelled; the membership API of mc-api,
  which keeps a row of its own and does not talk to the workflow.

## 9. Plan

Done: `GatedListing` and `PublishGate`, `ProductPublish`, `StoreProxy`,
`WorkerPool`, `AgentScheduler`, `Billing`, `EventDelivery`,
`TenantRegistration`, `Shutdown`, `Sagas` and `Membership`; proofs of every safety
property that is checked of them.

What would come next, most important first:

1. WooCommerce sync engine (import against product edits, conflict keys that are
   never cleared) and the marketplace's submissions, ledger and replay.
2. Circuit breaker, adaptive pool and fee arithmetic: small modules, the last
   two as operators against a reference definition.
3. Several SKUs in one gate, to see the ledger's keys of different products
   beside each other.

Theorems worth proving next: that `TenantRegistration` keeps a request active
and a tenant archived if its calls come one after the other, which is what the
two refuted properties of section 7 presuppose; that in `PublishGate` a key is
written once more at most for each attempt that was overtaken.

--------------------------- MODULE ProductPublish ---------------------------
(***************************************************************************)
(* The product-publish workflow and its review decision: the checks, the   *)
(* Update handler and the deprecated signal of internal/workflow, the      *)
(* review endpoint of cmd/mc-api with its fallback, the approvals row they *)
(* share, and the publish stage against the gate.                          *)
(*                                                                         *)
(* One workflow id.  Its runs follow each other when the id is the         *)
(* product's "-auto" id; a run started from the UI has an id of its own.   *)
(* Workflow code runs on one event loop, so a handler and a stage are one  *)
(* step each; everything that crosses the network (an Update, a signal, a  *)
(* SQL statement, an activity) is a step of its own.  The gate is reduced  *)
(* to what module PublishGate shows of it: it reads the approvals row and, *)
(* when that says approved, may write the product's current revision.      *)
(***************************************************************************)
EXTENDS Naturals, Sequences

CONSTANTS
  Ids,            \* subset of BOOLEAN: the values auto may have
  Call,           \* review requests posted to mc-api
  Key,            \* Idempotency-Keys, the ids of the Updates
  KeysOf,         \* the keys each request may come with
  MaxRuns,        \* bound: runs under an "-auto" id (under a UI id it is one)
  \* For an "-auto" id (TRUE) and for a UI id (FALSE):
  MaxRevision,    \* bound: revisions the product goes through
  MaxAttempts,    \* publish attempts per run (RetryPolicy.MaximumAttempts)
  UpdateFaults,   \* UpdateWorkflow may fail towards mc-api for no visible reason
  Compliant       \* revisions the compliance and media checks accept

ASSUME PublishAssumption ==
  /\ Ids \subseteq BOOLEAN /\ UpdateFaults \in [BOOLEAN -> BOOLEAN]
  /\ MaxRuns \in Nat \ {0}
  /\ MaxRevision \in [BOOLEAN -> Nat \ {0}]
  /\ MaxAttempts \in [BOOLEAN -> Nat \ {0}]
  /\ Key # {} /\ KeysOf \in [Call -> SUBSET Key]

VARIABLES
  auto,       \* constant of a behaviour: the workflow id is the product's "-auto" id
  draft,      \* the product's revision in the catalogue database
  live,       \* the revision the store sells, 0: none
  approvals,  \* decision in the publish_approvals row of this id
  run,        \* runs started so far
  phase,      \* where the run's main loop is
  status,     \* ProductPublishResult.Status of a closed run
  hand,       \* reviewUpdateHandler: its review and its two "decided" marks
  review,     \* state.Review, the decision the main loop goes by
  attempts,   \* publish attempts made by the run
  wrote,      \* the run's activity has written to the store
  signals,    \* review signals waiting in the run's channel
  upd,        \* Updates by run and update id
  call        \* review requests: where they are and what they were told

vars == <<auto, draft, live, approvals, run, phase, status, hand, review, attempts, wrote,
          signals, upd, call>>
runVars == <<run, phase, status, hand, review, attempts, wrote, signals, upd>>

-----------------------------------------------------------------------------

Decision == {"approved", "rejected"}
Phases == {"none", "compliance", "media", "review", "recording", "decided",
           "publishing", "closed"}
Statuses == {"open", "compliance_failed", "media_failed", "rejected", "published",
             "needs_human", "failed", "stopped"}
NoDecision == "none"
MaybeDecision == Decision \cup {NoDecision}

\* An Update is on its way, past the validator, accepted, refused, or stuck in
\* decidedCh.Send because nobody receives any more.
UpdateStates == {"none", "sent", "validated", "accepted", "refused", "stuck"}
Answers == {"none", "decided", "conflict", "signaled", "bad_gateway"}
CallPC == {"idle", "waiting", "conflict", "record", "signal", "answered"}

NoUpdate == [state |-> "none", decision |-> NoDecision]
NewCall == [pc |-> "idle", key |-> CHOOSE k \in Key : TRUE, decision |-> NoDecision,
            named |-> TRUE, run |-> 0, answer |-> "none", told |-> NoDecision]
Undecided == [decision |-> NoDecision, named |-> FALSE, updated |-> FALSE]

Open == phase \notin {"none", "closed"}
\* h.review.Reviewer != "" || h.updateID != ""
AlreadyDecided == hand.named \/ hand.updated

Init ==
  /\ auto \in Ids
  /\ draft = 1 /\ live = 0 /\ approvals = NoDecision
  /\ run = 0 /\ phase = "none" /\ status = "open"
  /\ hand = Undecided /\ review = NoDecision /\ attempts = 0 /\ wrote = FALSE
  /\ signals = <<>>
  /\ upd = [r \in 1..MaxRuns |-> [k \in Key |-> NoUpdate]]
  /\ call = [c \in Call |-> NewCall]

-----------------------------------------------------------------------------
(* The catalogue and the life of a run *)

\* updateProduct writes whatever fields the request carries, checked or not.
EditProduct ==
  /\ draft < MaxRevision[auto]
  /\ draft' = draft + 1
  /\ UNCHANGED <<auto, live, approvals, runVars, call>>

\* ExecuteWorkflow: refused or joined while a run is open, else a new run.
StartRun ==
  /\ ~Open /\ run < IF auto THEN MaxRuns ELSE 1
  /\ run' = run + 1
  /\ phase' = "compliance" /\ status' = "open"
  /\ hand' = Undecided /\ review' = NoDecision /\ attempts' = 0 /\ wrote' = FALSE
  /\ signals' = <<>>
  /\ UNCHANGED <<auto, draft, live, approvals, upd, call>>

Close(outcome) == phase' = "closed" /\ status' = outcome

\* Execution timeout, termination or cancellation, at any stage; also an event
\* activity that fails for good, which fails the workflow where it stands.
StopRun ==
  /\ Open
  /\ Close("stopped")
  /\ UNCHANGED <<auto, draft, live, approvals, run, hand, review, attempts, wrote, signals,
                 upd, call>>

CheckCompliance ==
  /\ phase = "compliance"
  /\ IF draft \in Compliant
       THEN phase' = "media" /\ UNCHANGED status ELSE Close("compliance_failed")
  /\ UNCHANGED <<auto, draft, live, approvals, run, hand, review, attempts, wrote, signals,
                 upd, call>>

\* The media check loads the product again; passing installs the Update handler.
ValidateMedia ==
  /\ phase = "media"
  /\ IF draft \in Compliant
       THEN phase' = "review" /\ UNCHANGED status ELSE Close("media_failed")
  /\ UNCHANGED <<auto, draft, live, approvals, run, hand, review, attempts, wrote, signals,
                 upd, call>>

-----------------------------------------------------------------------------
(* The review gate inside the workflow *)

Deliver(k, state) == upd' = [upd EXCEPT ![run][k].state = state]

\* Before the handler is installed the SDK rejects an Update by its name, which it
\* forgets again: whoever waits for it is answered 502, and may send it once more.
RejectUnknown(k) ==
  /\ phase \in {"compliance", "media"}
  /\ upd[run][k].state = "sent"
  /\ Deliver(k, "none")
  /\ call' = [c \in Call |-> IF call[c].pc = "waiting" /\ call[c].run = run /\ call[c].key = k
                            THEN [call[c] EXCEPT !.pc = "answered", !.answer = "bad_gateway"]
                            ELSE call[c]]
  /\ UNCHANGED <<auto, draft, live, approvals, run, phase, status, hand, review, attempts,
                 wrote, signals>>

\* The validator of the Update, once the handler is installed.
ValidateUpdate(k) ==
  /\ phase \in {"review", "recording", "decided", "publishing"}
  /\ upd[run][k].state = "sent"
  /\ Deliver(k, IF AlreadyDecided THEN "refused" ELSE "validated")
  /\ UNCHANGED <<auto, draft, live, approvals, run, phase, status, hand, review, attempts,
                 wrote, signals, call>>

\* Slip: the handler trusts the validator and does not look again.
HandleUpdateUnchecked(k) ==
  /\ Open /\ upd[run][k].state = "validated"
  /\ hand' = [decision |-> upd[run][k].decision, named |-> TRUE, updated |-> TRUE]
  /\ review' = upd[run][k].decision
  /\ phase' = IF phase = "review" THEN "recording" ELSE phase
  /\ Deliver(k, "accepted")
  /\ UNCHANGED <<auto, draft, live, approvals, run, status, attempts, wrote, signals, call>>

\* The handler: the first decision is kept and handed to the waiting main loop.
\* After an anonymous signal nothing marks the decision as taken, so a late
\* Update passes both checks and then waits in Send for ever.
HandleUpdate(k) ==
  /\ Open /\ upd[run][k].state = "validated"
  /\ \/ /\ AlreadyDecided
        /\ Deliver(k, "refused")
        /\ UNCHANGED <<hand, review, phase>>
     \/ /\ ~AlreadyDecided
        /\ hand' = [decision |-> upd[run][k].decision, named |-> TRUE, updated |-> TRUE]
        /\ \/ /\ phase = "review"
              /\ review' = upd[run][k].decision
              /\ phase' = "recording"
              /\ Deliver(k, "accepted")
           \/ /\ phase # "review"
              /\ Deliver(k, "stuck")
              /\ UNCHANGED <<review, phase>>
  /\ UNCHANGED <<auto, draft, live, approvals, run, status, attempts, wrote, signals, call>>

\* The deprecated signal: it decides without an update id, so the workflow
\* records no row (the API recorded it before signalling).
TakeSignal ==
  /\ phase = "review" /\ signals # <<>>
  /\ signals' = Tail(signals)
  /\ hand' = [decision |-> Head(signals).decision, named |-> Head(signals).named,
              updated |-> FALSE]
  /\ review' = Head(signals).decision
  /\ phase' = "decided"
  /\ UNCHANGED <<auto, draft, live, approvals, run, status, attempts, wrote, upd, call>>

\* Slip: the row follows the last decision.
KeepLast(d) == approvals' = d

\* PGStore.RecordApproval: the first decision under this id is kept, and the
\* caller of the activity ignores which one that is.
KeepFirst(d) == approvals' = IF approvals = NoDecision THEN d ELSE approvals

\* Slip: the run goes on without the row.
RecordDecisionSkipped ==
  /\ phase = "recording"
  /\ phase' = "decided"
  /\ UNCHANGED <<auto, draft, live, approvals, run, status, hand, review, attempts, wrote,
                 signals, upd, call>>

\* The record_approval activity, retried until the insert is through.
RecordDecision ==
  /\ phase = "recording"
  /\ KeepFirst(review)
  /\ phase' = "decided"
  /\ UNCHANGED <<auto, draft, live, run, status, hand, review, attempts, wrote, signals, upd,
                 call>>

ActOnDecision ==
  /\ phase = "decided"
  /\ IF review = "approved"
       THEN phase' = "publishing" /\ UNCHANGED status ELSE Close("rejected")
  /\ UNCHANGED <<auto, draft, live, approvals, run, hand, review, attempts, wrote, signals,
                 upd, call>>

\* Slip: a retry policy without MaximumAttempts.
AttemptFailsForEver(outcome) == UNCHANGED <<attempts, phase, status>>

\* An attempt failed: Temporal retries it, or the run closes on the last error.
AttemptFails(outcome) ==
  /\ attempts' = attempts + 1
  /\ IF attempts' < MaxAttempts[auto] THEN UNCHANGED <<phase, status>> ELSE Close(outcome)

\* One attempt of the publish activity through the gate.
PublishAttempt ==
  /\ phase = "publishing"
  /\ \/ /\ approvals # "approved"            \* ErrNoApproval, ErrRejected
        /\ AttemptFails("failed")
        /\ UNCHANGED <<live, wrote>>
     \/ /\ approvals = "approved"            \* written, or found already done
        /\ Close("published")
        /\ \/ live' = draft /\ wrote' = TRUE
           \/ live = draft /\ UNCHANGED <<live, wrote>>
        /\ UNCHANGED attempts
     \/ /\ approvals = "approved"            \* lost, before or after the write;
        /\ \/ live' = draft /\ wrote' = TRUE  \* a net.OpError: ErrStoreUnreachable
           \/ UNCHANGED <<live, wrote>>
        /\ \E outcome \in {"failed", "needs_human"} : AttemptFails(outcome)
  /\ UNCHANGED <<auto, draft, approvals, run, hand, review, signals, upd, call>>

-----------------------------------------------------------------------------
(* mc-api: signalProductPublishReview *)

Answer(c, answer, told) ==
  call' = [call EXCEPT ![c].pc = "answered", ![c].answer = answer, ![c].told = told]
Step(c, pc) == call' = [call EXCEPT ![c].pc = pc]

\* The request finds the workflow (an unknown id is a 404, not modelled) and
\* sends the Update; Temporal joins it to an Update of the same id in this run.
PostReview(c, d, k, named) ==
  /\ call[c].pc = "idle" /\ run > 0
  /\ call' = [call EXCEPT ![c] = [@ EXCEPT !.pc = "waiting", !.key = k, !.decision = d,
                                           !.named = named, !.run = run]]
  /\ upd' = IF Open /\ upd[run][k].state = "none"
            THEN [upd EXCEPT ![run][k] = [state |-> "sent", decision |-> d]] ELSE upd
  /\ UNCHANGED <<auto, draft, live, approvals, run, phase, status, hand, review, attempts,
                 wrote, signals>>

SameRun(c) == call[c].run = run
UpdateOf(c) == upd[call[c].run][call[c].key]
Completed(c) == UpdateOf(c).state \in {"accepted", "refused"}

\* 200: the Update was accepted.
AnswerDecided(c) ==
  /\ call[c].pc = "waiting" /\ UpdateOf(c).state = "accepted"
  /\ Answer(c, "decided", UpdateOf(c).decision)
  /\ UNCHANGED <<auto, draft, live, approvals, runVars>>

\* ReviewAlreadyDecided: the handler goes on to look up the stored decision.
LearnConflict(c) ==
  /\ call[c].pc = "waiting" /\ UpdateOf(c).state = "refused"
  /\ Step(c, "conflict")
  /\ UNCHANGED <<auto, draft, live, approvals, runVars>>

\* Slip: the caller's own decision is echoed back.
AnswerConflictGuessed(c) ==
  /\ call[c].pc = "conflict"
  /\ Answer(c, "conflict", call[c].decision)
  /\ UNCHANGED <<auto, draft, live, approvals, runVars>>

\* 409 with the decision of the approvals row; without one if there is no row.
AnswerConflict(c) ==
  /\ call[c].pc = "conflict"
  /\ Answer(c, "conflict", approvals)
  /\ UNCHANGED <<auto, draft, live, approvals, runVars>>

Gone(c) == ~SameRun(c) \/ phase = "closed"

\* The run closed with the handler under way: the Update's outcome is an error (502).
AnswerLost(c) ==
  /\ call[c].pc = "waiting" /\ Gone(c) /\ UpdateOf(c).state \in {"validated", "stuck"}
  /\ Answer(c, "bad_gateway", NoDecision)
  /\ UNCHANGED <<auto, draft, live, approvals, runVars>>

FallingBack(c) ==
  /\ call[c].pc = "waiting"
  /\ Step(c, "record")
  /\ UNCHANGED <<auto, draft, live, approvals, runVars>>

\* Slip: only an Update that never reached a run is given up.
FallBackIfUnsent(c) == FallingBack(c) /\ Gone(c) /\ UpdateOf(c).state = "none"

\* UpdateWorkflow fails: the run is not open to take the Update.
FallBack(c) == FallingBack(c) /\ Gone(c) /\ ~Completed(c)

\* UpdateWorkflow fails on the way, which does not take the Update back.
UpdateFails(c) == UpdateFaults[auto] /\ FallingBack(c)

\* The API-side row; workflowIDProductID yields a product id for "-auto" ids only,
\* for a UI id the insert fails, and its error is ignored.
FallbackRecord(c) ==
  /\ call[c].pc = "record"
  /\ IF auto THEN KeepFirst(call[c].decision) ELSE UNCHANGED approvals
  /\ Step(c, "signal")
  /\ UNCHANGED <<auto, draft, live, runVars>>

\* SignalWorkflow: to whatever run is open now, 502 if none is.
FallbackSignal(c) ==
  /\ call[c].pc = "signal"
  /\ \/ /\ Open
        /\ signals' = Append(signals, [decision |-> call[c].decision,
                                       named |-> call[c].named])
        /\ Answer(c, "signaled", NoDecision)
     \/ /\ ~Open
        /\ Answer(c, "bad_gateway", NoDecision)
        /\ UNCHANGED signals
  /\ UNCHANGED <<auto, draft, live, approvals, run, phase, status, hand, review, attempts,
                 wrote, upd>>

-----------------------------------------------------------------------------

RunStep ==
  \/ CheckCompliance \/ ValidateMedia \/ TakeSignal \/ RecordDecision
  \/ ActOnDecision \/ PublishAttempt

UpdateStep == \E k \in Key : RejectUnknown(k) \/ ValidateUpdate(k) \/ HandleUpdate(k)

CallStep(c) ==
  \/ AnswerDecided(c) \/ LearnConflict(c) \/ AnswerConflict(c) \/ AnswerLost(c)
  \/ FallBack(c) \/ FallbackRecord(c) \/ FallbackSignal(c)

Next ==
  \/ EditProduct \/ StartRun \/ StopRun \/ RunStep \/ UpdateStep
  \/ \E c \in Call :
       \/ \E d \in Decision, k \in KeysOf[c], named \in BOOLEAN : PostReview(c, d, k, named)
       \/ CallStep(c) \/ UpdateFails(c)

Spec == Init /\ [][Next]_vars

\* Temporal keeps scheduling an open run's next activity and its Updates, and the
\* API's handler runs on.  Nobody has to post a review, and a run may wait for one
\* for ever.
Fairness ==
  /\ WF_vars(RunStep) /\ WF_vars(UpdateStep)
  /\ \A c \in Call : WF_vars(CallStep(c))

FairSpec == Spec /\ Fairness

-----------------------------------------------------------------------------
(* Properties *)

\* Every variable stays in the domain its Go field or SQL column has.
TypeOK ==
  /\ auto \in Ids /\ draft \in 1..MaxRevision[auto] /\ live \in 0..MaxRevision[auto]
  /\ approvals \in MaybeDecision
  /\ run \in 0..MaxRuns /\ phase \in Phases /\ status \in Statuses
  /\ hand \in [decision : MaybeDecision, named : BOOLEAN, updated : BOOLEAN]
  /\ review \in MaybeDecision /\ attempts \in 0..MaxAttempts[auto] /\ wrote \in BOOLEAN
  /\ signals \in Seq([decision : Decision, named : BOOLEAN])
  /\ upd \in [1..MaxRuns -> [Key -> [state : UpdateStates, decision : MaybeDecision]]]
  /\ call \in [Call -> [pc : CallPC, key : Key, decision : MaybeDecision,
                        named : BOOLEAN, run : 0..MaxRuns, answer : Answers,
                        told : MaybeDecision]]

Told(c, answer) == call[c].answer = answer /\ SameRun(c)

\* A 200 is final: the decision a caller was told is the one the run goes by,
\* however many Updates were validated together, retried under one key or raced a
\* signal (reviewUpdateHandler: "exactly one decision per workflow").
DecidedIsKept ==
  \A c \in Call : Told(c, "decided") => review = call[c].told

\* A UI id whose reviews all go through Updates: what the two properties below need.
\* An "-auto" id keeps the row of an earlier run, and a request that falls back to the
\* signal stores a decision the run may never take (README, section Disagreements).
UpdatesOnly == ~auto /\ ~UpdateFaults[auto]

\* A 409 that names a decision names the run's ("carrying the STORED decision").
ConflictTellsDecision ==
  UpdatesOnly => \A c \in Call :
    Told(c, "conflict") /\ call[c].told # NoDecision => call[c].told = review

\* "The decision is recorded durably BEFORE any publish attempt" (D3): when a run
\* publishes, the row the gate will read is there and says what the reviewer said.
GateSeesDecision ==
  UpdatesOnly /\ phase = "publishing" => approvals = review

\* The gate's listing again, now with the reviewers: the id is decided once and
\* only an approved id changes what the store sells.
Revisions == UNION {1..MaxRevision[a] : a \in Ids}
Listing == INSTANCE GatedListing
             WITH Workflow <- {"this"}, Content <- Revisions, InitialStore <- <<>>,
                  decision <- [w \in {"this"} |-> approvals],
                  listing <- IF live = 0 THEN <<>> ELSE <<live>>, mishap <- FALSE
ListingSpec == Listing!Spec

\* "Product title must be present before publish" (compliance/engine.go), and so
\* for every rule the two checks apply: what is sold passed them.
PublishedIsCompliant == live # 0 => live \in Compliant

\* "Zero store requests left the worker ... no write happened" (product_publish.go
\* on needs_human).
NeedsHumanMeansUnwritten == status = "needs_human" => ~wrote

\* Every posted review is answered in the end, also when its Update is stuck in a
\* handler nobody reads from: the run closes and the answer is a 502.
EveryCallAnswered ==
  \A c \in Call : (call[c].pc = "waiting") ~> (call[c].pc = "answered")

\* A decision is acted upon: a run that took one closes with an outcome.
DecisionTakesEffect == (review # NoDecision) ~> (phase = "closed")

=============================================================================

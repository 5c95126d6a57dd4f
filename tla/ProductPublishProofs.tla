------------------------ MODULE ProductPublishProofs ------------------------
(* Theorems about ProductPublish, for any number of requests, keys, runs,     *)
(* revisions and attempts: an answer that names a decision is true of the run, *)
(* a run that goes by Updates has its row before it publishes, and the whole   *)
(* is a listing that only an approved id changes.                             *)
EXTENDS ProductPublish, TLAPS

CallRow == [pc : CallPC, key : Key, decision : MaybeDecision, named : BOOLEAN,
            run : 0..MaxRuns, answer : Answers, told : MaybeDecision]
UpdRow == [state : UpdateStates, decision : MaybeDecision]

\* TypeOK, by what disturbs its parts.
IdTypes == auto \in Ids /\ approvals \in MaybeDecision /\ wrote \in BOOLEAN
ProductTypes == draft \in 1..MaxRevision[auto] /\ live \in 0..MaxRevision[auto]
PhaseTypes == run \in 0..MaxRuns /\ phase \in Phases /\ status \in Statuses
ReviewTypes ==
  /\ hand \in [decision : MaybeDecision, named : BOOLEAN, updated : BOOLEAN]
  /\ review \in MaybeDecision
SignalTypes == signals \in Seq([decision : Decision, named : BOOLEAN])
UpdateTypes == upd \in [1..MaxRuns -> [Key -> UpdRow]]
CallTypes == call \in [Call -> CallRow]

\* A run that is not closed has an attempt left.
AttemptsLeft ==
  /\ attempts \in 0..MaxAttempts[auto]
  /\ phase # "closed" => attempts < MaxAttempts[auto]

\* Runs are counted; what is posted is of one of them, and of none to come.
RunsAreCounted ==
  /\ run = 0 <=> phase = "none"
  /\ ~auto => run <= 1
  /\ \A c \in Call : /\ call[c].run <= run
                     /\ call[c].pc # "idle" => call[c].run > 0 /\ call[c].decision \in Decision
                     /\ call[c].pc = "idle" => call[c].run = 0 /\ call[c].answer = "none"
  /\ \A r \in 1..MaxRuns, k \in Key : r > run => upd[r][k].state = "none"

\* Before its review a run has no decision, and afterwards the one it took stays.
Reviewed == phase \notin {"none", "compliance", "media", "review"}

AcceptedIsReview ==
  \A k \in Key :
    run > 0 /\ upd[run][k].state = "accepted" => Reviewed /\ review = upd[run][k].decision

ToldIsReview == \A c \in Call : Told(c, "decided") => Reviewed /\ review = call[c].told

\* The first row is kept, so a conflict that was told stays true.
ConflictIsRow ==
  \A c \in Call :
    call[c].answer = "conflict" /\ call[c].told # NoDecision => call[c].told = approvals

\* Where all reviews go through Updates, the row follows the run's review, and a
\* request falls back only when its run is over.
RowFollows ==
  UpdatesOnly =>
    /\ approvals # NoDecision => approvals = review /\ phase \in {"decided", "publishing", "closed"}
    /\ phase \in {"decided", "publishing"} => approvals = review
    /\ signals = <<>>
    /\ \A c \in Call : call[c].pc \in {"record", "signal"} => phase = "closed"

Types ==
  /\ IdTypes /\ ProductTypes /\ PhaseTypes /\ ReviewTypes /\ SignalTypes /\ UpdateTypes
  /\ CallTypes /\ AttemptsLeft
IInv ==
  /\ Types /\ RunsAreCounted /\ AcceptedIsReview /\ ToldIsReview /\ ConflictIsRow /\ RowFollows

-----------------------------------------------------------------------------
USE DEF NoDecision, Decision, MaybeDecision, Phases, Statuses, UpdateStates, Answers, CallPC

LEMMA InitInv == Init => IInv
<1> SUFFICES ASSUME Init PROVE IInv
  OBVIOUS
<1> USE PublishAssumption DEF Init
<1>1. Undecided \in [decision : MaybeDecision, named : BOOLEAN, updated : BOOLEAN]
  BY DEF Undecided
<1>2. NoUpdate \in UpdRow /\ NoUpdate.state = "none"
  BY DEF NoUpdate, UpdRow
<1>3. (CHOOSE k \in Key : TRUE) \in Key
  OBVIOUS
<1>4. NewCall \in CallRow
  BY <1>3 DEF NewCall, CallRow
<1>5. NewCall.pc = "idle" /\ NewCall.run = 0 /\ NewCall.answer = "none"
  BY DEF NewCall
<1>6. MaxRevision[auto] \in Nat \ {0} /\ MaxAttempts[auto] \in Nat \ {0} /\ MaxRuns \in Nat
  OBVIOUS
<1>7. Types
  <2>1. ProductTypes /\ AttemptsLeft
    BY <1>6 DEF ProductTypes, AttemptsLeft
  <2>2. PhaseTypes /\ ReviewTypes /\ SignalTypes
    BY <1>1, <1>6 DEF PhaseTypes, ReviewTypes, SignalTypes
  <2>3. UpdateTypes
    BY <1>2 DEF UpdateTypes
  <2>4. CallTypes /\ IdTypes
    BY <1>4 DEF CallTypes, IdTypes
  <2> QED BY <2>1, <2>2, <2>3, <2>4 DEF Types
<1>8. RunsAreCounted
  BY <1>2, <1>5 DEF RunsAreCounted
<1>9. AcceptedIsReview /\ ToldIsReview /\ ConflictIsRow /\ RowFollows
  BY <1>5 DEF AcceptedIsReview, ToldIsReview, Told, ConflictIsRow, RowFollows
<1> QED BY <1>7, <1>8, <1>9 DEF IInv

-----------------------------------------------------------------------------
(* The steps of the run *)

\* The run's own steps that change neither review nor row nor what is posted.
LEMMA PhaseSteps ==
  ASSUME IInv, CheckCompliance \/ ValidateMedia \/ StopRun \/ ActOnDecision
  PROVE  IInv'
<1> USE DEF CheckCompliance, ValidateMedia, StopRun, ActOnDecision, Close, Open
<1>1. Types'
  BY DEF IInv, Types, IdTypes, ProductTypes, PhaseTypes, ReviewTypes, SignalTypes, UpdateTypes,
     CallTypes, AttemptsLeft
<1>2. RunsAreCounted'
  BY DEF IInv, RunsAreCounted
<1>3. (AcceptedIsReview /\ ToldIsReview /\ ConflictIsRow)'
  BY DEF IInv, AcceptedIsReview, ToldIsReview, Told, SameRun, ConflictIsRow, Reviewed
<1>4. RowFollows'
  BY DEF IInv, RowFollows, UpdatesOnly
<1> QED BY <1>1, <1>2, <1>3, <1>4 DEF IInv

LEMMA EditInv == ASSUME IInv, EditProduct PROVE IInv'
<1> USE PublishAssumption DEF EditProduct, runVars
<1>1. Types'
  <2>1. MaxRevision[auto] \in Nat \ {0}
    BY DEF IInv, Types, IdTypes
  <2> QED BY <2>1 DEF IInv, Types, IdTypes, ProductTypes, PhaseTypes, ReviewTypes, SignalTypes,
          UpdateTypes, CallTypes, AttemptsLeft
<1>2. (RunsAreCounted /\ AcceptedIsReview /\ ToldIsReview /\ ConflictIsRow /\ RowFollows)'
  BY DEF IInv, RunsAreCounted, AcceptedIsReview, ToldIsReview, Told, SameRun, ConflictIsRow, Reviewed,
     RowFollows, UpdatesOnly
<1> QED BY <1>1, <1>2 DEF IInv

\* A new run has posted nothing, and what was told of earlier ones is not of it.
LEMMA StartInv == ASSUME IInv, StartRun PROVE IInv'
<1> USE PublishAssumption DEF StartRun, Open
<1>1. run \in 0..MaxRuns /\ run' = run + 1 /\ run' \in 1..MaxRuns
  BY DEF IInv, Types, PhaseTypes
<1>2. Types'
  <2>1. auto \in BOOLEAN /\ MaxAttempts[auto] \in Nat \ {0}
    BY DEF IInv, Types, IdTypes
  <2>2. (IdTypes /\ ProductTypes /\ UpdateTypes /\ CallTypes)'
    BY DEF IInv, Types, IdTypes, ProductTypes, UpdateTypes, CallTypes
  <2>3. (PhaseTypes /\ SignalTypes)'
    BY <1>1 DEF PhaseTypes, SignalTypes
  <2>4. ReviewTypes'
    BY DEF ReviewTypes, Undecided
  <2>5. AttemptsLeft'
    BY <2>1 DEF AttemptsLeft
  <2> QED BY <2>2, <2>3, <2>4, <2>5 DEF Types
<1>3. RunsAreCounted'
  BY <1>1 DEF IInv, RunsAreCounted, Types, CallTypes, CallRow
<1>4. \A c \in Call : call[c].run # run'
  BY <1>1 DEF IInv, RunsAreCounted, Types, CallTypes, CallRow
<1>5. (AcceptedIsReview /\ ToldIsReview /\ ConflictIsRow)'
  <2>1. \A k \in Key : upd[run'][k].state = "none"
    BY <1>1 DEF IInv, RunsAreCounted
  <2> QED BY <1>4, <2>1 DEF IInv, AcceptedIsReview, ToldIsReview, Told, SameRun, ConflictIsRow
<1>6. RowFollows'
  <2> SUFFICES ASSUME UpdatesOnly PROVE RowFollows'
    BY DEF RowFollows, UpdatesOnly
  <2>1. run = 0 /\ phase = "none"
    BY <1>1 DEF UpdatesOnly, IInv, RunsAreCounted
  <2>2. \A c \in Call : call[c].pc = "idle"
    BY <1>1, <2>1 DEF IInv, RunsAreCounted, Types, CallTypes, CallRow
  <2> QED BY <2>1, <2>2 DEF IInv, RowFollows
<1> QED BY <1>2, <1>3, <1>5, <1>6 DEF IInv

LEMMA TakeSignalInv == ASSUME IInv, TakeSignal PROVE IInv'
<1> USE DEF TakeSignal
<1>1. /\ Head(signals) \in [decision : Decision, named : BOOLEAN]
      /\ Tail(signals) \in Seq([decision : Decision, named : BOOLEAN])
  <2> DEFINE S == [decision : Decision, named : BOOLEAN]
  <2>1. signals \in Seq(S) /\ signals # <<>>
    BY DEF IInv, Types, SignalTypes
  <2> HIDE DEF S
  <2>2. Head(signals) \in S /\ Tail(signals) \in Seq(S)
    BY <2>1
  <2> QED BY <2>2 DEF S
<1>2. Types'
  BY <1>1 DEF IInv, Types, IdTypes, ProductTypes, PhaseTypes, ReviewTypes, SignalTypes, UpdateTypes,
     CallTypes, AttemptsLeft
<1>3. (RunsAreCounted /\ AcceptedIsReview /\ ToldIsReview /\ ConflictIsRow)'
  BY DEF IInv, RunsAreCounted, AcceptedIsReview, ToldIsReview, Told, SameRun, ConflictIsRow, Reviewed
<1>4. RowFollows'
  BY DEF IInv, RowFollows, UpdatesOnly
<1> QED BY <1>2, <1>3, <1>4 DEF IInv

\* The row is that of the review, if it was not there before.
LEMMA RecordInv == ASSUME IInv, RecordDecision PROVE IInv'
<1> USE DEF RecordDecision, KeepFirst
<1>1. Types'
  BY DEF IInv, Types, IdTypes, ProductTypes, PhaseTypes, ReviewTypes, SignalTypes, UpdateTypes,
     CallTypes, AttemptsLeft
<1>2. (RunsAreCounted /\ AcceptedIsReview /\ ToldIsReview)'
  BY DEF IInv, RunsAreCounted, AcceptedIsReview, ToldIsReview, Told, SameRun, Reviewed
<1>3. ConflictIsRow'
  BY DEF IInv, ConflictIsRow
<1>4. RowFollows'
  BY DEF IInv, RowFollows, UpdatesOnly
<1> QED BY <1>1, <1>2, <1>3, <1>4 DEF IInv

LEMMA PublishInv == ASSUME IInv, PublishAttempt PROVE IInv'
<1> USE DEF PublishAttempt, AttemptFails, Close
<1>1. ProductTypes'
  BY PublishAssumption DEF IInv, Types, IdTypes, ProductTypes
<1>2. AttemptsLeft'
  <2>1. MaxAttempts[auto] \in Nat \ {0}
    BY PublishAssumption DEF IInv, Types, IdTypes
  <2>2. attempts \in Nat /\ attempts < MaxAttempts[auto]
    BY <2>1 DEF IInv, Types, AttemptsLeft
  <2>3. \/ attempts' = attempts
        \/ attempts' = attempts + 1 /\ (attempts' < MaxAttempts[auto] \/ phase' = "closed")
    OBVIOUS
  <2> QED BY <2>1, <2>2, <2>3 DEF AttemptsLeft
<1>3. Types'
  <2>1. IdTypes'
    BY DEF IInv, Types, IdTypes
  <2> QED BY <1>1, <1>2, <2>1 DEF IInv, Types, PhaseTypes, ReviewTypes, SignalTypes, UpdateTypes, CallTypes
<1>4. (RunsAreCounted /\ AcceptedIsReview /\ ToldIsReview /\ ConflictIsRow)'
  BY DEF IInv, RunsAreCounted, AcceptedIsReview, ToldIsReview, Told, SameRun, ConflictIsRow, Reviewed
<1>5. RowFollows'
  BY DEF IInv, RowFollows, UpdatesOnly
<1> QED BY <1>3, <1>4, <1>5 DEF IInv

-----------------------------------------------------------------------------
(* The steps of the Updates *)

\* An Update of the run changes its state and nothing else.
LEMMA DeliverFacts ==
  ASSUME IInv, phase # "none", NEW k \in Key, NEW st \in UpdateStates, Deliver(k, st)
  PROVE  /\ UpdateTypes' /\ run \in 1..MaxRuns
         /\ \A r \in 1..MaxRuns, j \in Key :
              /\ upd'[r][j].decision = upd[r][j].decision
              /\ upd'[r][j].state = IF r = run /\ j = k THEN st ELSE upd[r][j].state
<1>1. run \in 1..MaxRuns
  BY PublishAssumption DEF IInv, Types, PhaseTypes, RunsAreCounted
<1>2. upd \in [1..MaxRuns -> [Key -> UpdRow]]
  BY DEF IInv, Types, UpdateTypes
<1>3. upd' = [upd EXCEPT ![run] = [upd[run] EXCEPT ![k] = [upd[run][k] EXCEPT !.state = st]]]
  BY DEF Deliver
<1>4. upd[run][k] \in UpdRow
  BY <1>1, <1>2
<1> DEFINE row == [upd[run][k] EXCEPT !.state = st]
<1>5. row \in UpdRow /\ row.state = st /\ row.decision = upd[run][k].decision
  BY <1>4 DEF UpdRow
<1> HIDE DEF row
<1>6. upd' = [upd EXCEPT ![run] = [upd[run] EXCEPT ![k] = row]]
  BY <1>3 DEF row
<1> QED BY <1>1, <1>2, <1>5, <1>6 DEF UpdateTypes

LEMMA ValidateInv == ASSUME IInv, NEW k \in Key, ValidateUpdate(k) PROVE IInv'
<1> USE DEF ValidateUpdate
<1>1. PICK st \in {"refused", "validated"} : Deliver(k, st)
  OBVIOUS
<1>2. phase # "none" /\ st \in UpdateStates
  OBVIOUS
<1>3. Types'
  BY <1>1, <1>2, DeliverFacts DEF IInv, Types, IdTypes, ProductTypes, PhaseTypes, ReviewTypes,
     SignalTypes, CallTypes, AttemptsLeft
<1>4. RunsAreCounted'
  BY <1>1, <1>2, DeliverFacts DEF IInv, RunsAreCounted
<1>5. (AcceptedIsReview /\ ToldIsReview /\ ConflictIsRow)'
  BY <1>1, <1>2, DeliverFacts
     DEF IInv, AcceptedIsReview, ToldIsReview, Told, SameRun, ConflictIsRow, Reviewed
<1>6. RowFollows'
  BY DEF IInv, RowFollows, UpdatesOnly
<1> QED BY <1>3, <1>4, <1>5, <1>6 DEF IInv

\* An Update that comes too early is nobody's any more, and its requests are answered.
LEMMA RejectInv == ASSUME IInv, NEW k \in Key, RejectUnknown(k) PROVE IInv'
<1> DEFINE row(c) == [call[c] EXCEPT !.pc = "answered", !.answer = "bad_gateway"]
           Waits(c) == call[c].pc = "waiting" /\ call[c].run = run /\ call[c].key = k
<1>1. /\ Deliver(k, "none") /\ phase # "none" /\ "none" \in UpdateStates
      /\ UNCHANGED <<auto, draft, live, approvals, run, phase, status, hand, review, attempts,
                     wrote, signals>>
  BY DEF RejectUnknown
<1>2. call' = [c \in Call |-> IF Waits(c) THEN row(c) ELSE call[c]]
  BY DEF RejectUnknown
<1>3. \A c \in Call :
        /\ call[c] \in CallRow /\ row(c) \in CallRow
        /\ row(c).pc = "answered" /\ row(c).answer = "bad_gateway"
        /\ row(c).run = call[c].run /\ row(c).decision = call[c].decision
  <2> SUFFICES ASSUME NEW c \in Call
               PROVE  /\ call[c] \in CallRow /\ row(c) \in CallRow
                      /\ row(c).pc = "answered" /\ row(c).answer = "bad_gateway"
                      /\ row(c).run = call[c].run /\ row(c).decision = call[c].decision
    OBVIOUS
  <2>1. call[c] \in CallRow
    BY DEF IInv, Types, CallTypes
  <2> QED BY <2>1 DEF CallRow
<1> HIDE DEF row
<1>4. CallTypes'
  BY <1>2, <1>3 DEF CallTypes
<1>5. \A c \in Call :
        \/ call'[c] = call[c]
        \/ /\ call[c].pc = "waiting"
           /\ call'[c].pc = "answered" /\ call'[c].answer = "bad_gateway"
           /\ call'[c].run = call[c].run /\ call'[c].decision = call[c].decision
  BY <1>2, <1>3
<1>6. Types'
  <2>1. UpdateTypes'
    BY <1>1, DeliverFacts
  <2>2. (IdTypes /\ ProductTypes /\ PhaseTypes /\ ReviewTypes /\ SignalTypes /\ AttemptsLeft)'
    BY <1>1 DEF IInv, Types, IdTypes, ProductTypes, PhaseTypes, ReviewTypes, SignalTypes,
       AttemptsLeft
  <2> QED BY <1>4, <2>1, <2>2 DEF Types
<1>7. RunsAreCounted'
  <2>1. \A r \in 1..MaxRuns, j \in Key : r > run => upd'[r][j].state = "none"
    BY <1>1, DeliverFacts DEF IInv, RunsAreCounted
  <2> QED BY <1>1, <1>5, <2>1 DEF IInv, RunsAreCounted
<1>8. AcceptedIsReview'
  BY <1>1, DeliverFacts DEF IInv, AcceptedIsReview, Reviewed
<1>9. (ToldIsReview /\ ConflictIsRow)'
  BY <1>1, <1>5 DEF IInv, ToldIsReview, Told, SameRun, ConflictIsRow, Reviewed
<1>10. RowFollows'
  BY <1>1, <1>5 DEF IInv, RowFollows, UpdatesOnly
<1> QED BY <1>6, <1>7, <1>8, <1>9, <1>10 DEF IInv

\* Only a run that waits for its review accepts an Update, and then waits no more.
LEMMA HandleInv == ASSUME IInv, NEW k \in Key, HandleUpdate(k) PROVE IInv'
<1> USE DEF HandleUpdate, Open
<1>1. PICK st \in {"refused", "accepted", "stuck"} : Deliver(k, st)
  OBVIOUS
<1>2. phase # "none" /\ st \in UpdateStates
  OBVIOUS
<1>3. upd[run][k].decision \in MaybeDecision
  BY <1>1, <1>2, DeliverFacts DEF IInv, Types, UpdateTypes, UpdRow
<1>4. \/ /\ st = "accepted" /\ phase = "review" /\ phase' = "recording"
         /\ review' = upd[run][k].decision
      \/ st # "accepted" /\ UNCHANGED <<review, phase>>
  <2>1. upd'[run][k].state = st
    BY <1>1, <1>2, DeliverFacts
  <2>2. \/ Deliver(k, "refused") /\ UNCHANGED <<review, phase>>
        \/ /\ Deliver(k, "accepted") /\ phase = "review" /\ phase' = "recording"
           /\ review' = upd[run][k].decision
        \/ Deliver(k, "stuck") /\ UNCHANGED <<review, phase>>
    OBVIOUS
  <2>3. \A t \in UpdateStates : Deliver(k, t) => upd'[run][k].state = t
    BY <1>2, DeliverFacts
  <2> QED BY <2>1, <2>2, <2>3
<1>5. Types'
  <2>1. ReviewTypes'
    <3>1. \/ hand' = hand
          \/ hand' = [decision |-> upd[run][k].decision, named |-> TRUE, updated |-> TRUE]
      OBVIOUS
    <3>2. hand' \in [decision : MaybeDecision, named : BOOLEAN, updated : BOOLEAN]
      <4>1. CASE hand' = hand
        BY <4>1 DEF IInv, Types, ReviewTypes
      <4>2. CASE hand' = [decision |-> upd[run][k].decision, named |-> TRUE, updated |-> TRUE]
        BY ONLY <1>3, <4>2
      <4> QED BY <3>1, <4>1, <4>2
    <3>3. review' \in MaybeDecision
      BY <1>3, <1>4 DEF IInv, Types, ReviewTypes
    <3> QED BY <3>2, <3>3 DEF ReviewTypes
  <2>2. UpdateTypes'
    BY <1>1, <1>2, DeliverFacts
  <2>3. PhaseTypes' /\ AttemptsLeft'
    BY <1>4 DEF IInv, Types, PhaseTypes, AttemptsLeft
  <2> QED BY <2>1, <2>2, <2>3 DEF IInv, Types, IdTypes, ProductTypes, SignalTypes, CallTypes
<1>6. RunsAreCounted'
  <2>1. \A r \in 1..MaxRuns, j \in Key : r > run => upd'[r][j].state = "none"
    BY <1>1, <1>2, DeliverFacts DEF IInv, RunsAreCounted
  <2>2. run = 0 <=> phase' = "none"
    BY <1>4 DEF IInv, RunsAreCounted
  <2> QED BY <2>1, <2>2 DEF IInv, RunsAreCounted
<1>7. AcceptedIsReview'
  BY <1>1, <1>2, <1>4, DeliverFacts DEF IInv, AcceptedIsReview, Reviewed
<1>8. (ToldIsReview /\ ConflictIsRow)'
  BY <1>4 DEF IInv, ToldIsReview, Told, SameRun, ConflictIsRow, Reviewed
<1>9. RowFollows'
  BY <1>4 DEF IInv, RowFollows, UpdatesOnly
<1> QED BY <1>5, <1>6, <1>7, <1>8, <1>9 DEF IInv

-----------------------------------------------------------------------------
(* The steps of the requests *)

\* A request goes on to its next step; what it was told and the others stay.
LEMMA StepFacts ==
  ASSUME IInv, NEW c \in Call, NEW pc \in CallPC, Step(c, pc)
  PROVE  /\ CallTypes'
         /\ \A d \in Call \ {c} : call'[d] = call[d]
         /\ call'[c].run = call[c].run /\ call'[c].decision = call[c].decision
         /\ call'[c].pc = pc
         /\ call'[c].answer = call[c].answer /\ call'[c].told = call[c].told
<1> DEFINE row == [call[c] EXCEPT !.pc = pc]
<1>1. call \in [Call -> CallRow] /\ call[c] \in CallRow
  BY DEF IInv, Types, CallTypes
<1>2. row \in CallRow
  BY <1>1 DEF CallRow
<1>3. /\ row.run = call[c].run /\ row.decision = call[c].decision /\ row.pc = pc
      /\ row.answer = call[c].answer /\ row.told = call[c].told
  BY <1>1 DEF CallRow
<1>4. call' = [call EXCEPT ![c] = row]
  BY DEF Step
<1> HIDE DEF row
<1> QED BY <1>1, <1>2, <1>3, <1>4 DEF CallTypes

\* A request is answered.
LEMMA AnswerFacts ==
  ASSUME IInv, NEW c \in Call, NEW a \in Answers, NEW t \in MaybeDecision, Answer(c, a, t)
  PROVE  /\ CallTypes'
         /\ \A d \in Call \ {c} : call'[d] = call[d]
         /\ call'[c].run = call[c].run /\ call'[c].decision = call[c].decision
         /\ call'[c].pc = "answered" /\ call'[c].answer = a /\ call'[c].told = t
<1> DEFINE row == [call[c] EXCEPT !.pc = "answered", !.answer = a, !.told = t]
<1>1. call \in [Call -> CallRow] /\ call[c] \in CallRow
  BY DEF IInv, Types, CallTypes
<1>2. row \in CallRow
  BY <1>1 DEF CallRow
<1>3. /\ row.run = call[c].run /\ row.decision = call[c].decision
      /\ row.pc = "answered" /\ row.answer = a /\ row.told = t
  BY <1>1 DEF CallRow
<1>4. call' = [call EXCEPT ![c] = row]
  BY <1>1 DEF Answer
<1> HIDE DEF row
<1> QED BY <1>1, <1>2, <1>3, <1>4 DEF CallTypes

\* The requests that go on, falling back or to a conflict, are told nothing yet.
LEMMA GoOnInv ==
  ASSUME IInv, NEW c \in Call, LearnConflict(c) \/ FallBack(c) \/ UpdateFails(c)
  PROVE  IInv'
<1> USE DEF LearnConflict, FallBack, UpdateFails, FallingBack, runVars
<1>1. PICK pc \in {"conflict", "record"} : Step(c, pc) /\ (pc = "record" => ~LearnConflict(c))
  BY DEF Step
<1>2. pc \in CallPC
  OBVIOUS
<1>3. Types'
  BY <1>1, <1>2, StepFacts DEF IInv, Types, IdTypes, ProductTypes, PhaseTypes, ReviewTypes,
     SignalTypes, UpdateTypes, AttemptsLeft
<1>4. RunsAreCounted'
  BY <1>1, <1>2, StepFacts DEF IInv, RunsAreCounted
<1>5. (AcceptedIsReview /\ ToldIsReview /\ ConflictIsRow)'
  BY <1>1, <1>2, StepFacts
     DEF IInv, AcceptedIsReview, ToldIsReview, Told, SameRun, ConflictIsRow, Reviewed
<1>6. RowFollows'
  <2> SUFFICES ASSUME UpdatesOnly PROVE RowFollows'
    BY DEF RowFollows, UpdatesOnly
  <2>1. call[c].pc = "waiting" => call[c].run = run
    BY DEF UpdatesOnly, IInv, RunsAreCounted, Types, PhaseTypes, CallTypes, CallRow
  <2>2. pc = "record" => phase = "closed"
    BY <1>1, <2>1 DEF UpdatesOnly, Gone, SameRun
  <2> QED BY <1>1, <1>2, <2>2, StepFacts DEF IInv, RowFollows, UpdatesOnly
<1> QED BY <1>3, <1>4, <1>5, <1>6 DEF IInv

\* An answer says what the run's Update, or the row, says.
LEMMA AnswerInv ==
  ASSUME IInv, NEW c \in Call, AnswerDecided(c) \/ AnswerConflict(c) \/ AnswerLost(c)
  PROVE  IInv'
<1> USE DEF AnswerDecided, AnswerConflict, AnswerLost, runVars
<1>1. call[c].run \in 1..MaxRuns /\ call[c].key \in Key
  BY PublishAssumption DEF IInv, RunsAreCounted, Types, CallTypes, CallRow
<1>2. upd[call[c].run][call[c].key].decision \in MaybeDecision /\ approvals \in MaybeDecision
  BY <1>1 DEF IInv, Types, IdTypes, UpdateTypes, UpdRow
<1>3. PICK a \in {"decided", "conflict", "bad_gateway"}, t \in MaybeDecision :
        /\ Answer(c, a, t)
        /\ a = "decided" => UpdateOf(c).state = "accepted" /\ t = UpdateOf(c).decision
        /\ a = "conflict" => t = approvals
  BY <1>2 DEF UpdateOf
<1>4. a \in Answers /\ call[c].pc # "idle"
  OBVIOUS
<1>5. Types'
  BY <1>3, <1>4, AnswerFacts DEF IInv, Types, IdTypes, ProductTypes, PhaseTypes, ReviewTypes,
     SignalTypes, UpdateTypes, AttemptsLeft
<1>6. RunsAreCounted'
  BY <1>3, <1>4, AnswerFacts DEF IInv, RunsAreCounted
<1>7. AcceptedIsReview'
  BY DEF IInv, AcceptedIsReview, Reviewed
<1>8. ToldIsReview'
  <2>1. a = "decided" /\ call[c].run = run => Reviewed /\ review = t
    BY <1>1, <1>3 DEF IInv, AcceptedIsReview, UpdateOf
  <2> QED BY <1>3, <1>4, <2>1, AnswerFacts DEF IInv, ToldIsReview, Told, SameRun, Reviewed
<1>9. ConflictIsRow'
  BY <1>3, <1>4, AnswerFacts DEF IInv, ConflictIsRow
<1>10. RowFollows'
  BY <1>3, <1>4, AnswerFacts DEF IInv, RowFollows, UpdatesOnly
<1> QED BY <1>5, <1>6, <1>7, <1>8, <1>9, <1>10 DEF IInv

\* The row of a request that falls back, which a UI id never gets.
LEMMA FallbackRecordInv == ASSUME IInv, NEW c \in Call, FallbackRecord(c) PROVE IInv'
<1> USE DEF FallbackRecord, KeepFirst, runVars
<1>1. Step(c, "signal") /\ "signal" \in CallPC
  OBVIOUS
<1>2. /\ approvals' \in MaybeDecision
      /\ approvals # NoDecision => approvals' = approvals
      /\ ~auto => approvals' = approvals
  BY DEF IInv, Types, IdTypes, CallTypes, CallRow
<1>3. Types'
  <2>1. IdTypes'
    BY <1>2 DEF IInv, Types, IdTypes
  <2> QED BY <1>1, <2>1, StepFacts DEF IInv, Types, ProductTypes, PhaseTypes, ReviewTypes,
          SignalTypes, UpdateTypes, AttemptsLeft
<1>4. RunsAreCounted'
  BY <1>1, StepFacts DEF IInv, RunsAreCounted
<1>5. (AcceptedIsReview /\ ToldIsReview)'
  BY <1>1, StepFacts DEF IInv, AcceptedIsReview, ToldIsReview, Told, SameRun, Reviewed
<1>6. ConflictIsRow'
  BY <1>1, <1>2, StepFacts DEF IInv, ConflictIsRow
<1>7. RowFollows'
  BY <1>1, <1>2, StepFacts DEF IInv, RowFollows, UpdatesOnly
<1> QED BY <1>3, <1>4, <1>5, <1>6, <1>7 DEF IInv

LEMMA FallbackSignalInv == ASSUME IInv, NEW c \in Call, FallbackSignal(c) PROVE IInv'
<1> USE DEF FallbackSignal
<1>1. PICK a \in {"signaled", "bad_gateway"} : Answer(c, a, NoDecision)
  OBVIOUS
<1>2. a \in Answers /\ NoDecision \in MaybeDecision
  OBVIOUS
<1>3. SignalTypes'
  <2> DEFINE S == [decision : Decision, named : BOOLEAN]
             row == [decision |-> call[c].decision, named |-> call[c].named]
  <2>1. call[c].decision \in Decision /\ call[c].named \in BOOLEAN
    BY DEF IInv, RunsAreCounted, Types, CallTypes, CallRow
  <2>2. signals \in Seq(S) /\ row \in S
    BY <2>1 DEF IInv, Types, SignalTypes
  <2>3. signals' = signals \/ signals' = Append(signals, row)
    OBVIOUS
  <2> HIDE DEF S, row
  <2>4. signals' \in Seq(S)
    BY <2>2, <2>3
  <2> QED BY <2>4 DEF S, SignalTypes
<1>4. Types'
  BY <1>1, <1>2, <1>3, AnswerFacts DEF IInv, Types, IdTypes, ProductTypes, PhaseTypes, ReviewTypes,
     UpdateTypes, AttemptsLeft
<1>5. RunsAreCounted'
  BY <1>1, <1>2, AnswerFacts DEF IInv, RunsAreCounted
<1>6. (AcceptedIsReview /\ ToldIsReview /\ ConflictIsRow)'
  BY <1>1, <1>2, AnswerFacts
     DEF IInv, AcceptedIsReview, ToldIsReview, Told, SameRun, ConflictIsRow, Reviewed
<1>7. RowFollows'
  BY <1>1, <1>2, AnswerFacts DEF IInv, RowFollows, UpdatesOnly, Open
<1> QED BY <1>4, <1>5, <1>6, <1>7 DEF IInv

\* A request is posted, and its Update sent if the run is open.
LEMMA PostInv ==
  ASSUME IInv, NEW c \in Call, NEW d \in Decision, NEW k \in KeysOf[c], NEW named \in BOOLEAN,
         PostReview(c, d, k, named)
  PROVE  IInv'
<1> USE DEF PostReview
<1>1. k \in Key /\ run \in 1..MaxRuns
  BY PublishAssumption DEF IInv, Types, PhaseTypes
<1> DEFINE row == [call[c] EXCEPT !.pc = "waiting", !.key = k, !.decision = d, !.named = named,
                                  !.run = run]
<1>2. call \in [Call -> CallRow] /\ call' = [call EXCEPT ![c] = row]
  BY DEF IInv, Types, CallTypes
<1>3. /\ row \in CallRow /\ row.pc = "waiting" /\ row.run = run /\ row.decision = d
      /\ row.answer = call[c].answer /\ row.told = call[c].told
  <2> DEFINE unnamed == [call[c] EXCEPT !.pc = "waiting", !.key = k, !.decision = d, !.run = run]
  <2>1. call[c] \in CallRow /\ run \in 0..MaxRuns /\ d \in MaybeDecision
    BY <1>1, <1>2
  <2>2. /\ unnamed \in CallRow /\ unnamed.pc = "waiting" /\ unnamed.run = run
        /\ unnamed.decision = d /\ unnamed.answer = call[c].answer /\ unnamed.told = call[c].told
    BY <1>1, <2>1 DEF CallRow
  <2>3. row = [unnamed EXCEPT !.named = named]
    BY <2>1 DEF CallRow
  <2> HIDE DEF row, unnamed
  <2>4. row \in CallRow
    BY <2>2, <2>3 DEF CallRow
  <2> QED BY <2>2, <2>3, <2>4 DEF CallRow
<1>4. /\ UpdateTypes'
      /\ \A r \in 1..MaxRuns, j \in Key :
           upd'[r][j] = upd[r][j] \/ (r = run /\ upd'[r][j].state = "sent")
  <2>1. [state |-> "sent", decision |-> d] \in UpdRow
    BY DEF UpdRow
  <2> QED BY <1>1, <2>1 DEF IInv, Types, UpdateTypes
<1> HIDE DEF row
<1>5. CallTypes' /\ call'[c] = row /\ \A e \in Call \ {c} : call'[e] = call[e]
  BY <1>2, <1>3 DEF CallTypes
<1>6. call[c].answer = "none"
  BY DEF IInv, RunsAreCounted
<1>7. Types'
  BY <1>4, <1>5 DEF IInv, Types, IdTypes, ProductTypes, PhaseTypes, ReviewTypes, SignalTypes,
     AttemptsLeft
<1>8. RunsAreCounted'
  BY <1>1, <1>3, <1>4, <1>5 DEF IInv, RunsAreCounted
<1>9. AcceptedIsReview'
  BY <1>1, <1>4 DEF IInv, AcceptedIsReview, Reviewed
<1>10. (ToldIsReview /\ ConflictIsRow)'
  BY <1>3, <1>5, <1>6 DEF IInv, ToldIsReview, Told, SameRun, ConflictIsRow, Reviewed
<1>11. RowFollows'
  BY <1>3, <1>5 DEF IInv, RowFollows, UpdatesOnly
<1> QED BY <1>7, <1>8, <1>9, <1>10, <1>11 DEF IInv

LEMMA StepInv == ASSUME IInv, [Next]_vars PROVE IInv'
<1>1. CASE EditProduct \/ StartRun \/ StopRun
  BY <1>1, EditInv, StartInv, PhaseSteps
<1>2. CASE RunStep
  BY <1>2, PhaseSteps, TakeSignalInv, RecordInv, PublishInv DEF RunStep
<1>3. CASE UpdateStep
  BY <1>3, RejectInv, ValidateInv, HandleInv DEF UpdateStep
<1>4. ASSUME NEW c \in Call, CallStep(c) \/ UpdateFails(c) PROVE IInv'
  BY <1>4, AnswerInv, GoOnInv, FallbackRecordInv, FallbackSignalInv DEF CallStep
<1>5. ASSUME NEW c \in Call, NEW d \in Decision, NEW k \in KeysOf[c], NEW named \in BOOLEAN,
             PostReview(c, d, k, named)
      PROVE  IInv'
  BY <1>5, PostInv
<1>6. CASE UNCHANGED vars
  BY <1>6 DEF vars, IInv, Types, IdTypes, ProductTypes, PhaseTypes, ReviewTypes, SignalTypes,
     UpdateTypes, CallTypes, AttemptsLeft, RunsAreCounted, AcceptedIsReview, ToldIsReview, Told,
     SameRun, ConflictIsRow, Reviewed, RowFollows, UpdatesOnly
<1> QED BY <1>1, <1>2, <1>3, <1>4, <1>5, <1>6 DEF Next

-----------------------------------------------------------------------------
\* The invariant holds throughout: every step of a run, an Update or a request keeps it.
THEOREM Invariance == Spec => []IInv
<1> QED BY InitInv, StepInv, PTL DEF Spec

\* Runs, reviews, Updates and requests keep their types, and no run makes more
\* attempts to publish than its retry policy says.
THEOREM TypeCorrect == Spec => []TypeOK
<1>1. IInv => TypeOK
  BY DEF IInv, Types, IdTypes, ProductTypes, PhaseTypes, ReviewTypes, SignalTypes, UpdateTypes,
     CallTypes, AttemptsLeft, TypeOK, CallRow, UpdRow
<1> QED BY <1>1, Invariance, PTL

\* A caller that was answered 200 was told the decision its run goes by, whatever
\* other Updates, signals and requests there were (reviewUpdateHandler).
THEOREM ToldIsKept == Spec => []DecidedIsKept
<1>1. IInv => DecidedIsKept
  BY DEF IInv, ToldIsReview, DecidedIsKept
<1> QED BY <1>1, Invariance, PTL

\* A 409 names the decision of the run, where all reviews go through Updates.
THEOREM ConflictIsTrue == Spec => []ConflictTellsDecision
<1>1. IInv => ConflictTellsDecision
  BY DEF IInv, ConflictIsRow, RowFollows, ConflictTellsDecision, Told
<1> QED BY <1>1, Invariance, PTL

\* There, too, a run publishes only with its own decision in the gate's row.
THEOREM RowBeforePublish == Spec => []GateSeesDecision
<1>1. IInv => GateSeesDecision
  BY DEF IInv, RowFollows, GateSeesDecision
<1> QED BY <1>1, Invariance, PTL

-----------------------------------------------------------------------------
(* The abstract listing *)

Row == [w \in {"this"} |-> approvals]
OnSale == IF live = 0 THEN <<>> ELSE <<live>>

\* The row changes once, from none, and by itself.
LEMMA DecideStep ==
  ASSUME NEW d \in MaybeDecision, KeepFirst(d), live' = live
  PROVE  Listing!Decide("this") \/ UNCHANGED <<Row, OnSale>>
<1>1. OnSale' = OnSale
  BY DEF OnSale
<1>2. CASE approvals # NoDecision \/ d = NoDecision
  BY <1>1, <1>2 DEF KeepFirst, Row
<1>3. CASE approvals = NoDecision /\ d # NoDecision
  <2>1. Row["this"] = "none" /\ d \in {"approved", "rejected"} /\ Row' = [Row EXCEPT !["this"] = d]
    BY <1>3 DEF KeepFirst, Row
  <2> QED BY <1>1, <2>1 DEF Listing!Decide, Row, OnSale
<1> QED BY <1>2, <1>3

\* An attempt to publish puts the draft on sale, if the row is approved, or nothing.
LEMMA PublishStep ==
  ASSUME IInv, PublishAttempt
  PROVE  \/ draft \in Revisions /\ Listing!Publish("this", draft)
         \/ UNCHANGED <<Row, OnSale>>
<1>1. approvals' = approvals /\ Row' = Row
  BY DEF PublishAttempt, Row
<1>2. CASE live' = live
  BY <1>1, <1>2 DEF OnSale
<1>3. CASE live' # live
  <2>1. approvals = "approved" /\ live' = draft
    BY <1>3 DEF PublishAttempt
  <2>2. draft # 0 /\ draft \in Revisions
    BY PublishAssumption DEF IInv, Types, ProductTypes, IdTypes, Revisions
  <2>3. Row["this"] = "approved" /\ OnSale' = <<draft>>
    BY <2>1, <2>2 DEF Row, OnSale
  <2>4. OnSale = <<>> \/ \E i \in DOMAIN OnSale : OnSale' = [OnSale EXCEPT ![i] = draft]
    <3>1. CASE live = 0
      BY <3>1 DEF OnSale
    <3>2. CASE live # 0
      <4>1. OnSale = <<live>> /\ 1 \in DOMAIN OnSale
        BY <3>2 DEF OnSale
      <4>2. [<<live>> EXCEPT ![1] = draft] = <<draft>>
        OBVIOUS
      <4> QED BY <2>3, <4>1, <4>2
    <3> QED BY <3>1, <3>2
  <2> QED BY <1>1, <2>2, <2>3, <2>4 DEF Listing!Publish, Row, OnSale
<1> QED BY <1>2, <1>3

LEMMA ListingStep ==
  ASSUME IInv, [Next]_vars
  PROVE  [Listing!Next]_<<Row, OnSale, FALSE>>
<1>1. CASE RecordDecision \/ \E c \in Call : FallbackRecord(c) /\ auto
  <2>1. PICK d \in MaybeDecision : KeepFirst(d)
    BY <1>1 DEF RecordDecision, FallbackRecord, IInv, Types, ReviewTypes, CallTypes, CallRow
  <2>2. live' = live
    BY <1>1 DEF RecordDecision, FallbackRecord
  <2> QED BY <2>1, <2>2, DecideStep DEF Listing!Next
<1>2. CASE PublishAttempt
  BY <1>2, PublishStep DEF Listing!Next
<1>3. CASE EditProduct \/ StartRun \/ StopRun \/ UpdateStep \/ UNCHANGED vars
  BY <1>3 DEF EditProduct, StartRun, StopRun, UpdateStep, RejectUnknown, ValidateUpdate, HandleUpdate,
     vars, runVars, Row, OnSale
<1>4. CASE CheckCompliance \/ ValidateMedia \/ TakeSignal \/ ActOnDecision
  BY <1>4 DEF CheckCompliance, ValidateMedia, TakeSignal, ActOnDecision, Row, OnSale
<1>5. ASSUME NEW c \in Call, CallStep(c) \/ UpdateFails(c), ~(FallbackRecord(c) /\ auto)
      PROVE  UNCHANGED <<Row, OnSale>>
  BY <1>5 DEF CallStep, UpdateFails, AnswerDecided, LearnConflict, AnswerConflict, AnswerLost, FallBack,
     FallingBack, FallbackRecord, FallbackSignal, Row, OnSale
<1>6. ASSUME NEW c \in Call, NEW d \in Decision, NEW k \in KeysOf[c], NEW named \in BOOLEAN,
             PostReview(c, d, k, named)
      PROVE  UNCHANGED <<Row, OnSale>>
  BY <1>6 DEF PostReview, Row, OnSale
<1> QED BY <1>1, <1>2, <1>3, <1>4, <1>5, <1>6 DEF Next, RunStep

\* With the reviewers, Updates, signals and retries around it, the gate remains a
\* product that changes only under an approved row, which is written once.
THEOREM ImplementsListing == Spec => ListingSpec
<1>1. Init => Listing!Init
  BY DEF Init, Listing!Init
<1>2. IInv /\ [Next]_vars
        => [Listing!Next]_<<[w \in {"this"} |-> approvals], IF live = 0 THEN <<>> ELSE <<live>>, FALSE>>
  BY ListingStep DEF Row, OnSale
<1> QED BY <1>1, <1>2, Invariance, PTL DEF Spec, ListingSpec, Listing!Spec

=============================================================================

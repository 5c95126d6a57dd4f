--------------------------- MODULE WorkflowsProofs ---------------------------
(* Theorems about the workflows of the worker's queue.  Of the membership, for *)
(* any number of attempts, signals, periods and failures: its types, and that a *)
(* member is charged for what is due.  Of the sagas, for any executions of any   *)
(* of them: a subject is served once, a rollback is complete and a report true. *)
EXTENDS Workflows, TLAPS

\* A signal that waits, or a resume that was taken astray, was sent.
SignalsWereSent ==
  /\ \A s \in Signals : waiting[s] <= sent[s]
  /\ stray + waiting["resume"] <= sent["resume"]

\* The workflow is about to charge, or the deadline behind it obliges it to
\* once it is back at its wait.
MustCharge == at \in {"charge", "renew"} \/ (due /\ at \in {"loop", "tellPaused"})

\* Why RenewalsAreDue is kept: a charge that must come is already covered.
Covered == 1 + periods + hidden + stray
ChargesAreCovered == charges <= Covered /\ (MustCharge => charges < Covered)

\* TypeOK, by what disturbs its parts.
FlagTypes == trial \in BOOLEAN /\ paused \in BOOLEAN /\ due \in BOOLEAN
WokenTypes == woken \in Signals \cup {"timer", "none"}
PlaceTypes ==
  /\ at \in Activities \cup Waits \cup Closed /\ attempt \in 0 .. MaxAttempts - 1
  /\ state \in {"trial", "active", "paused", "cancelled", "expired"}
SignalTypes ==
  /\ waiting \in [Signals -> 0 .. MaxSignals] /\ sent \in [Signals -> 0 .. MaxSignals]
  /\ stray \in 0 .. MaxSignals
EffectTypes ==
  /\ told \in {"nothing", "trial", "active", "paused", "cancelled", "expired"}
  /\ ledger \subseteq {"record", "recordRenewal", "recordCancelled"}
  /\ charges \in Nat
CountTypes ==
  /\ periods \in 0 .. MaxPeriods /\ hidden \in 0 .. MaxTrouble /\ trouble \in 0 .. MaxTrouble
  /\ hidden <= trouble

\* The timer ends a wait only once its deadline has passed.
TimerIsDue == woken = "timer" => due

IInv ==
  /\ FlagTypes /\ WokenTypes /\ TimerIsDue /\ PlaceTypes /\ SignalTypes /\ EffectTypes /\ CountTypes
  /\ SignalsWereSent /\ ChargesAreCovered

-----------------------------------------------------------------------------
\* The activities do not depend on the trial, though where they lead does.
LEMMA ActivitiesAreFixed == Activities' = Activities
BY DEF Activities, OnOk

\* Where an activity leads, and the state it is entered with.
LEMMA OnOkLeads ==
  ASSUME NEW a \in Activities
  PROVE  OnOk[a] \in Activities \cup Waits \cup Closed
BY DEF Activities, OnOk, Waits, Closed

LEMMA StateAtIsAState ==
  ASSUME PlaceTypes, NEW a
  PROVE  StateAt(a) \in {"trial", "active", "paused", "cancelled", "expired"}
<1>1. CASE a \in {"tellActive", "tellRenewed", "tellResumed"}
  BY <1>1 DEF StateAt
<1>2. CASE a = "tellPaused" \/ a = "tellExpired" \/ a = "tellCancelled"
  BY <1>2 DEF StateAt
<1>3. CASE a \notin {"tellActive", "tellRenewed", "tellResumed", "tellPaused", "tellExpired",
                     "tellCancelled"}
  <2>1. StateAt(a) = state
    BY <1>3 DEF StateAt
  <2> QED BY <2>1 DEF PlaceTypes
<1> QED BY <1>1, <1>2, <1>3

\* Entering an activity, a wait or an end keeps the types of what it assigns.
LEMMA EnterKeepsTypes ==
  ASSUME PlaceTypes, NEW a \in Activities \cup Waits \cup Closed, Enter(a)
  PROVE  PlaceTypes'
<1>1. state' = StateAt(a) /\ at' = a /\ attempt' = 0
  BY DEF Enter
<1>2. 0 \in 0 .. MaxAttempts - 1
  BY MembershipAssumption DEF MembershipAssumption
<1>3. StateAt(a) \in {"trial", "active", "paused", "cancelled", "expired"}
  BY StateAtIsAState
<1> QED BY <1>1, <1>2, <1>3, ActivitiesAreFixed DEF PlaceTypes, Waits, Closed

\* An activity makes one charge if it is one, and none otherwise.
LEMMA EffectKeepsTypes ==
  ASSUME PlaceTypes, EffectTypes, TakesEffect
  PROVE  /\ charges' = charges + (IF at \in {"charge", "renew"} THEN 1 ELSE 0)
         /\ EffectTypes'
<1>1. charges' = charges + (IF at \in {"charge", "renew"} THEN 1 ELSE 0) /\ charges' \in Nat
  BY DEF EffectTypes, TakesEffect
<1>2. ledger' \subseteq {"record", "recordRenewal", "recordCancelled"}
  BY DEF EffectTypes, TakesEffect
<1>3. told' \in {"nothing", "trial", "active", "paused", "cancelled", "expired"}
  BY DEF EffectTypes, PlaceTypes, TakesEffect
<1> QED BY <1>1, <1>2, <1>3 DEF EffectTypes

\* A channel that gives up one signal stays a channel of signals that were sent.
LEMMA TakesKeepsTypes ==
  ASSUME SignalTypes, NEW s \in Signals, Takes(s)
  PROVE  /\ waiting' \in [Signals -> 0 .. MaxSignals]
         /\ waiting'[s] = waiting[s] - 1
         /\ \A r \in Signals \ {s} : waiting'[r] = waiting[r]
<1>1. waiting[s] \in 1 .. MaxSignals
  BY DEF SignalTypes, Takes
<1>2. waiting[s] - 1 \in 0 .. MaxSignals
  BY <1>1, MembershipAssumption DEF MembershipAssumption
<1> QED BY <1>2 DEF SignalTypes, Takes

\* A wait is ended by the timer only if its deadline had passed.
LEMMA ReadyIsDue ==
  ASSUME SignalTypes, NEW w, NEW passed
  PROVE  Ready(w, passed) \in Signals \cup {"timer", "none"} /\ (Ready(w, passed) = "timer" => passed)
<1>1. waiting["cancel"] \in Nat /\ waiting["pause"] \in Nat
  BY DEF SignalTypes, Signals
<1>2. CASE waiting["cancel"] > 0
  <2>1. Ready(w, passed) = "cancel"
    BY <1>1, <1>2 DEF Ready
  <2> QED BY <2>1 DEF Signals
<1>3. CASE waiting["cancel"] = 0 /\ w = "trialWait"
  <2>1. Ready(w, passed) = "none"
    BY <1>3 DEF Ready
  <2> QED BY <2>1
<1>4. CASE waiting["cancel"] = 0 /\ w # "trialWait" /\ waiting["pause"] > 0
  <2>1. Ready(w, passed) = "pause"
    BY <1>1, <1>4 DEF Ready
  <2> QED BY <2>1 DEF Signals
<1>5. CASE waiting["cancel"] = 0 /\ w # "trialWait" /\ waiting["pause"] = 0
  <2>1. Ready(w, passed) = IF waiting["resume"] > 0 THEN "resume" ELSE IF passed THEN "timer" ELSE "none"
    BY <1>5 DEF Ready
  <2> QED BY <2>1, Zenon DEF Signals
<1> QED BY <1>1, <1>2, <1>3, <1>4, <1>5

LEMMA CoveredIsNat ==
  /\ SignalTypes /\ CountTypes => Covered \in Nat
  /\ SignalTypes' /\ CountTypes' => Covered' \in Nat
BY DEF SignalTypes, CountTypes, Covered

\* A step that charges nothing, takes nothing from what covers the charges and
\* commits the workflow to no further charge keeps them covered.
LEMMA NoFurtherCharge ==
  ASSUME IInv, EffectTypes', SignalTypes', CountTypes',
         charges' = charges, Covered' >= Covered, MustCharge' => MustCharge
  PROVE  ChargesAreCovered'
<1>1. charges \in Nat /\ Covered \in Nat /\ Covered' \in Nat
  BY CoveredIsNat DEF IInv, EffectTypes
<1> QED BY <1>1 DEF IInv, ChargesAreCovered

-----------------------------------------------------------------------------
LEMMA InitInv == Init => IInv
<1> SUFFICES ASSUME Init PROVE IInv
  OBVIOUS
<1>1. FlagTypes /\ WokenTypes /\ TimerIsDue
  BY MembershipAssumption DEF Init, FlagTypes, WokenTypes, TimerIsDue, MembershipAssumption
<1>2. PlaceTypes
  BY MembershipAssumption DEF Init, PlaceTypes, MembershipAssumption, Activities, OnOk
<1>3. SignalTypes /\ SignalsWereSent
  BY MembershipAssumption DEF Init, SignalTypes, SignalsWereSent, MembershipAssumption, Signals
<1>4. EffectTypes
  BY DEF Init, EffectTypes
<1>5. CountTypes
  BY MembershipAssumption DEF Init, CountTypes, MembershipAssumption
<1>6. ChargesAreCovered
  BY DEF Init, ChargesAreCovered, Covered
<1> QED BY <1>1, <1>2, <1>3, <1>4, <1>5, <1>6 DEF IInv

LEMMA AnsweredInv == IInv /\ Answered => IInv'
<1> SUFFICES ASSUME IInv, Answered PROVE IInv'
  OBVIOUS
<1> USE DEF IInv
<1>1. /\ at \in Activities /\ TakesEffect /\ Enter(OnOk[at])
      /\ due' = (due /\ at \notin NewDeadlineAfter)
      /\ woken' = "none" \/ woken' = Ready(OnOk[at], due')
      /\ UNCHANGED <<trial, paused, waiting, sent, periods, stray, hidden, trouble>>
  BY DEF Answered
<1>2. FlagTypes' /\ WokenTypes' /\ TimerIsDue'
  <2>1. FlagTypes'
    BY <1>1, Zenon DEF FlagTypes
  <2>2. /\ Ready(OnOk[at], due') \in Signals \cup {"timer", "none"}
        /\ Ready(OnOk[at], due') = "timer" => due'
    BY ReadyIsDue
  <2>3. WokenTypes' /\ TimerIsDue'
    BY <1>1, <2>2, Zenon DEF WokenTypes, TimerIsDue, Signals
  <2> QED BY <2>1, <2>3
<1>3. PlaceTypes' /\ EffectTypes'
  BY <1>1, OnOkLeads, EnterKeepsTypes, EffectKeepsTypes
<1>4. SignalTypes' /\ SignalsWereSent' /\ CountTypes'
  BY <1>1 DEF SignalTypes, SignalsWereSent, CountTypes
<1>5. at' = OnOk[at] /\ charges' = charges + (IF at \in {"charge", "renew"} THEN 1 ELSE 0)
  BY <1>1, EffectKeepsTypes DEF Enter
<1>6. at' \notin {"charge", "renew"}
  BY <1>1, <1>5 DEF Activities, OnOk
<1>7. at' \in {"loop", "tellPaused"} /\ at # "tellPaused" => at \in NewDeadlineAfter
  BY <1>1, <1>5 DEF Activities, OnOk, NewDeadlineAfter
<1>8. due' /\ at' \in {"loop", "tellPaused"} => due /\ at = "tellPaused"
  BY <1>1, <1>7
<1>9. MustCharge' => MustCharge
  BY <1>6, <1>8 DEF MustCharge
<1>10. ChargesAreCovered'
  <2>1. CASE at \in {"charge", "renew"}
    <3>1. MustCharge
      BY <2>1 DEF MustCharge
    <3>2. ~MustCharge'
      BY <1>6, <1>8, <2>1 DEF MustCharge
    <3>3. charges' = charges + 1 /\ Covered' = Covered
      BY <1>1, <1>5, <2>1 DEF Covered
    <3> QED BY <3>1, <3>2, <3>3 DEF ChargesAreCovered, EffectTypes, SignalTypes, CountTypes, Covered
  <2>2. CASE at \notin {"charge", "renew"}
    <3>1. charges' = charges /\ Covered' = Covered
      BY <1>1, <1>5, <2>2 DEF Covered, EffectTypes
    <3> QED BY <3>1, <1>9 DEF ChargesAreCovered
  <2> QED BY <2>1, <2>2
<1> QED BY <1>2, <1>3, <1>4, <1>10

LEMMA FailureInv == IInv /\ (AttemptFails \/ ReplyLost) => IInv'
<1> SUFFICES ASSUME IInv, AttemptFails \/ ReplyLost PROVE IInv'
  OBVIOUS
<1> USE DEF IInv
<1>1. /\ at \in Activities /\ trouble < MaxTrouble /\ trouble' = trouble + 1
      /\ \/ attempt + 1 < MaxAttempts /\ attempt' = attempt + 1 /\ UNCHANGED <<at, state>>
         \/ Enter(IF at = "renew" THEN "tellExpired" ELSE "failed")
      /\ UNCHANGED <<trial, paused, waiting, sent, due, woken, periods, stray>>
  BY DEF AttemptFails, ReplyLost, SeenToFail
<1>2. FlagTypes' /\ WokenTypes' /\ TimerIsDue'
  BY <1>1, Zenon DEF FlagTypes, WokenTypes, TimerIsDue, Signals
<1>3. PlaceTypes'
  <2>1. (IF at = "renew" THEN "tellExpired" ELSE "failed") \in Activities \cup Waits \cup Closed
    BY DEF Activities, OnOk, Closed
  <2>2. CASE Enter(IF at = "renew" THEN "tellExpired" ELSE "failed")
    BY <2>1, <2>2, EnterKeepsTypes
  <2>3. CASE attempt + 1 < MaxAttempts /\ attempt' = attempt + 1 /\ UNCHANGED <<at, state>>
    BY <2>3, ActivitiesAreFixed, MembershipAssumption
    DEF PlaceTypes, MembershipAssumption, Waits, Closed
  <2> QED BY <1>1, <2>2, <2>3
<1>4. SignalTypes' /\ SignalsWereSent'
  BY <1>1 DEF SignalTypes, SignalsWereSent
<1>5. /\ EffectTypes' /\ hidden' \in Nat /\ hidden' - hidden = charges' - charges
      /\ hidden' <= hidden + 1
  <2>1. CASE AttemptFails
    BY <2>1 DEF AttemptFails, EffectTypes, CountTypes
  <2>2. CASE ReplyLost
    BY <2>2, EffectKeepsTypes DEF ReplyLost, EffectTypes, CountTypes
  <2> QED BY <2>1, <2>2
<1>6. CountTypes'
  BY <1>1, <1>5, MembershipAssumption DEF CountTypes, MembershipAssumption
<1>7. MustCharge' => MustCharge
  BY <1>1, Zenon DEF MustCharge, Enter
<1>8. ChargesAreCovered'
  <2>1. Covered' = Covered + (charges' - charges)
    BY <1>1, <1>5 DEF Covered, EffectTypes, SignalTypes, CountTypes
  <2> QED BY <2>1, <1>5, <1>7 DEF ChargesAreCovered, Covered, EffectTypes, SignalTypes, CountTypes
<1> QED BY <1>2, <1>3, <1>4, <1>5, <1>6, <1>8

\* What each wait's choice disturbs: the place, perhaps one channel.
LEMMA WaitInv == IInv /\ (Cancel \/ TrialEnds \/ Pause \/ Resume \/ Renew) => IInv'
<1> SUFFICES ASSUME IInv, Cancel \/ TrialEnds \/ Pause \/ Resume \/ Renew PROVE IInv'
  OBVIOUS
<1> USE DEF IInv
<1>1. FlagTypes' /\ WokenTypes' /\ TimerIsDue'
  <2>1. woken' = "none" /\ UNCHANGED <<trial, due>>
    BY DEF Cancel, Cancelled, Takes, TrialEnds, TimerFired, Pause, Resume, Renew
  <2>2. paused' \in BOOLEAN
    BY Zenon DEF FlagTypes, Cancel, TrialEnds, TimerFired, Pause, Resume, Renew
  <2>3. WokenTypes' /\ TimerIsDue'
    BY <2>1 DEF WokenTypes, TimerIsDue
  <2> QED BY <2>1, <2>2, <2>3 DEF FlagTypes
<1>2. PlaceTypes'
  <2>1. {"tellCancelled", "tellActive", "tellPaused", "tellResumed", "renew"} \subseteq Activities
    BY DEF Activities, OnOk
  <2>2. \E a \in {"tellCancelled", "tellActive", "tellPaused", "tellResumed", "renew"} : Enter(a)
    BY DEF Cancel, TrialEnds, Pause, Resume, Renew
  <2> QED BY <2>1, <2>2, EnterKeepsTypes
<1>3. EffectTypes' /\ CountTypes'
  <2>1. UNCHANGED effectVars
    BY DEF Cancel, Cancelled, Takes, TrialEnds, TimerFired, Pause, Resume, Renew
  <2> QED BY <2>1 DEF EffectTypes, CountTypes, effectVars
<1>4. SignalTypes' /\ SignalsWereSent'
  <2>1. CASE TrialEnds \/ Renew
    BY <2>1 DEF TrialEnds, Renew, TimerFired, SignalTypes, SignalsWereSent
  <2>2. CASE Cancel
    BY <2>2, TakesKeepsTypes DEF Cancel, Cancelled, Takes, Signals, SignalTypes, SignalsWereSent
  <2>3. CASE Pause
    BY <2>3, TakesKeepsTypes DEF Pause, Takes, Signals, SignalTypes, SignalsWereSent
  <2>4. CASE Resume
    <3>1. /\ Takes("resume") /\ sent' = sent
          /\ stray' = IF paused THEN stray ELSE stray + 1
      BY <2>4 DEF Resume, Takes
    <3>2. stray' \in {stray, stray + 1}
      BY <3>1
    <3>3. /\ waiting' \in [Signals -> 0 .. MaxSignals] /\ waiting'["resume"] = waiting["resume"] - 1
          /\ \A r \in Signals \ {"resume"} : waiting'[r] = waiting[r]
      BY <3>1, TakesKeepsTypes DEF Signals
    <3>4. SignalsWereSent'
      BY <3>1, <3>2, <3>3 DEF SignalTypes, Signals, SignalsWereSent
    <3>5. stray' \in Nat /\ sent["resume"] \in 0 .. MaxSignals /\ waiting'["resume"] \in Nat
      BY <3>2, <3>3 DEF SignalTypes, Signals
    <3>6. stray' \in 0 .. MaxSignals
      BY <3>1, <3>4, <3>5, MembershipAssumption DEF SignalsWereSent, MembershipAssumption
    <3> QED BY <3>1, <3>3, <3>4, <3>6 DEF SignalTypes
  <2> QED BY <2>1, <2>2, <2>3, <2>4
<1>5. UNCHANGED <<charges, periods, hidden, due>>
  BY DEF Cancel, Cancelled, Takes, TrialEnds, TimerFired, Pause, Resume, Renew, effectVars
<1>6. CASE Resume /\ ~paused
  <2>1. stray' = stray + 1
    BY <1>6 DEF Resume
  <2>2. Covered' = Covered + 1
    BY <1>5, <2>1 DEF Covered, SignalTypes, CountTypes
  <2>3. charges \in Nat /\ Covered \in Nat /\ charges' = charges
    BY <1>5, CoveredIsNat DEF EffectTypes
  <2>4. ChargesAreCovered'
    BY <2>2, <2>3 DEF ChargesAreCovered
  <2> QED BY <1>1, <1>2, <1>3, <1>4, <2>4
<1>7. CASE ~(Resume /\ ~paused)
  <2>1. stray' = stray
    BY <1>7 DEF Cancel, TrialEnds, TimerFired, Pause, Resume, Renew
  <2>2. MustCharge' => MustCharge
    <3>1. CASE Renew
      BY <3>1 DEF Renew, TimerFired, TimerIsDue, MustCharge
    <3>2. CASE Cancel \/ TrialEnds
      BY <3>2 DEF Cancel, TrialEnds, Enter, MustCharge
    <3>3. CASE Pause
      BY <3>3, <1>5 DEF Pause, Enter, MustCharge
    <3>4. CASE Resume
      <4>1. Enter("tellResumed")
        BY <1>7, <3>4 DEF Resume
      <4> QED BY <4>1 DEF Enter, MustCharge
    <3> QED BY <3>1, <3>2, <3>3, <3>4
  <2>3. Covered' >= Covered
    BY <1>5, <2>1 DEF Covered, SignalTypes, CountTypes
  <2>4. ChargesAreCovered'
    BY <1>3, <1>4, <1>5, <2>2, <2>3, NoFurtherCharge
  <2> QED BY <1>1, <1>2, <1>3, <1>4, <2>4
<1> QED BY <1>6, <1>7

LEMMA PeriodEndsInv == IInv /\ PeriodEnds => IInv'
<1> SUFFICES ASSUME IInv, PeriodEnds PROVE IInv'
  OBVIOUS
<1> USE DEF IInv
<1>1. /\ at \notin {"charge", "record", "tellTrial", "tellActive"} /\ periods < MaxPeriods
      /\ periods' = IF at = "trialWait" THEN periods ELSE periods + 1
      /\ UNCHANGED <<trial, at, attempt, state, paused, waiting, sent, charges, ledger, told,
                     stray, hidden, trouble>>
  BY DEF PeriodEnds
<1>2. FlagTypes' /\ WokenTypes' /\ TimerIsDue'
  <2>1. due' = TRUE /\ woken' \in {"timer", woken} /\ UNCHANGED <<trial, paused>>
    BY DEF PeriodEnds, Wakes
  <2> QED BY <2>1 DEF FlagTypes, WokenTypes, TimerIsDue
<1>3. PlaceTypes' /\ SignalTypes' /\ EffectTypes' /\ SignalsWereSent'
  BY <1>1, ActivitiesAreFixed
  DEF PlaceTypes, SignalTypes, EffectTypes, SignalsWereSent, Waits, Closed
<1>4. CountTypes'
  BY <1>1, MembershipAssumption DEF CountTypes, MembershipAssumption
<1>5. CASE at = "trialWait"
  <2>1. MustCharge' => MustCharge
    BY <1>1, <1>5 DEF MustCharge
  <2>2. Covered' >= Covered
    BY <1>1, <1>5 DEF Covered, SignalTypes, CountTypes
  <2> QED BY <1>1, <1>2, <1>3, <1>4, <2>1, <2>2, NoFurtherCharge
<1>6. CASE at # "trialWait"
  <2>1. Covered' = Covered + 1
    BY <1>1, <1>6 DEF Covered, SignalTypes, CountTypes
  <2> QED BY <1>1, <1>2, <1>3, <1>4, <2>1
          DEF ChargesAreCovered, Covered, EffectTypes, SignalTypes, CountTypes
<1> QED BY <1>5, <1>6

LEMMA SignalInv == ASSUME NEW s \in Signals, IInv, Signal(s) PROVE IInv'
<1> USE DEF IInv
<1>1. /\ sent[s] < MaxSignals
      /\ sent' = [sent EXCEPT ![s] = @ + 1] /\ waiting' = [waiting EXCEPT ![s] = @ + 1]
      /\ woken' \in {s, woken}
      /\ UNCHANGED <<trial, at, attempt, state, paused, due, charges, ledger, told, periods,
                     stray, hidden, trouble>>
  BY DEF Signal, Wakes, effectVars
<1>2. \A r \in Signals : /\ sent[r] \in 0 .. MaxSignals /\ waiting[r] \in 0 .. MaxSignals
                         /\ waiting[r] <= sent[r]
                         /\ sent'[r] = sent[r] + (IF r = s THEN 1 ELSE 0)
                         /\ waiting'[r] = waiting[r] + (IF r = s THEN 1 ELSE 0)
  BY <1>1 DEF SignalTypes, SignalsWereSent
<1>3. \A r \in Signals : sent'[r] \in 0 .. MaxSignals /\ waiting'[r] \in 0 .. MaxSignals
  BY <1>1, <1>2, MembershipAssumption DEF MembershipAssumption
<1>4. SignalTypes'
  BY <1>1, <1>3 DEF SignalTypes
<1>5. SignalsWereSent'
  BY <1>1, <1>2 DEF SignalsWereSent, SignalTypes, Signals
<1>6. FlagTypes' /\ WokenTypes' /\ TimerIsDue'
  <2>1. FlagTypes'
    BY <1>1, Zenon DEF FlagTypes
  <2>2. WokenTypes' /\ TimerIsDue'
    BY <1>1, Zenon DEF WokenTypes, TimerIsDue, Signals
  <2> QED BY <2>1, <2>2
<1>7. PlaceTypes' /\ EffectTypes' /\ CountTypes'
  BY <1>1, ActivitiesAreFixed DEF PlaceTypes, EffectTypes, CountTypes, Waits, Closed
<1>8. ChargesAreCovered'
  BY <1>1 DEF ChargesAreCovered, Covered, MustCharge
<1> QED BY <1>4, <1>5, <1>6, <1>7, <1>8

LEMMA StepInv == IInv /\ [Next]_vars => IInv'
<1> SUFFICES ASSUME IInv, [Next]_vars PROVE IInv'
  OBVIOUS
<1>1. CASE Next
  BY <1>1, AnsweredInv, FailureInv, WaitInv, PeriodEndsInv, SignalInv DEF Next, Proceeds
<1>2. CASE UNCHANGED vars
  <2> USE <1>2 DEF vars
  <2>1. FlagTypes' /\ WokenTypes' /\ TimerIsDue' /\ ChargesAreCovered'
    BY Zenon DEF IInv, FlagTypes, WokenTypes, TimerIsDue, Signals, ChargesAreCovered, Covered, MustCharge
  <2>2. PlaceTypes' /\ SignalTypes' /\ EffectTypes' /\ CountTypes' /\ SignalsWereSent'
    BY ActivitiesAreFixed
    DEF IInv, PlaceTypes, SignalTypes, EffectTypes, CountTypes, SignalsWereSent, Waits, Closed
  <2> QED BY <2>1, <2>2 DEF IInv
<1> QED BY <1>1, <1>2

-----------------------------------------------------------------------------
\* The invariant holds throughout: every signal, charge and timer keeps it.
THEOREM Invariance == Spec => []IInv
<1>1. Init => IInv
  BY InitInv
<1>2. IInv /\ [Next]_vars => IInv'
  BY StepInv
<1> QED BY <1>1, <1>2, PTL DEF Spec

\* The workflow's state has its types: no channel holds more signals than were
\* sent, and no activity is attempted more often than its retry policy says.
THEOREM TypeCorrect == Spec => []TypeOK
<1>1. IInv => TypeOK
  BY DEF IInv, FlagTypes, WokenTypes, PlaceTypes, SignalTypes, EffectTypes, CountTypes, TypeOK
<1> QED BY <1>1, Invariance, PTL

\* A member is charged once at the start and once for each period that ended,
\* but for the replies that were lost and the resumes nothing was paused for.
THEOREM ChargedWhenDue == Spec => []RenewalsAreDue
<1>1. IInv => RenewalsAreDue
  BY DEF IInv, EffectTypes, SignalTypes, CountTypes, ChargesAreCovered, Covered, RenewalsAreDue
<1> QED BY <1>1, Invariance, PTL

-----------------------------------------------------------------------------
\* In a behaviour shared with the sagas the membership keeps its invariant.
LEMMA MembershipInvariance == WorkflowsSpec => []IInv
<1>1. WorkflowsInit => IInv
  BY InitInv DEF WorkflowsInit
<1>2. IInv /\ [MembershipSteps \/ SagaSteps]_<<workflow, vars, sagaVars>> => IInv'
  BY StepInv DEF MembershipSteps, SagaSteps
<1> QED BY <1>1, <1>2, PTL DEF WorkflowsSpec

\* A member is charged for what is due also where the sagas share the queue.
THEOREM ChargedAmongSagas == WorkflowsSpec => []RenewalsAreDue
<1>1. IInv => RenewalsAreDue
  BY DEF IInv, EffectTypes, SignalTypes, CountTypes, ChargesAreCovered, Covered, RenewalsAreDue
<1> QED BY <1>1, MembershipInvariance, PTL

-----------------------------------------------------------------------------
(* The sagas *)

\* Where an answer leads, and what the execution reports then.
To(f, w, a) == Saga!Table[f][w][a]
Report(f, w, a, v) == IF a \in DOMAIN Saga!Says[f][w] THEN Saga!Says[f][w][a] ELSE v

\* The steps of each workflow.
LEMMA StepsOf ==
  /\ Saga!Steps("payment") = {"select", "charge", "markPaid", "publishPaid", "markFailed", "alert",
                              "publishFailed"}
  /\ Saga!Steps("returns") = {"eligibility", "approval", "label", "notify", "refund", "inventory",
                              "channel", "reverse", "cancelLabel", "alert", "publish"}
  /\ Saga!Steps("orders") = {"normalise", "dedup", "publish"}
  /\ Saga!Steps("vendor") = {"verify", "gate", "create", "notify", "rollback"}
  /\ Saga!Steps("stock") = {"reserve", "source", "target", "unsource", "release"}
  /\ Saga!Steps("sale") = {"reserve", "source", "target", "unsource", "release"}
BY DEF Saga!Steps, Saga!Table, Saga!PaymentSaga, Saga!ReturnsSaga, Saga!OrderAggregator,
       Saga!VendorOnboarding, Saga!InventorySync

\* Where each answer of a return's steps leads, and what the return reports then.
LEMMA ReturnsLeads ==
  /\ To("returns", "ok", "eligibility") = "approval" /\ To("returns", "ok", "approval") = "label"
  /\ To("returns", "ok", "label") = "notify" /\ To("returns", "ok", "notify") = "refund"
  /\ To("returns", "ok", "refund") = "inventory" /\ To("returns", "ok", "inventory") = "channel"
  /\ To("returns", "ok", "channel") = "publish" /\ To("returns", "ok", "reverse") = "cancelLabel"
  /\ To("returns", "ok", "cancelLabel") = "alert" /\ To("returns", "ok", "alert") = "publish"
  /\ To("returns", "ok", "publish") = "done" /\ To("returns", "no", "approval") = "publish"
  /\ To("returns", "error", "eligibility") = "publish" /\ To("returns", "error", "approval") = "publish"
  /\ To("returns", "error", "label") = "alert" /\ To("returns", "error", "notify") = "cancelLabel"
  /\ To("returns", "error", "refund") = "cancelLabel"
  /\ To("returns", "error", "inventory") = "cancelLabel"
  /\ To("returns", "error", "channel") = "reverse" /\ To("returns", "error", "reverse") = "cancelLabel"
  /\ To("returns", "error", "cancelLabel") = "alert" /\ To("returns", "error", "alert") = "publish"
  /\ To("returns", "error", "publish") = "done"
BY DEF To, Saga!Table, Saga!ReturnsSaga, Saga!Rollback, Saga!RefundFails

LEMMA ReturnsReports ==
  ASSUME NEW v, NEW a
  PROVE  /\ Report("returns", "ok", a, v) = IF a = "channel" THEN "completed" ELSE v
         /\ Report("returns", "no", a, v) = IF a = "approval" THEN "pending_approval" ELSE v
         /\ Report("returns", "error", a, v) =
              IF a = "approval" THEN "pending_approval"
              ELSE IF a \in {"eligibility", "label", "notify", "refund", "inventory", "channel"}
                     THEN "rolled_back" ELSE v
BY DEF Report, Saga!Says, Saga!ReturnsSays

\* The same of a payment, an order and a vendor.
LEMMA PaymentLeads ==
  /\ To("payment", "ok", "select") = "charge" /\ To("payment", "ok", "charge") = "markPaid"
  /\ To("payment", "ok", "markPaid") = "publishPaid" /\ To("payment", "ok", "publishPaid") = "done"
  /\ To("payment", "ok", "markFailed") = "alert" /\ To("payment", "ok", "alert") = "publishFailed"
  /\ To("payment", "ok", "publishFailed") = "done"
  /\ To("payment", "no", "charge") = "publishFailed"
  /\ To("payment", "unpaid", "charge") = "markPaid"
  /\ To("payment", "error", "select") = "markFailed" /\ To("payment", "error", "charge") = "markFailed"
  /\ To("payment", "error", "markPaid") = "publishPaid"
  /\ To("payment", "error", "publishPaid") = "done" /\ To("payment", "error", "markFailed") = "alert"
  /\ To("payment", "error", "alert") = "publishFailed"
  /\ To("payment", "error", "publishFailed") = "done"
BY DEF To, Saga!Table, Saga!PaymentSaga

LEMMA PaymentReports ==
  ASSUME NEW v, NEW a
  PROVE  /\ Report("payment", "ok", a, v) = IF a = "charge" THEN "completed" ELSE v
         /\ Report("payment", "no", a, v) = IF a = "charge" THEN "pending" ELSE v
         /\ Report("payment", "unpaid", a, v) = IF a = "charge" THEN "completed" ELSE v
         /\ Report("payment", "error", a, v) = IF a \in {"select", "charge"} THEN "failed" ELSE v
BY DEF Report, Saga!Says, Saga!PaymentSays

LEMMA OrdersLead ==
  /\ To("orders", "ok", "normalise") = "dedup" /\ To("orders", "ok", "dedup") = "publish"
  /\ To("orders", "ok", "publish") = "done" /\ To("orders", "no", "dedup") = "done"
  /\ \A a \in {"normalise", "dedup", "publish"} : To("orders", "error", a) = "done"
BY DEF To, Saga!Table, Saga!OrderAggregator

LEMMA OrdersReport ==
  ASSUME NEW v, NEW a
  PROVE  /\ Report("orders", "ok", a, v) = IF a = "publish" THEN "normalised" ELSE v
         /\ Report("orders", "no", a, v) = IF a = "dedup" THEN "duplicate" ELSE v
         /\ Report("orders", "error", a, v) = IF a \in {"normalise", "dedup", "publish"} THEN "failure" ELSE v
BY DEF Report, Saga!Says, Saga!OrderSays

LEMMA VendorLeads ==
  /\ To("vendor", "ok", "verify") = "gate" /\ To("vendor", "ok", "gate") = "create"
  /\ To("vendor", "ok", "create") = "notify" /\ To("vendor", "ok", "notify") = "done"
  /\ To("vendor", "ok", "rollback") = "done" /\ To("vendor", "no", "verify") = "notify"
  /\ To("vendor", "error", "create") = "rollback"
  /\ \A a \in {"verify", "gate", "notify", "rollback"} : To("vendor", "error", a) = "done"
BY DEF To, Saga!Table, Saga!VendorOnboarding

LEMMA VendorReports ==
  ASSUME NEW v, NEW a
  PROVE  /\ Report("vendor", "ok", a, v) = IF a = "create" THEN "approved" ELSE v
         /\ Report("vendor", "no", a, v) = IF a = "verify" THEN "rejected" ELSE v
         /\ Report("vendor", "error", a, v) = IF a \in {"verify", "gate", "create"} THEN "error" ELSE v
BY DEF Report, Saga!Says, Saga!VendorSays

\* The two directions of the inventory sync: a sale has no source to adjust.
LEMMA InventoryLeads ==
  /\ To("stock", "ok", "reserve") = "source" /\ To("sale", "ok", "reserve") = "target"
  /\ To("stock", "error", "target") = "unsource" /\ To("sale", "error", "target") = "release"
  /\ \A f \in {"stock", "sale"} :
       /\ To(f, "ok", "source") = "target" /\ To(f, "ok", "target") = "done"
       /\ To(f, "ok", "unsource") = "release" /\ To(f, "ok", "release") = "done"
       /\ To(f, "no", "reserve") = "done"
       /\ To(f, "error", "source") = "release" /\ To(f, "error", "unsource") = "release"
BY DEF To, Saga!Table, Saga!InventorySync

LEMMA InventoryReports ==
  ASSUME NEW f \in {"stock", "sale"}, NEW v, NEW a
  PROVE  /\ Report(f, "ok", a, v) = IF a = "target" THEN "ok" ELSE v
         /\ Report(f, "no", a, v) = IF a = "reserve" THEN "duplicate" ELSE v
         /\ Report(f, "error", a, v) =
              IF a = "source" THEN "source_failed"
              ELSE IF a = "target" THEN "rolled_back"
              ELSE IF a = "unsource" THEN "rollback_failed" ELSE v
BY DEF Report, Saga!Says, Saga!InventorySays

\* Which answers a step may have, and that none leads out of its workflow.
MayAnswer(w, a) ==
  /\ w = "no" => a \in {"charge", "approval", "dedup", "reserve", "verify"}
  /\ w = "unpaid" => a = "charge"
  /\ w = "error" => a \notin {"reserve", "release"}

LEMMA StaysInside ==
  ASSUME NEW f \in Saga!Flows, NEW a \in Saga!Steps(f), NEW w \in {"ok", "no", "unpaid", "error"},
         MayAnswer(w, a)
  PROVE  To(f, w, a) \in Saga!Steps(f) \cup {"done"}
<1>1. CASE f = "payment"
  BY <1>1, StepsOf, PaymentLeads DEF MayAnswer
<1>2. CASE f = "returns"
  BY <1>2, StepsOf, ReturnsLeads DEF MayAnswer
<1>3. CASE f = "orders"
  BY <1>3, StepsOf, OrdersLead DEF MayAnswer
<1>4. CASE f = "vendor"
  BY <1>4, StepsOf, VendorLeads DEF MayAnswer
<1>5. CASE f \in {"stock", "sale"}
  BY <1>5, StepsOf, InventoryLeads DEF MayAnswer
<1> QED BY <1>1, <1>2, <1>3, <1>4, <1>5 DEF Saga!Flows

-----------------------------------------------------------------------------
\* What the steps are counted in.
SagaTypes ==
  /\ DOMAIN step = Exec /\ DOMAIN verdict = Exec /\ DOMAIN did = Exec /\ tries \in [Exec -> Nat]
  /\ \A x \in Exec : /\ step[x] \in Saga!Steps(Flow[x]) \cup {"done"}
                     /\ did[x] \in [Saga!Steps(Flow[x]) -> Nat]

\* A step of one execution: how it was answered, "again" when the attempt failed
\* and another follows, and whether it took effect.
Moves(x, w, hit) ==
  /\ step[x] \in Saga!Steps(Flow[x]) /\ MayAnswer(w, step[x])
  /\ \A y \in Exec : y # x =>
       step'[y] = step[y] /\ verdict'[y] = verdict[y] /\ did'[y] = did[y]
  /\ did'[x] = [did[x] EXCEPT ![step[x]] = @ + hit]
  /\ \/ w = "again" /\ step'[x] = step[x] /\ verdict'[x] = verdict[x] /\ Flow[x] \notin Saga!InMemory
     \/ /\ w # "again"
        /\ step'[x] = To(Flow[x], w, step[x])
        /\ verdict'[x] = Report(Flow[x], w, step[x], verdict[x])
  /\ w \in {"ok", "no"} => hit = 1 \/ (Flow[x] = "payment" /\ Saga!KnowsTheCharge(x))
  /\ hit = 1 => ~Saga!KnowsTheCharge(x)
  /\ w = "unpaid" => hit = 0 /\ x \in unpaid'
  /\ unpaid \subseteq unpaid' /\ unpaid' \subseteq unpaid \cup {x}
  /\ lost' = IF hit = 1 /\ w \in {"again", "error"} THEN lost \cup {<<x, step[x]>>} ELSE lost
  /\ gaveUp' = IF w = "error" THEN gaveUp \cup {<<x, step[x]>>} ELSE gaveUp
  /\ keys' = IF hit = 0 THEN keys
             ELSE IF step[x] \in {"dedup", "reserve"} THEN keys \cup {Saga!Key(x)}
             ELSE IF step[x] = "release" THEN keys \ {Saga!Key(x)} ELSE keys
  /\ step[x] = "approval" /\ w = "ok" => About[x] \notin Large
  /\ step[x] \in {"dedup", "reserve"} =>
       (w = "ok" => Saga!Key(x) \notin keys) /\ (w = "no" => Saga!Key(x) \in keys)
  /\ crashed' = crashed

\* What an execution is of; of the steps, the payment's alone is a charge.
LEMMA FlowsAre == ASSUME NEW x \in Exec PROVE Flow[x] \in Saga!Flows
BY WorkflowsAssumption DEF WorkflowsAssumption

LEMMA OnlyPaymentsCharge ==
  ASSUME NEW x \in Exec, step[x] \in Saga!Steps(Flow[x]), step[x] = "charge"
  PROVE  Flow[x] = "payment"
BY FlowsAre, StepsOf DEF Saga!Flows

\* How a step may be answered.
LEMMA AnswersAre ==
  ASSUME NEW x \in Exec, step[x] \in Saga!Steps(Flow[x]), NEW w \in Saga!Answers(x)
  PROVE  /\ w \in {"ok", "no", "unpaid"} /\ (w = "unpaid" => step[x] = "charge")
         /\ w = "no" => step[x] \in {"charge", "approval", "dedup", "reserve", "verify"}
         /\ step[x] = "approval" /\ w = "ok" => About[x] \notin Large
         /\ step[x] \in {"dedup", "reserve"} =>
              (w = "ok" => Saga!Key(x) \notin keys) /\ (w = "no" => Saga!Key(x) \in keys)
<1>1. CASE step[x] = "charge"
  <2>1. Gateway[x] \in {"stripe", "paypal", "alipay"}
    BY <1>1, OnlyPaymentsCharge, WorkflowsAssumption DEF WorkflowsAssumption
  <2>2. w \in Saga!ChargeAnswers(x)
    BY <1>1 DEF Saga!Answers
  <2>3. w \in {"ok", "no", "unpaid"}
    BY <2>1, <2>2
    DEF Saga!ChargeAnswers, Saga!StripeAnswers, Saga!PayPalAnswers, Saga!AlipayAnswers
  <2> QED BY <1>1, <2>3
<1>2. CASE step[x] = "approval"
  BY <1>2 DEF Saga!Answers
<1>3. CASE step[x] \in {"dedup", "reserve"}
  BY <1>3 DEF Saga!Answers, Saga!Taken
<1>4. CASE step[x] = "verify"
  BY <1>4 DEF Saga!Answers
<1>5. CASE step[x] \notin {"charge", "approval", "dedup", "reserve", "verify"}
  BY <1>5 DEF Saga!Answers
<1> QED BY <1>1, <1>2, <1>3, <1>4, <1>5

\* What a step leaves behind when it takes effect, and how often it does.
Hits(x, w) == IF w = "unpaid" \/ Saga!KnowsTheCharge(x) THEN 0 ELSE 1

LEMMA EffectIs ==
  ASSUME SagaTypes, NEW x \in Exec, step[x] \in Saga!Steps(Flow[x]),
         NEW w \in Saga!Answers(x), Saga!TakesEffect(x, w)
  PROVE  /\ DOMAIN did' = Exec /\ \A y \in Exec : y # x => did'[y] = did[y]
         /\ did'[x] = [did[x] EXCEPT ![step[x]] = @ + Hits(x, w)]
         /\ did' = did <=> Hits(x, w) = 0
         /\ unpaid' = IF w = "unpaid" THEN unpaid \cup {x} ELSE unpaid
         /\ keys' = IF Hits(x, w) = 0 THEN keys
                    ELSE IF step[x] \in {"dedup", "reserve"} THEN keys \cup {Saga!Key(x)}
                    ELSE IF step[x] = "release" THEN keys \ {Saga!Key(x)} ELSE keys
<1>0. Hits(x, w) = 0 => step[x] = "charge"
  BY AnswersAre DEF Hits, Saga!KnowsTheCharge
<1>1. /\ DOMAIN did' = Exec /\ \A y \in Exec : y # x => did'[y] = did[y]
      /\ did'[x] = [did[x] EXCEPT ![step[x]] = @ + Hits(x, w)]
      /\ did' = did <=> Hits(x, w) = 0
  <2>1. did[x] \in [Saga!Steps(Flow[x]) -> Nat] /\ DOMAIN did = Exec
    BY DEF SagaTypes
  <2>2. CASE Hits(x, w) = 0
    <3>1. did' = did
      BY <2>2 DEF Saga!TakesEffect, Hits
    <3>2. did[x] = [did[x] EXCEPT ![step[x]] = @ + 0]
      BY <2>1
    <3> QED BY <2>1, <2>2, <3>1, <3>2
  <2>3. CASE Hits(x, w) = 1
    <3>1. did' = [did EXCEPT ![x] = [did[x] EXCEPT ![step[x]] = did[x][step[x]] + 1]]
      BY <2>3 DEF Saga!TakesEffect, Hits
    <3>2. did'[x] = [did[x] EXCEPT ![step[x]] = @ + 1]
      BY <2>1, <3>1
    <3>3. did'[x][step[x]] # did[x][step[x]]
      BY <2>1, <3>2
    <3> QED BY <2>1, <2>3, <3>1, <3>2, <3>3
  <2> QED BY <2>2, <2>3 DEF Hits
<1>2. keys' = IF step[x] \in {"dedup", "reserve"} THEN keys \cup {Saga!Key(x)}
              ELSE IF step[x] = "release" THEN keys \ {Saga!Key(x)} ELSE keys
  <2>1. CASE step[x] \in {"dedup", "reserve"}
    BY <2>1 DEF Saga!TakesEffect
  <2>2. CASE step[x] = "release"
    BY <2>2 DEF Saga!TakesEffect
  <2>3. CASE step[x] \notin {"dedup", "reserve", "release"}
    BY <2>3 DEF Saga!TakesEffect
  <2> QED BY <2>1, <2>2, <2>3
<1>3. unpaid' = IF w = "unpaid" THEN unpaid \cup {x} ELSE unpaid
  BY DEF Saga!TakesEffect
<1> QED BY <1>0, <1>1, <1>2, <1>3

\* Where the execution is then.
LEMMA LeadsTo ==
  ASSUME SagaTypes, NEW x \in Exec, NEW w, Saga!Leads(x, w)
  PROVE  /\ DOMAIN step' = Exec /\ DOMAIN verdict' = Exec /\ tries' \in [Exec -> Nat]
         /\ \A y \in Exec : y # x => step'[y] = step[y] /\ verdict'[y] = verdict[y]
         /\ step'[x] = To(Flow[x], w, step[x])
         /\ verdict'[x] = Report(Flow[x], w, step[x], verdict[x])
BY DEF SagaTypes, Saga!Leads, To, Report

\* Every step of an execution is such a move, answered, failed or lost.
LEMMA SagaMoves ==
  ASSUME SagaTypes, NEW x \in Exec,
         Saga!Answered(x) \/ Saga!AttemptFails(x) \/ Saga!ReplyLost(x)
  PROVE  /\ DOMAIN step' = Exec /\ DOMAIN verdict' = Exec /\ DOMAIN did' = Exec
         /\ tries' \in [Exec -> Nat]
         /\ \E w \in {"ok", "no", "unpaid", "error", "again"}, hit \in {0, 1} : Moves(x, w, hit)
<1>1. step[x] \in Saga!Steps(Flow[x])
  BY DEF SagaTypes, Saga!Answered, Saga!AttemptFails, Saga!ReplyLost, Saga!SeenToFail
<1>2. CASE Saga!Answered(x)
  <2>1. UNCHANGED <<lost, gaveUp, crashed>>
    BY <1>2 DEF Saga!Answered
  <2>2. PICK w \in Saga!Answers(x) : Saga!TakesEffect(x, w) /\ Saga!Leads(x, w)
    BY <1>2 DEF Saga!Answered
  <2>3. /\ DOMAIN step' = Exec /\ DOMAIN verdict' = Exec /\ tries' \in [Exec -> Nat]
        /\ \A y \in Exec : y # x => step'[y] = step[y] /\ verdict'[y] = verdict[y]
        /\ step'[x] = To(Flow[x], w, step[x])
        /\ verdict'[x] = Report(Flow[x], w, step[x], verdict[x])
    BY <2>2, LeadsTo
  <2>4. /\ w \in {"ok", "no", "unpaid"} /\ (w = "unpaid" => step[x] = "charge")
        /\ w = "no" => step[x] \in {"charge", "approval", "dedup", "reserve", "verify"}
        /\ step[x] = "approval" /\ w = "ok" => About[x] \notin Large
        /\ step[x] \in {"dedup", "reserve"} =>
             (w = "ok" => Saga!Key(x) \notin keys) /\ (w = "no" => Saga!Key(x) \in keys)
    BY <1>1, AnswersAre
  <2>5. /\ DOMAIN did' = Exec /\ \A y \in Exec : y # x => did'[y] = did[y]
        /\ did'[x] = [did[x] EXCEPT ![step[x]] = @ + Hits(x, w)]
        /\ unpaid' = IF w = "unpaid" THEN unpaid \cup {x} ELSE unpaid
        /\ keys' = IF Hits(x, w) = 0 THEN keys
                   ELSE IF step[x] \in {"dedup", "reserve"} THEN keys \cup {Saga!Key(x)}
                   ELSE IF step[x] = "release" THEN keys \ {Saga!Key(x)} ELSE keys
    BY <1>1, <2>2, EffectIs
  <2>6. Hits(x, w) \in {0, 1} /\ (w = "unpaid" => Hits(x, w) = 0)
        /\ (Hits(x, w) = 1 => ~Saga!KnowsTheCharge(x))
        /\ (w # "unpaid" => Hits(x, w) = 1 \/ (Flow[x] = "payment" /\ Saga!KnowsTheCharge(x)))
    BY <1>1, OnlyPaymentsCharge DEF Hits, Saga!KnowsTheCharge
  <2>7. Moves(x, w, Hits(x, w))
    BY <1>1, <2>1, <2>3, <2>4, <2>5, <2>6 DEF Moves, MayAnswer
  <2> QED BY <2>3, <2>4, <2>5, <2>6, <2>7
<1>3. CASE Saga!AttemptFails(x) \/ Saga!ReplyLost(x)
  <2>1. PICK hit \in {0, 1} :
          /\ DOMAIN did' = Exec /\ \A y \in Exec : y # x => did'[y] = did[y]
          /\ did'[x] = [did[x] EXCEPT ![step[x]] = @ + hit]
          /\ hit = 1 => ~Saga!KnowsTheCharge(x)
          /\ unpaid \subseteq unpaid' /\ unpaid' \subseteq unpaid \cup {x}
          /\ lost' = IF hit = 1 THEN lost \cup {<<x, step[x]>>} ELSE lost
          /\ keys' = IF hit = 0 THEN keys
                     ELSE IF step[x] \in {"dedup", "reserve"} THEN keys \cup {Saga!Key(x)}
                     ELSE IF step[x] = "release" THEN keys \ {Saga!Key(x)} ELSE keys
    <3>1. CASE Saga!AttemptFails(x)
      <4>1. UNCHANGED <<did, keys, unpaid, lost>>
        BY <3>1 DEF Saga!AttemptFails
      <4>2. did[x] = [did[x] EXCEPT ![step[x]] = @ + 0]
        BY <1>1 DEF SagaTypes
      <4> QED BY <4>1, <4>2 DEF SagaTypes
    <3>2. CASE Saga!ReplyLost(x)
      <4>1. PICK w \in Saga!Answers(x) : Saga!TakesEffect(x, w)
        BY <3>2 DEF Saga!ReplyLost
      <4>2. lost' = IF did' = did THEN lost ELSE lost \cup {<<x, step[x]>>}
        BY <3>2 DEF Saga!ReplyLost
      <4>3. Hits(x, w) \in {0, 1} /\ (Hits(x, w) = 1 => ~Saga!KnowsTheCharge(x))
        BY DEF Hits
      <4> QED BY <1>1, <4>1, <4>2, <4>3, EffectIs
    <3> QED BY <1>3, <3>1, <3>2
  <2>2. /\ Saga!SeenToFail(x) /\ crashed' = crashed /\ step[x] \notin {"done", "reserve", "release"}
    BY <1>3 DEF Saga!AttemptFails, Saga!ReplyLost, Saga!SeenToFail
  <2>3. CASE tries[x] + 1 < Saga!Limit(x)
    <3>1. UNCHANGED <<step, verdict, gaveUp>> /\ tries' \in [Exec -> Nat]
      BY <2>2, <2>3 DEF Saga!SeenToFail, SagaTypes
    <3>2. Flow[x] \notin Saga!InMemory
      <4> SUFFICES ASSUME Flow[x] \in Saga!InMemory PROVE FALSE
        OBVIOUS
      <4>1. step[x] # "charge"
        BY <1>1, StepsOf DEF Saga!InMemory
      <4>2. Saga!Limit(x) = 1
        BY <4>1 DEF Saga!Limit
      <4> QED BY <2>3, <4>2 DEF SagaTypes
    <3>3. Moves(x, "again", hit)
      BY <1>1, <2>1, <2>2, <3>1, <3>2 DEF Moves, MayAnswer
    <3> QED BY <2>1, <3>1, <3>3 DEF SagaTypes
  <2>4. CASE ~(tries[x] + 1 < Saga!Limit(x))
    <3>1. Saga!Leads(x, "error") /\ gaveUp' = gaveUp \cup {<<x, step[x]>>}
      BY <2>2, <2>4 DEF Saga!SeenToFail
    <3>2. /\ DOMAIN step' = Exec /\ DOMAIN verdict' = Exec /\ tries' \in [Exec -> Nat]
          /\ \A y \in Exec : y # x => step'[y] = step[y] /\ verdict'[y] = verdict[y]
          /\ step'[x] = To(Flow[x], "error", step[x])
          /\ verdict'[x] = Report(Flow[x], "error", step[x], verdict[x])
      BY <3>1, LeadsTo
    <3>3. Moves(x, "error", hit)
      BY <1>1, <2>1, <2>2, <3>1, <3>2 DEF Moves, MayAnswer
    <3> QED BY <2>1, <3>2, <3>3
  <2> QED BY <2>3, <2>4
<1> QED BY <1>2, <1>3

-----------------------------------------------------------------------------
\* A step that has not been carried out, and one that has, once; unless a reply was lost.
Fresh(x, a) == did[x][a] = 0 \/ <<x, a>> \in lost
Made(x, a) == did[x][a] = 1 \/ <<x, a>> \in lost
Excused(x, a) == <<x, a>> \in lost \/ <<x, a>> \in gaveUp

\* A return, on its way through the steps and back.
ReturnsUndoes(x) ==
  /\ step[x] \in {"eligibility", "approval"} => did[x]["label"] = 0
  /\ step[x] = "label" => Fresh(x, "label")
  /\ step[x] \in {"notify", "refund", "inventory", "channel", "reverse", "cancelLabel"} =>
       Made(x, "label")
  /\ step[x] \in {"eligibility", "approval", "label", "notify", "refund", "inventory"} =>
       Fresh(x, "inventory")
  /\ step[x] \in {"channel", "reverse"} => Made(x, "inventory")
  /\ step[x] \notin {"cancelLabel", "alert", "publish", "done"} => Fresh(x, "reverse")
  /\ step[x] \notin {"alert", "publish", "done"} => Fresh(x, "cancelLabel")
  /\ step[x] \in {"cancelLabel", "alert", "publish", "done"} /\ verdict[x] = "rolled_back" =>
       \/ did[x]["inventory"] = did[x]["reverse"]
       \/ Excused(x, "inventory") \/ Excused(x, "reverse")
  /\ step[x] \in {"alert", "publish", "done"} /\ verdict[x] = "rolled_back" =>
       \/ did[x]["label"] = did[x]["cancelLabel"]
       \/ Excused(x, "label") \/ Excused(x, "cancelLabel")

\* What a return has done by the step it is at, and by what it reports.
ReturnsClaims(x) ==
  /\ step[x] \in {"notify", "refund", "inventory", "channel"} => did[x]["label"] > 0
  /\ step[x] \in {"refund", "inventory", "channel"} => did[x]["notify"] > 0
  /\ step[x] \in {"inventory", "channel"} => did[x]["refund"] > 0
  /\ step[x] = "channel" => did[x]["inventory"] > 0
  /\ verdict[x] = "completed" =>
       \A a \in {"label", "notify", "refund", "inventory", "channel"} : did[x][a] > 0
  /\ step[x] \in {"label", "notify", "refund"} \/ did[x]["refund"] > 0 => About[x] \notin Large
  /\ step[x] \in {"eligibility", "approval"} => did[x]["label"] = 0
  /\ verdict[x] = "pending_approval" => step[x] \in {"publish", "done"} /\ did[x]["label"] = 0

\* A payment, by its charge.
PaymentInv(x) ==
  /\ step[x] = "select" => did[x]["charge"] = 0
  /\ step[x] = "charge" => Fresh(x, "charge")
  /\ did[x]["charge"] <= 1 \/ (<<x, "charge">> \in lost /\ Gateway[x] = "paypal")
  /\ verdict[x] = "pending" => did[x]["charge"] > 0
  /\ step[x] = "markPaid" \/ verdict[x] = "completed" \/ did[x]["markPaid"] > 0 =>
       did[x]["charge"] > 0 \/ x \in unpaid
  /\ verdict[x] = "failed" => step[x] \notin {"select", "charge"} /\ Fresh(x, "charge")

\* An order of the aggregator, a vendor.
OrdersInv(x) ==
  /\ step[x] \in {"normalise", "dedup"} => did[x]["publish"] = 0
  /\ step[x] = "publish" => Fresh(x, "publish")
  /\ did[x]["publish"] <= 1 \/ <<x, "publish">> \in lost
  /\ verdict[x] = "normalised" => did[x]["publish"] > 0

VendorInv(x) == verdict[x] = "approved" => did[x]["create"] > 0

\* An adjustment of the stock, or of the target alone for a sale.
InventoryInv(x) ==
  /\ Flow[x] = "sale" => step[x] \notin {"source", "unsource"} /\ did[x]["source"] = 0
  /\ step[x] \in {"reserve", "source", "target"} => did[x]["target"] = 0
  /\ did[x]["target"] <= 1
  /\ did[x]["target"] > 0 => verdict[x] = "ok" \/ <<x, "target">> \in lost
  /\ step[x] \in {"reserve", "source"} => did[x]["source"] = 0
  /\ did[x]["source"] <= 1
  /\ step[x] \in {"reserve", "source", "target", "unsource"} => did[x]["unsource"] = 0
  /\ Flow[x] = "stock" /\ step[x] \in {"target", "unsource"} => did[x]["source"] = 1
  /\ did[x]["source"] > 0 /\ did[x]["unsource"] = 0 =>
       \/ step[x] \in {"target", "unsource"} \/ verdict[x] = "ok" \/ crashed
       \/ <<x, "source">> \in lost \/ <<x, "unsource">> \in gaveUp
  /\ verdict[x] = "rolled_back" =>
       /\ step[x] \in {"unsource", "release", "done"} /\ Fresh(x, "target")
       /\ Flow[x] = "stock" /\ step[x] # "unsource" => did[x]["source"] = did[x]["unsource"]
  /\ verdict[x] = "ok" =>
       step[x] = "done" /\ did[x]["target"] > 0 /\ (Flow[x] = "stock" => did[x]["source"] > 0)

\* What holds of one execution, whatever the others do.
LocalInv(x) ==
  /\ \A a \in Saga!Steps(Flow[x]) : <<x, a>> \in lost => did[x][a] > 0
  /\ verdict[x] = "approved" => Flow[x] = "vendor"
  /\ Flow[x] = "returns" => ReturnsUndoes(x) /\ ReturnsClaims(x)
  /\ Flow[x] = "payment" => PaymentInv(x)
  /\ Flow[x] = "orders" => OrdersInv(x)
  /\ Flow[x] = "vendor" => VendorInv(x)
  /\ Flow[x] \in Saga!InMemory => InventoryInv(x)

\* What a step of x says of x, with the types of its counts.
LEMMA MovesSelf ==
  ASSUME SagaTypes, NEW x \in Exec, NEW w \in {"ok", "no", "unpaid", "error", "again"}, NEW hit \in {0, 1},
         Moves(x, w, hit)
  PROVE  /\ \A a \in Saga!Steps(Flow[x]) :
              /\ did[x][a] \in Nat
              /\ did'[x][a] = IF a = step[x] THEN did[x][a] + hit ELSE did[x][a]
         /\ \A a : <<x, a>> \in lost' <=>
                     <<x, a>> \in lost \/ (a = step[x] /\ hit = 1 /\ w \in {"again", "error"})
         /\ \A a : <<x, a>> \in gaveUp' <=> <<x, a>> \in gaveUp \/ (a = step[x] /\ w = "error")
<1>1. did[x] \in [Saga!Steps(Flow[x]) -> Nat]
  BY DEF SagaTypes
<1>2. did'[x] = [did[x] EXCEPT ![step[x]] = @ + hit]
  BY DEF Moves
<1>3. \A a : <<x, a>> \in lost' <=>
               <<x, a>> \in lost \/ (a = step[x] /\ hit = 1 /\ w \in {"again", "error"})
  BY DEF Moves
<1>4. \A a : <<x, a>> \in gaveUp' <=> <<x, a>> \in gaveUp \/ (a = step[x] /\ w = "error")
  BY DEF Moves
<1> QED BY <1>1, <1>2, <1>3, <1>4

\* All but a payment's charge take effect whenever they are answered.
LEMMA OthersTakeEffect ==
  ASSUME NEW x \in Exec, NEW w, NEW hit, Moves(x, w, hit), Flow[x] # "payment"
  PROVE  w # "unpaid" /\ (w \in {"ok", "no"} => hit = 1)
BY OnlyPaymentsCharge DEF Moves, MayAnswer

\* Each workflow keeps its own part.
LEMMA ReturnsStep ==
  ASSUME SagaTypes, NEW x \in Exec, NEW w \in {"ok", "no", "unpaid", "error", "again"}, NEW hit \in {0, 1},
         Moves(x, w, hit), Flow[x] = "returns", ReturnsUndoes(x), ReturnsClaims(x)
  PROVE  ReturnsUndoes(x)' /\ ReturnsClaims(x)'
<1>1. step[x] \in Saga!Steps("returns")
  BY DEF Moves
<1>2. /\ \A a \in Saga!Steps("returns") :
           /\ did[x][a] \in Nat
           /\ did'[x][a] = IF a = step[x] THEN did[x][a] + hit ELSE did[x][a]
      /\ \A a : <<x, a>> \in lost' <=>
                  <<x, a>> \in lost \/ (a = step[x] /\ hit = 1 /\ w \in {"again", "error"})
      /\ \A a : <<x, a>> \in gaveUp' <=> <<x, a>> \in gaveUp \/ (a = step[x] /\ w = "error")
  BY MovesSelf
<1>3. /\ (w \in {"ok", "no"} => hit = 1) /\ w # "unpaid"
      /\ w = "no" => step[x] \in {"charge", "approval", "dedup", "reserve", "verify"}
      /\ step[x] = "approval" /\ w = "ok" => About[x] \notin Large
      /\ \/ w = "again" /\ step'[x] = step[x] /\ verdict'[x] = verdict[x]
         \/ /\ w # "again"
            /\ step'[x] = To("returns", w, step[x])
            /\ verdict'[x] = Report("returns", w, step[x], verdict[x])
  BY OthersTakeEffect DEF Moves, MayAnswer
<1>4. ReturnsUndoes(x)'
  <2> USE StepsOf, ReturnsLeads, ReturnsReports DEF ReturnsUndoes, Fresh, Made, Excused
  <2>1. CASE w = "again"
    BY <1>1, <1>2, <1>3, <2>1
  <2>2. CASE w = "ok"
    BY <1>1, <1>2, <1>3, <2>2
  <2>3. CASE w = "no"
    BY <1>1, <1>2, <1>3, <2>3
  <2>4. CASE w = "error"
    BY <1>1, <1>2, <1>3, <2>4
  <2> QED BY <1>3, <2>1, <2>2, <2>3, <2>4
<1>5. ReturnsClaims(x)'
  <2> USE StepsOf, ReturnsLeads, ReturnsReports DEF ReturnsClaims
  <2>1. CASE w = "again"
    BY <1>1, <1>2, <1>3, <2>1
  <2>2. CASE w = "ok"
    BY <1>1, <1>2, <1>3, <2>2
  <2>3. CASE w = "no"
    BY <1>1, <1>2, <1>3, <2>3
  <2>4. CASE w = "error"
    BY <1>1, <1>2, <1>3, <2>4
  <2> QED BY <1>3, <2>1, <2>2, <2>3, <2>4
<1> QED BY <1>4, <1>5

LEMMA PaymentStep ==
  ASSUME SagaTypes, NEW x \in Exec, NEW w \in {"ok", "no", "unpaid", "error", "again"}, NEW hit \in {0, 1},
         Moves(x, w, hit), Flow[x] = "payment", PaymentInv(x)
  PROVE  PaymentInv(x)'
<1>1. step[x] \in Saga!Steps("payment")
  BY DEF Moves
<1>2. /\ \A a \in Saga!Steps("payment") :
           /\ did[x][a] \in Nat
           /\ did'[x][a] = IF a = step[x] THEN did[x][a] + hit ELSE did[x][a]
      /\ \A a : <<x, a>> \in lost' <=>
                  <<x, a>> \in lost \/ (a = step[x] /\ hit = 1 /\ w \in {"again", "error"})
  BY MovesSelf
<1>3. /\ w \in {"ok", "no"} => hit = 1 \/ (step[x] = "charge" /\ did[x]["charge"] > 0)
      /\ hit = 1 => step[x] # "charge" \/ Gateway[x] = "paypal" \/ ~(did[x]["charge"] > 0)
      /\ w = "unpaid" => hit = 0 /\ step[x] = "charge" /\ x \in unpaid'
      /\ x \in unpaid => x \in unpaid'
      /\ w = "no" => step[x] \in {"charge", "approval", "dedup", "reserve", "verify"}
      /\ \/ w = "again" /\ step'[x] = step[x] /\ verdict'[x] = verdict[x]
         \/ /\ w # "again"
            /\ step'[x] = To("payment", w, step[x])
            /\ verdict'[x] = Report("payment", w, step[x], verdict[x])
  BY DEF Moves, MayAnswer, Saga!KnowsTheCharge
<1> USE StepsOf, PaymentLeads, PaymentReports DEF PaymentInv, Fresh
<1>4. CASE w = "again"
  BY <1>1, <1>2, <1>3, <1>4
<1>5. CASE w = "ok"
  BY <1>1, <1>2, <1>3, <1>5
<1>6. CASE w = "no"
  BY <1>1, <1>2, <1>3, <1>6
<1>7. CASE w = "error"
  BY <1>1, <1>2, <1>3, <1>7
<1>8. CASE w = "unpaid"
  BY <1>1, <1>2, <1>3, <1>8
<1> QED BY <1>4, <1>5, <1>6, <1>7, <1>8

LEMMA OrdersStep ==
  ASSUME SagaTypes, NEW x \in Exec, NEW w \in {"ok", "no", "unpaid", "error", "again"}, NEW hit \in {0, 1},
         Moves(x, w, hit), Flow[x] = "orders", OrdersInv(x)
  PROVE  OrdersInv(x)'
<1>1. step[x] \in Saga!Steps("orders")
  BY DEF Moves
<1>2. /\ \A a \in Saga!Steps("orders") :
           /\ did[x][a] \in Nat
           /\ did'[x][a] = IF a = step[x] THEN did[x][a] + hit ELSE did[x][a]
      /\ \A a : <<x, a>> \in lost' <=>
                  <<x, a>> \in lost \/ (a = step[x] /\ hit = 1 /\ w \in {"again", "error"})
  BY MovesSelf
<1>3. /\ (w \in {"ok", "no"} => hit = 1) /\ w # "unpaid"
      /\ w = "no" => step[x] \in {"charge", "approval", "dedup", "reserve", "verify"}
      /\ \/ w = "again" /\ step'[x] = step[x] /\ verdict'[x] = verdict[x]
         \/ /\ w # "again"
            /\ step'[x] = To("orders", w, step[x])
            /\ verdict'[x] = Report("orders", w, step[x], verdict[x])
  BY OthersTakeEffect DEF Moves, MayAnswer
<1> QED BY <1>1, <1>2, <1>3, StepsOf, OrdersLead, OrdersReport DEF OrdersInv, Fresh

LEMMA VendorStep ==
  ASSUME SagaTypes, NEW x \in Exec, NEW w \in {"ok", "no", "unpaid", "error", "again"}, NEW hit \in {0, 1},
         Moves(x, w, hit), Flow[x] = "vendor", VendorInv(x)
  PROVE  VendorInv(x)'
<1>1. step[x] \in Saga!Steps("vendor") /\ "create" \in Saga!Steps("vendor")
  BY StepsOf DEF Moves
<1>2. /\ did[x]["create"] \in Nat
      /\ did'[x]["create"] = IF "create" = step[x] THEN did[x]["create"] + hit ELSE did[x]["create"]
  BY <1>1, MovesSelf
<1>3. /\ (w \in {"ok", "no"} => hit = 1) /\ w # "unpaid"
      /\ \/ w = "again" /\ verdict'[x] = verdict[x]
         \/ w # "again" /\ verdict'[x] = Report("vendor", w, step[x], verdict[x])
  BY OthersTakeEffect DEF Moves
<1> QED BY <1>1, <1>2, <1>3, StepsOf, VendorReports DEF VendorInv

LEMMA InventoryStep ==
  ASSUME SagaTypes, NEW x \in Exec, NEW w \in {"ok", "no", "unpaid", "error", "again"}, NEW hit \in {0, 1},
         Moves(x, w, hit), Flow[x] \in Saga!InMemory, InventoryInv(x)
  PROVE  InventoryInv(x)'
<1>0. Flow[x] \in {"stock", "sale"}
  BY DEF Saga!InMemory
<1>1. step[x] \in {"reserve", "source", "target", "unsource", "release"}
  BY <1>0, StepsOf DEF Moves
<1>2. /\ \A a \in {"reserve", "source", "target", "unsource", "release"} :
           /\ did[x][a] \in Nat
           /\ did'[x][a] = IF a = step[x] THEN did[x][a] + hit ELSE did[x][a]
      /\ \A a : <<x, a>> \in lost' <=>
                  <<x, a>> \in lost \/ (a = step[x] /\ hit = 1 /\ w \in {"again", "error"})
      /\ \A a : <<x, a>> \in gaveUp' <=> <<x, a>> \in gaveUp \/ (a = step[x] /\ w = "error")
  BY <1>0, MovesSelf, StepsOf
<1>3. /\ (w \in {"ok", "no"} => hit = 1) /\ w # "unpaid"
      /\ w = "no" => step[x] = "reserve"
      /\ w = "error" => step[x] \notin {"reserve", "release"}
      /\ w # "again" /\ crashed' = crashed
      /\ step'[x] = To(Flow[x], w, step[x])
      /\ verdict'[x] = Report(Flow[x], w, step[x], verdict[x])
  BY OthersTakeEffect, <1>0, <1>1 DEF Moves, MayAnswer, Saga!InMemory
<1> USE InventoryLeads, InventoryReports DEF InventoryInv, Fresh
<1>4. CASE w = "ok"
  <2>1. CASE Flow[x] = "stock"
    BY <1>1, <1>2, <1>3, <1>4, <2>1
  <2>2. CASE Flow[x] = "sale"
    BY <1>1, <1>2, <1>3, <1>4, <2>2
  <2> QED BY <1>0, <2>1, <2>2
<1>5. CASE w = "no"
  BY <1>0, <1>1, <1>2, <1>3, <1>5
<1>6. CASE w = "error"
  <2>1. CASE Flow[x] = "stock" /\ step[x] = "source"
    BY <1>1, <1>2, <1>3, <1>6, <2>1
  <2>2. CASE Flow[x] = "stock" /\ step[x] = "target"
    BY <1>1, <1>2, <1>3, <1>6, <2>2
  <2>3. CASE Flow[x] = "stock" /\ step[x] = "unsource"
    BY <1>1, <1>2, <1>3, <1>6, <2>3
  <2>4. CASE Flow[x] = "sale"
    BY <1>1, <1>2, <1>3, <1>6, <2>4
  <2> QED BY <1>0, <1>1, <1>3, <1>6, <2>1, <2>2, <2>3, <2>4
<1> QED BY <1>3, <1>4, <1>5, <1>6

-----------------------------------------------------------------------------
\* The orders and the calls of one subject meet at its key.
Announces(x) == step[x] = "publish" \/ did[x]["publish"] > 0
OneOrder ==
  /\ \A x, y \in Exec :
       /\ Flow[x] = "orders" /\ Flow[y] = "orders" /\ About[x] = About[y]
       /\ Announces(x) /\ Announces(y)
       => x = y
  /\ \A x \in Exec :
       Flow[x] = "orders" /\ (Announces(x) \/ verdict[x] = "duplicate") => Saga!Key(x) \in keys
  /\ \A x \in Exec :
       Flow[x] = "orders" /\ Saga!Key(x) \in keys =>
         \E y \in Saga!Of("orders", About[x]) :
           <<y, "dedup">> \in lost \/ Announces(y) \/ <<y, "publish">> \in gaveUp

\* Who has a key, while the process that keeps the keys lives.
Holds(x) ==
  Flow[x] \in Saga!InMemory
    /\ (step[x] \in {"source", "target", "unsource", "release"} \/ verdict[x] = "ok")
OneHolder ==
  ~crashed =>
    /\ \A x, y \in Exec : Holds(x) /\ Holds(y) /\ Saga!Key(x) = Saga!Key(y) => x = y
    /\ \A x \in Exec : Holds(x) => Saga!Key(x) \in keys

\* Why the executions of one subject do not serve it twice.
SagaInv == SagaTypes /\ (\A x \in Exec : LocalInv(x)) /\ OneOrder /\ OneHolder

\* A subject has a key of its own in each workflow.
LEMMA KeysDiffer ==
  ASSUME NEW x, NEW y
  PROVE  Saga!Key(x) = Saga!Key(y) <=> Flow[x] = Flow[y] /\ About[x] = About[y]
BY DEF Saga!Key

\* A move keeps the types, what holds of each execution, and what holds between them.
LEMMA TypesStep ==
  ASSUME SagaTypes, NEW x \in Exec, NEW w \in {"ok", "no", "unpaid", "error", "again"}, NEW hit \in {0, 1},
         Moves(x, w, hit), DOMAIN step' = Exec, DOMAIN verdict' = Exec, DOMAIN did' = Exec,
         tries' \in [Exec -> Nat]
  PROVE  SagaTypes'
<1>1. step'[x] \in Saga!Steps(Flow[x]) \cup {"done"}
  BY FlowsAre, StaysInside DEF Moves
<1>2. did'[x] \in [Saga!Steps(Flow[x]) -> Nat]
  BY DEF Moves, SagaTypes
<1> QED BY <1>1, <1>2 DEF SagaTypes, Moves

LEMMA LocalStep ==
  ASSUME SagaTypes, NEW x \in Exec, NEW w \in {"ok", "no", "unpaid", "error", "again"}, NEW hit \in {0, 1},
         Moves(x, w, hit), \A y \in Exec : LocalInv(y)
  PROVE  \A y \in Exec : LocalInv(y)'
<1>1. LocalInv(x)'
  <2>1. \A a \in Saga!Steps(Flow[x]) : <<x, a>> \in lost' => did'[x][a] > 0
    <3> SUFFICES ASSUME NEW a \in Saga!Steps(Flow[x]), <<x, a>> \in lost' PROVE did'[x][a] > 0
      OBVIOUS
    <3>1. /\ did[x][a] \in Nat
          /\ did'[x][a] = IF a = step[x] THEN did[x][a] + hit ELSE did[x][a]
          /\ <<x, a>> \in lost \/ (a = step[x] /\ hit = 1)
      BY MovesSelf
    <3>2. <<x, a>> \in lost => did[x][a] > 0
      BY DEF LocalInv
    <3> QED BY <3>1, <3>2
  <2>2. LocalInv(x)
    OBVIOUS
  <2>3. verdict'[x] = "approved" => Flow[x] = "vendor"
    <3>1. \/ verdict'[x] = verdict[x]
          \/ w \in {"ok", "no", "unpaid", "error"} /\ verdict'[x] = Report(Flow[x], w, step[x], verdict[x])
      BY DEF Moves
    <3>2. ASSUME Flow[x] # "vendor", w \in {"ok", "no", "unpaid", "error"}, verdict[x] # "approved"
          PROVE  Report(Flow[x], w, step[x], verdict[x]) # "approved"
      <4>1. Flow[x] \in {"payment", "returns", "orders", "stock", "sale"}
        BY <3>2, FlowsAre DEF Saga!Flows
      <4>2. CASE Flow[x] = "payment"
        BY <3>2, <4>2, PaymentReports
      <4>3. CASE Flow[x] = "returns"
        BY <3>2, OthersTakeEffect, <4>3, ReturnsReports
      <4>4. CASE Flow[x] = "orders"
        BY <3>2, OthersTakeEffect, <4>4, OrdersReport
      <4>5. CASE Flow[x] \in {"stock", "sale"}
        BY <3>2, OthersTakeEffect, <4>5, InventoryReports
      <4> QED BY <4>1, <4>2, <4>3, <4>4, <4>5
    <3> QED BY <2>2, <3>1, <3>2 DEF LocalInv
  <2> QED BY <2>1, <2>2, <2>3, ReturnsStep, PaymentStep, OrdersStep, VendorStep, InventoryStep
          DEF LocalInv
<1>2. ASSUME NEW y \in Exec, y # x PROVE LocalInv(y)'
  <2>1. step'[y] = step[y] /\ verdict'[y] = verdict[y] /\ did'[y] = did[y] /\ crashed' = crashed
    BY <1>2 DEF Moves
  <2>2. /\ \A a : <<y, a>> \in lost' <=> <<y, a>> \in lost
        /\ \A a : <<y, a>> \in gaveUp' <=> <<y, a>> \in gaveUp
        /\ y \in unpaid' <=> y \in unpaid
    BY <1>2 DEF Moves
  <2>3. LocalInv(y)
    OBVIOUS
  <2>4. /\ \A a \in Saga!Steps(Flow[y]) : <<y, a>> \in lost' => did'[y][a] > 0
        /\ verdict'[y] = "approved" => Flow[y] = "vendor"
        /\ Flow[y] = "payment" => PaymentInv(y)'
        /\ Flow[y] = "orders" => OrdersInv(y)'
        /\ Flow[y] = "vendor" => VendorInv(y)'
    BY <2>1, <2>2, <2>3 DEF LocalInv, PaymentInv, OrdersInv, VendorInv, Fresh
  <2>5. Flow[y] = "returns" => ReturnsUndoes(y)' /\ ReturnsClaims(y)'
    BY <2>1, <2>2, <2>3 DEF LocalInv, ReturnsUndoes, ReturnsClaims, Fresh, Made, Excused
  <2>6. Flow[y] \in Saga!InMemory => InventoryInv(y)'
    BY <2>1, <2>2, <2>3 DEF LocalInv, InventoryInv, Fresh
  <2> QED BY <2>4, <2>5, <2>6 DEF LocalInv
<1> QED BY <1>1, <1>2

LEMMA OrderStep ==
  ASSUME SagaTypes, NEW x \in Exec, NEW w \in {"ok", "no", "unpaid", "error", "again"}, NEW hit \in {0, 1},
         Moves(x, w, hit), LocalInv(x), OneOrder
  PROVE  OneOrder'
<1>1. \A y \in Exec : y # x => step'[y] = step[y] /\ verdict'[y] = verdict[y] /\ did'[y] = did[y]
  BY DEF Moves
<1>2. lost \subseteq lost' /\ gaveUp \subseteq gaveUp'
  BY DEF Moves
<1>3. CASE Flow[x] # "orders"
  <2>1. \A y \in Exec : Flow[y] = "orders" => y # x /\ (Saga!Key(y) \in keys' <=> Saga!Key(y) \in keys)
    BY <1>3, KeysDiffer DEF Moves
  <2>2. \A y \in Exec : Flow[y] = "orders" =>
          (Announces(y)' <=> Announces(y)) /\ verdict'[y] = verdict[y]
    BY <1>1, <2>1 DEF Announces
  <2>3. \A y \in Exec : \A z \in Saga!Of("orders", About[y]) : z \in Exec /\ Flow[z] = "orders"
    BY DEF Saga!Of
  <2> QED BY <1>2, <2>1, <2>2, <2>3 DEF OneOrder
<1>4. CASE Flow[x] = "orders"
  <2>1. step[x] \in {"normalise", "dedup", "publish"}
    BY <1>4, StepsOf DEF Moves
  <2>2. /\ did[x]["publish"] \in Nat
        /\ did'[x]["publish"] = IF step[x] = "publish" THEN did[x]["publish"] + hit ELSE did[x]["publish"]
    BY <1>4, StepsOf, MovesSelf
  <2>3. /\ (w \in {"ok", "no"} => hit = 1) /\ w # "unpaid"
        /\ w = "no" => step[x] = "dedup" /\ Saga!Key(x) \in keys
        /\ w = "ok" /\ step[x] = "dedup" => Saga!Key(x) \notin keys
        /\ keys' = IF step[x] = "dedup" /\ hit = 1 THEN keys \cup {Saga!Key(x)} ELSE keys
        /\ step[x] = "dedup" /\ hit = 1 /\ w \in {"again", "error"} => <<x, "dedup">> \in lost'
        /\ step[x] = "publish" /\ w = "error" => <<x, "publish">> \in gaveUp'
        /\ \/ w = "again" /\ step'[x] = step[x] /\ verdict'[x] = verdict[x]
           \/ /\ w # "again"
              /\ step'[x] = To("orders", w, step[x])
              /\ verdict'[x] = Report("orders", w, step[x], verdict[x])
    BY <1>4, <2>1, OthersTakeEffect DEF Moves, MayAnswer
  <2>4. Announces(x)' => Announces(x) \/ (step[x] = "dedup" /\ w = "ok")
    BY <2>1, <2>2, <2>3, OrdersLead DEF Announces
  <2>5. Announces(x) => Announces(x)' \/ <<x, "publish">> \in gaveUp'
    BY <2>1, <2>2, <2>3, OrdersLead DEF Announces
  <2>6. step[x] = "dedup" /\ w = "ok" => Announces(x)'
    BY <2>3, OrdersLead DEF Announces
  <2>7. verdict'[x] = "duplicate" => verdict[x] = "duplicate" \/ Saga!Key(x) \in keys
    BY <2>1, <2>3, OrdersReport
  <2>8. \A y \in Exec : y # x => (Announces(y)' <=> Announces(y))
    BY <1>1 DEF Announces
  <2>9. \A y \in Exec : Flow[y] = "orders" /\ About[y] = About[x] <=> Saga!Key(y) = Saga!Key(x)
    BY <1>4, KeysDiffer
  <2>10. \A y, z \in Exec :
           /\ Flow[y] = "orders" /\ Flow[z] = "orders" /\ About[y] = About[z]
           /\ Announces(y)' /\ Announces(z)'
           => y = z
    BY <1>4, <2>3, <2>4, <2>8, <2>9 DEF OneOrder
  <2>11. \A y \in Exec : Flow[y] = "orders" /\ (Announces(y)' \/ verdict'[y] = "duplicate")
                           => Saga!Key(y) \in keys'
    BY <1>1, <1>4, <2>3, <2>4, <2>7, <2>8 DEF OneOrder
  <2>12. ASSUME NEW y \in Exec, Flow[y] = "orders", Saga!Key(y) \in keys'
         PROVE  \E z \in Saga!Of("orders", About[y]) :
                  <<z, "dedup">> \in lost' \/ Announces(z)' \/ <<z, "publish">> \in gaveUp'
    <3>1. CASE Saga!Key(y) \in keys
      <4>1. PICK z \in Saga!Of("orders", About[y]) :
              <<z, "dedup">> \in lost \/ Announces(z) \/ <<z, "publish">> \in gaveUp
        BY <2>12, <3>1 DEF OneOrder
      <4>2. z \in Exec
        BY DEF Saga!Of
      <4> QED BY <1>2, <2>5, <2>8, <4>1, <4>2
    <3>2. CASE Saga!Key(y) \notin keys
      <4>1. step[x] = "dedup" /\ hit = 1 /\ Saga!Key(y) = Saga!Key(x)
        BY <2>3, <2>12, <3>2
      <4>2. x \in Saga!Of("orders", About[y])
        BY <1>4, <2>9, <2>12, <4>1 DEF Saga!Of
      <4>3. w # "no"
        BY <2>3, <3>2, <4>1
      <4> QED BY <2>3, <2>6, <4>1, <4>2, <4>3
    <3> QED BY <3>1, <3>2
  <2> QED BY <2>10, <2>11, <2>12 DEF OneOrder, Saga!Of, Saga!Key
<1> QED BY <1>3, <1>4

LEMMA HolderStep ==
  ASSUME SagaTypes, NEW x \in Exec, NEW w \in {"ok", "no", "unpaid", "error", "again"}, NEW hit \in {0, 1},
         Moves(x, w, hit), LocalInv(x), OneHolder
  PROVE  OneHolder'
<1> SUFFICES ASSUME ~crashed
             PROVE  /\ \A y, z \in Exec : Holds(y)' /\ Holds(z)' /\ Saga!Key(y) = Saga!Key(z) => y = z
                    /\ \A y \in Exec : Holds(y)' => Saga!Key(y) \in keys'
  BY DEF Moves, OneHolder, Saga!Key
<1>1. \A y \in Exec : y # x => (Holds(y)' <=> Holds(y))
  BY DEF Moves, Holds
<1>2. CASE Flow[x] \notin Saga!InMemory
  <2>1. step[x] # "release"
    BY <1>2, FlowsAre, StepsOf DEF Saga!InMemory, Saga!Flows, Moves
  <2>2. ~Holds(x)' /\ keys \subseteq keys'
    BY <1>2, <2>1 DEF Holds, Moves
  <2> QED BY <1>1, <2>2 DEF OneHolder
<1>3. CASE Flow[x] \in Saga!InMemory
  <2>0. Flow[x] \in {"stock", "sale"}
    BY <1>3 DEF Saga!InMemory
  <2>1. step[x] \in {"reserve", "source", "target", "unsource", "release"}
    BY <2>0, StepsOf DEF Moves
  <2>2. /\ (w \in {"ok", "no"} => hit = 1) /\ w # "unpaid"
        /\ w = "no" => step[x] = "reserve"
        /\ w # "again" /\ w = "error" => step[x] \notin {"reserve", "release"}
        /\ w # "again"
        /\ step[x] = "reserve" /\ w = "ok" => Saga!Key(x) \notin keys
        /\ keys' = IF hit = 1 /\ step[x] = "reserve" THEN keys \cup {Saga!Key(x)}
                   ELSE IF hit = 1 /\ step[x] = "release" THEN keys \ {Saga!Key(x)} ELSE keys
        /\ step'[x] = To(Flow[x], w, step[x])
        /\ verdict'[x] = Report(Flow[x], w, step[x], verdict[x])
    BY <1>3, <2>0, <2>1, OthersTakeEffect DEF Moves, MayAnswer
  <2>3. verdict[x] # "ok"
    BY <1>3, <2>1 DEF LocalInv, InventoryInv
  <2>4. CASE step[x] = "reserve"
    <3>1. w = "no" => step'[x] = "done" /\ verdict'[x] # "ok"
      BY <2>0, <2>2, <2>3, <2>4, InventoryLeads, InventoryReports
    <3>2. Holds(x)' => w = "ok"
      BY <2>2, <2>4, <3>1 DEF Holds
    <3>3. keys \subseteq keys' /\ (w = "ok" => Saga!Key(x) \in keys' /\ Saga!Key(x) \notin keys)
      BY <2>2, <2>4
    <3> QED BY <1>1, <3>2, <3>3 DEF OneHolder
  <2>5. CASE step[x] = "release"
    <3>1. w = "ok" /\ step'[x] = "done" /\ verdict'[x] # "ok"
      BY <2>0, <2>2, <2>3, <2>5, InventoryLeads, InventoryReports
    <3>2. ~Holds(x)' /\ Holds(x)
      BY <1>3, <2>5, <3>1 DEF Holds
    <3>3. keys' = keys \ {Saga!Key(x)}
      BY <2>2, <2>5, <3>1
    <3> QED BY <1>1, <3>2, <3>3 DEF OneHolder
  <2>6. CASE step[x] \in {"source", "target", "unsource"}
    <3>1. Holds(x) /\ keys' = keys
      BY <1>3, <2>2, <2>6 DEF Holds
    <3> QED BY <1>1, <3>1 DEF OneHolder
  <2> QED BY <2>1, <2>4, <2>5, <2>6
<1> QED BY <1>2, <1>3

\* The process with the keys dies: its calls are over, and the claims they had
\* not made are none.
LEMMA CrashStep == SagaInv /\ Saga!Crash => SagaInv'
<1> SUFFICES ASSUME SagaInv, Saga!Crash PROVE SagaInv'
  OBVIOUS
<1>1. /\ crashed' = TRUE /\ UNCHANGED <<tries, did, unpaid, lost, gaveUp>>
      /\ keys' = {k \in keys : k[1] \notin Saga!InMemory}
      /\ DOMAIN step' = Exec /\ DOMAIN verdict' = Exec
      /\ \A x \in Exec :
           /\ Flow[x] \notin Saga!InMemory => step'[x] = step[x]
           /\ Flow[x] \in Saga!InMemory => step'[x] = "done"
           /\ step'[x] = step[x] => verdict'[x] = verdict[x]
           /\ step'[x] # step[x] => verdict'[x] = "none"
  BY DEF Saga!Crash
<1>2. SagaTypes'
  BY <1>1 DEF SagaInv, SagaTypes
<1>3. ASSUME NEW x \in Exec PROVE LocalInv(x)'
  <2>1. LocalInv(x)
    BY DEF SagaInv
  <2>2. CASE Flow[x] \notin Saga!InMemory
    <3>1. step'[x] = step[x] /\ verdict'[x] = verdict[x]
      BY <1>1, <2>2
    <3>2. /\ \A a \in Saga!Steps(Flow[x]) : <<x, a>> \in lost' => did'[x][a] > 0
          /\ verdict'[x] = "approved" => Flow[x] = "vendor"
          /\ Flow[x] = "payment" => PaymentInv(x)'
          /\ Flow[x] = "orders" => OrdersInv(x)'
          /\ Flow[x] = "vendor" => VendorInv(x)'
      BY <1>1, <2>1, <3>1 DEF LocalInv, PaymentInv, OrdersInv, VendorInv, Fresh
    <3>3. Flow[x] = "returns" => ReturnsUndoes(x)' /\ ReturnsClaims(x)'
      BY <1>1, <2>1, <3>1 DEF LocalInv, ReturnsUndoes, ReturnsClaims, Fresh, Made, Excused
    <3> QED BY <2>2, <3>2, <3>3 DEF LocalInv
  <2>3. CASE Flow[x] \in Saga!InMemory
    <3>1. /\ step'[x] = "done" /\ crashed'
          /\ verdict'[x] = "none" \/ verdict'[x] = verdict[x]
          /\ step[x] = "done" => verdict'[x] = verdict[x]
          /\ step[x] # "done" => verdict'[x] = "none"
      BY <1>1, <2>3
    <3>2. InventoryInv(x)'
      <4>1. InventoryInv(x) /\ did' = did /\ lost' = lost /\ gaveUp' = gaveUp
        BY <1>1, <2>1, <2>3 DEF LocalInv
      <4>2. CASE step[x] = "done"
        BY <3>1, <4>1, <4>2 DEF InventoryInv, Fresh
      <4>3. CASE step[x] # "done"
        <5>1. verdict'[x] = "none"
          BY <3>1, <4>3
        <5>2. did[x]["target"] > 0 => <<x, "target">> \in lost
          BY <4>1, <4>3 DEF InventoryInv
        <5>3. /\ Flow[x] = "sale" => did[x]["source"] = 0
              /\ did[x]["target"] <= 1 /\ did[x]["source"] <= 1
          BY <4>1 DEF InventoryInv
        <5> QED BY <3>1, <4>1, <5>1, <5>2, <5>3 DEF InventoryInv, Fresh
      <4> QED BY <4>2, <4>3
    <3>3. /\ \A a \in Saga!Steps(Flow[x]) : <<x, a>> \in lost' => did'[x][a] > 0
          /\ verdict'[x] = "approved" => Flow[x] = "vendor"
      BY <1>1, <2>1, <3>1 DEF LocalInv
    <3> QED BY <2>3, <3>2, <3>3 DEF LocalInv, Saga!InMemory
  <2> QED BY <2>2, <2>3
<1>4. OneOrder'
  <2>1. \A x \in Exec : Flow[x] = "orders" =>
          /\ step'[x] = step[x] /\ verdict'[x] = verdict[x]
          /\ Saga!Key(x) \in keys' <=> Saga!Key(x) \in keys
    BY <1>1 DEF Saga!InMemory, Saga!Key
  <2>2. \A x \in Exec : Flow[x] = "orders" => (Announces(x)' <=> Announces(x))
    BY <1>1, <2>1 DEF Announces
  <2>3. \A x \in Exec : \A z \in Saga!Of("orders", About[x]) : z \in Exec /\ Flow[z] = "orders"
    BY DEF Saga!Of
  <2> QED BY <1>1, <2>1, <2>2, <2>3 DEF SagaInv, OneOrder
<1> QED BY <1>1, <1>2, <1>3, <1>4 DEF SagaInv, OneHolder

\* At the start nothing has been done.
LEMMA SagaInit == Saga!Init => SagaInv
<1> SUFFICES ASSUME Saga!Init PROVE SagaInv
  OBVIOUS
<1>1. /\ DOMAIN step = Exec /\ DOMAIN verdict = Exec /\ DOMAIN did = Exec /\ tries \in [Exec -> Nat]
      /\ keys = {} /\ lost = {} /\ gaveUp = {}
      /\ \A x \in Exec : step[x] \in {Saga!First[Flow[x]], "done"} /\ verdict[x] = "none"
      /\ \A x \in Exec : did[x] = [a \in Saga!Steps(Flow[x]) |-> 0]
  BY DEF Saga!Init
<1>2. \A x \in Exec : step[x] \in {"select", "eligibility", "normalise", "verify", "reserve", "done"}
                      /\ step[x] \in Saga!Steps(Flow[x]) \cup {"done"}
  BY <1>1, FlowsAre, StepsOf DEF Saga!First, Saga!Flows
<1>3. \A x \in Exec : did[x] \in [Saga!Steps(Flow[x]) -> Nat]
                      /\ \A a \in Saga!Steps(Flow[x]) : did[x][a] = 0
  BY <1>1
<1>4. ASSUME NEW x \in Exec PROVE LocalInv(x)
  <2>1. /\ Flow[x] = "payment" => PaymentInv(x)
        /\ Flow[x] = "orders" => OrdersInv(x)
        /\ Flow[x] = "vendor" => VendorInv(x)
    BY <1>1, <1>2, <1>3, StepsOf DEF PaymentInv, OrdersInv, VendorInv, Fresh
  <2>2. Flow[x] = "returns" => ReturnsUndoes(x) /\ ReturnsClaims(x)
    BY <1>1, <1>2, <1>3, StepsOf DEF ReturnsUndoes, ReturnsClaims, Fresh, Made, Excused
  <2>3. Flow[x] \in Saga!InMemory => InventoryInv(x)
    BY <1>1, <1>2, <1>3, StepsOf DEF InventoryInv, Fresh, Saga!InMemory
  <2> QED BY <1>1, <2>1, <2>2, <2>3 DEF LocalInv
<1>5. \A x \in Exec : Flow[x] = "orders" => ~Announces(x) /\ verdict[x] # "duplicate"
  BY <1>1, <1>2, <1>3, StepsOf DEF Announces
<1>6. \A x \in Exec : ~Holds(x)
  BY <1>1, <1>2 DEF Holds
<1> QED BY <1>1, <1>2, <1>3, <1>4, <1>5, <1>6 DEF SagaInv, SagaTypes, OneOrder, OneHolder

\* The invariant of the sagas holds throughout: the membership does not touch them.
LEMMA SagaStep == SagaInv /\ [Saga!Next]_sagaVars => SagaInv'
<1> SUFFICES ASSUME SagaInv, [Saga!Next]_sagaVars PROVE SagaInv'
  OBVIOUS
<1>1. ASSUME NEW x \in Exec, Saga!Answered(x) \/ Saga!AttemptFails(x) \/ Saga!ReplyLost(x)
      PROVE  SagaInv'
  <2>1. /\ DOMAIN step' = Exec /\ DOMAIN verdict' = Exec /\ DOMAIN did' = Exec
        /\ tries' \in [Exec -> Nat]
        /\ \E w \in {"ok", "no", "unpaid", "error", "again"}, hit \in {0, 1} : Moves(x, w, hit)
    BY <1>1, SagaMoves DEF SagaInv
  <2>2. PICK w \in {"ok", "no", "unpaid", "error", "again"}, hit \in {0, 1} : Moves(x, w, hit)
    BY <2>1
  <2>3. SagaTypes /\ (\A y \in Exec : LocalInv(y)) /\ LocalInv(x) /\ OneOrder /\ OneHolder
    BY DEF SagaInv
  <2>4. SagaTypes'
    BY <2>1, <2>2, <2>3, TypesStep
  <2>5. \A y \in Exec : LocalInv(y)'
    BY <2>2, <2>3, LocalStep
  <2>6. OneOrder' /\ OneHolder'
    BY <2>2, <2>3, OrderStep, HolderStep
  <2> QED BY <2>4, <2>5, <2>6 DEF SagaInv
<1>2. CASE UNCHANGED sagaVars
  <2> USE <1>2 DEF sagaVars, SagaInv
  <2>1. SagaTypes' /\ OneOrder' /\ OneHolder'
    BY DEF SagaTypes, OneOrder, OneHolder, Announces, Holds, Saga!Key, Saga!Of
  <2>2. ASSUME NEW x \in Exec PROVE LocalInv(x)'
    <3>1. LocalInv(x)
      OBVIOUS
    <3>2. /\ PaymentInv(x) => PaymentInv(x)'
          /\ OrdersInv(x) => OrdersInv(x)'
          /\ VendorInv(x) => VendorInv(x)'
          /\ InventoryInv(x) => InventoryInv(x)'
      BY DEF PaymentInv, OrdersInv, VendorInv, InventoryInv, Fresh
    <3>3. /\ ReturnsUndoes(x) => ReturnsUndoes(x)'
          /\ ReturnsClaims(x) => ReturnsClaims(x)'
      BY DEF ReturnsUndoes, ReturnsClaims, Fresh, Made, Excused
    <3> QED BY <3>1, <3>2, <3>3 DEF LocalInv
  <2> QED BY <2>1, <2>2
<1> QED BY <1>1, <1>2, CrashStep DEF Saga!Next

LEMMA SagaInvariance == WorkflowsSpec => []SagaInv
<1>1. WorkflowsInit => SagaInv
  BY SagaInit DEF WorkflowsInit
<1>2. SagaInv /\ [MembershipSteps \/ SagaSteps]_<<workflow, vars, sagaVars>> => SagaInv'
  <2>1. [MembershipSteps \/ SagaSteps]_<<workflow, vars, sagaVars>> => [Saga!Next]_sagaVars
    BY DEF MembershipSteps, SagaSteps
  <2> QED BY <2>1, SagaStep
<1> QED BY <1>1, <1>2, PTL DEF WorkflowsSpec

-----------------------------------------------------------------------------
\* However many executions there are, and whatever of them fails, is attempted
\* again or is seen to fail though it took effect: a return or an inventory
\* adjustment that reports its rollback has undone what it did.
THEOREM RollbackUndoes == WorkflowsSpec => []RolledBackIsUndone
<1>1. SagaInv => RolledBackIsUndone
  <2> SUFFICES ASSUME SagaInv, NEW x \in Exec, step[x] = "done", verdict[x] = "rolled_back"
      PROVE  /\ Flow[x] = "returns" =>
                  /\ did[x]["inventory"] = did[x]["reverse"]
                     \/ Excused(x, "inventory") \/ Excused(x, "reverse")
                  /\ did[x]["label"] = did[x]["cancelLabel"]
                     \/ Excused(x, "label") \/ Excused(x, "cancelLabel")
             /\ Flow[x] = "stock" => did[x]["source"] = did[x]["unsource"]
             /\ Flow[x] \in Saga!InMemory => did[x]["target"] = 0 \/ <<x, "target">> \in lost
    <3> ASSUME NEW x \in Exec, NEW a, Excused(x, a)
        PROVE  <<x, a>> \in lost \cup gaveUp
      BY DEF Excused
    <3> QED BY DEF RolledBackIsUndone, Saga!RolledBackIsUndone, Excused
  <2>1. LocalInv(x)
    BY DEF SagaInv
  <2> QED BY <2>1 DEF LocalInv, ReturnsUndoes, InventoryInv, Fresh, Saga!InMemory
<1> QED BY <1>1, SagaInvariance, PTL

\* What an execution reports is what happened outside, for every workflow, number
\* of attempts and set of executions.
THEOREM ReportsAreTrue == WorkflowsSpec => []ClaimsAreTrue
<1>1. SagaInv => ClaimsAreTrue
  <2> SUFFICES ASSUME SagaInv, NEW x \in Exec
      PROVE  /\ Flow[x] = "returns" => Saga!ReturnIsTrue(x)
             /\ Flow[x] = "payment" => Saga!PaymentIsTrue(x)
             /\ Flow[x] = "orders" => Saga!OrderIsTrue(x)
             /\ Flow[x] \in Saga!InMemory => Saga!StockIsTrue(x)
             /\ verdict[x] = "approved" => did[x]["create"] > 0
    BY DEF ClaimsAreTrue, Saga!ClaimsAreTrue
  <2>1. LocalInv(x) /\ SagaTypes /\ OneOrder
    BY DEF SagaInv
  <2>2. Flow[x] = "returns" => Saga!ReturnIsTrue(x)
    BY <2>1 DEF LocalInv, ReturnsClaims, Saga!ReturnIsTrue
  <2>3. Flow[x] = "payment" => Saga!PaymentIsTrue(x)
    BY <2>1 DEF LocalInv, PaymentInv, Fresh, Saga!PaymentIsTrue
  <2>4. Flow[x] \in Saga!InMemory => Saga!StockIsTrue(x)
    BY <2>1 DEF LocalInv, InventoryInv, Saga!StockIsTrue
  <2>5. ASSUME Flow[x] = "orders" PROVE Saga!OrderIsTrue(x)
    <3>1. verdict[x] = "normalised" => did[x]["publish"] > 0
      BY <2>1, <2>5 DEF LocalInv, OrdersInv
    <3>2. ASSUME verdict[x] = "duplicate", Saga!Closed(Saga!Of("orders", About[x]))
          PROVE  \/ Saga!DoneBy(Saga!Of("orders", About[x]), "publish") # {}
                 \/ Saga!AnyOf(gaveUp, Saga!Of("orders", About[x]), "publish")
                 \/ Saga!AnyOf(lost, Saga!Of("orders", About[x]), "dedup")
      <4>1. PICK y \in Saga!Of("orders", About[x]) :
              <<y, "dedup">> \in lost \/ Announces(y) \/ <<y, "publish">> \in gaveUp
        BY <2>1, <2>5, <3>2 DEF OneOrder
      <4>2. step[y] = "done"
        BY <3>2 DEF Saga!Closed
      <4> QED BY <4>1, <4>2 DEF Announces, Saga!DoneBy, Saga!AnyOf
    <3> QED BY <3>1, <3>2 DEF Saga!OrderIsTrue
  <2>6. verdict[x] = "approved" => did[x]["create"] > 0
    BY <2>1 DEF LocalInv, VendorInv
  <2> QED BY <2>2, <2>3, <2>4, <2>5, <2>6
<1> QED BY <1>1, SagaInvariance, PTL

\* Of any number of executions about one order or one stock movement, and calls
\* under one key, one announces the order, adjusts the target and leaves the
\* source adjusted; unless a reply was lost, a compensation was given up or the
\* keys died with their process.
THEOREM ServedOnce == WorkflowsSpec => []OncePerSubject
<1>1. SagaInv => OncePerSubject
  <2> SUFFICES ASSUME SagaInv PROVE OncePerSubject
    OBVIOUS
  <2>1. ASSUME NEW s
        PROVE  \/ Saga!Once(Saga!Of("orders", s), "publish")
               \/ Saga!AnyOf(lost, Saga!Of("orders", s), "publish")
    <3> SUFFICES ASSUME ~Saga!AnyOf(lost, Saga!Of("orders", s), "publish"),
                        NEW x \in Saga!Of("orders", s), NEW y \in Saga!Of("orders", s),
                        did[x]["publish"] > 0, did[y]["publish"] > 0
                 PROVE  x = y /\ did[x]["publish"] = 1
      BY DEF Saga!Once, Saga!DoneBy
    <3>1. /\ x \in Exec /\ Flow[x] = "orders" /\ About[x] = s
          /\ y \in Exec /\ Flow[y] = "orders" /\ About[y] = s
      BY DEF Saga!Of
    <3>2. x = y
      BY <3>1 DEF SagaInv, OneOrder, Announces
    <3>3. did[x]["publish"] \in Nat /\ did[x]["publish"] <= 1
      BY <3>1, StepsOf DEF SagaInv, SagaTypes, LocalInv, OrdersInv, Saga!AnyOf
    <3> QED BY <3>2, <3>3
  <2>2. ASSUME NEW s, NEW f \in Saga!InMemory, ~crashed
        PROVE  /\ \/ Saga!Once(Saga!Of(f, s), "target")
                  \/ Saga!AnyOf(lost, Saga!Of(f, s), "target")
               /\ \/ Saga!Once(Saga!Of(f, s) \ Saga!DoneBy(Saga!Of(f, s), "unsource"), "source")
                  \/ Saga!AnyOf(lost, Saga!Of(f, s), "source")
                  \/ Saga!AnyOf(gaveUp, Saga!Of(f, s), "unsource")
    <3>1. ASSUME NEW x \in Saga!Of(f, s)
          PROVE  /\ x \in Exec /\ Flow[x] = f /\ About[x] = s /\ InventoryInv(x)
                 /\ did[x]["target"] \in Nat /\ did[x]["source"] \in Nat /\ did[x]["unsource"] \in Nat
      <4>1. x \in Exec /\ Flow[x] = f /\ About[x] = s
        BY DEF Saga!Of
      <4>2. {"target", "source", "unsource"} \subseteq Saga!Steps(Flow[x])
        BY <4>1, StepsOf DEF Saga!InMemory
      <4> QED BY <4>1, <4>2 DEF SagaInv, SagaTypes, LocalInv
    <3>2. ASSUME NEW x \in Saga!Of(f, s), NEW y \in Saga!Of(f, s), Holds(x), Holds(y) PROVE x = y
      BY <2>2, <3>1, <3>2, KeysDiffer DEF SagaInv, OneHolder
    <3>3. ASSUME ~Saga!AnyOf(lost, Saga!Of(f, s), "target"),
                 NEW x \in Saga!Of(f, s), NEW y \in Saga!Of(f, s),
                 did[x]["target"] > 0, did[y]["target"] > 0
          PROVE  x = y /\ did[x]["target"] = 1
      <4>1. Holds(x) /\ Holds(y)
        BY <3>1, <3>3 DEF InventoryInv, Saga!AnyOf, Holds
      <4>2. did[x]["target"] = 1
        <5>1. did[x]["target"] \in Nat /\ did[x]["target"] <= 1
          BY <3>1 DEF InventoryInv
        <5> QED BY <3>3, <5>1
      <4> QED BY <3>2, <4>1, <4>2
    <3>4. ASSUME ~Saga!AnyOf(lost, Saga!Of(f, s), "source"),
                 ~Saga!AnyOf(gaveUp, Saga!Of(f, s), "unsource"),
                 NEW x \in Saga!Of(f, s), NEW y \in Saga!Of(f, s),
                 did[x]["source"] > 0, did[y]["source"] > 0,
                 ~(did[x]["unsource"] > 0), ~(did[y]["unsource"] > 0)
          PROVE  x = y /\ did[x]["source"] = 1
      <4>1. did[x]["unsource"] = 0 /\ did[y]["unsource"] = 0
        BY <3>1, <3>4
      <4>2. Holds(x) /\ Holds(y)
        BY <2>2, <3>1, <3>4, <4>1 DEF InventoryInv, Saga!AnyOf, Holds
      <4>3. did[x]["source"] = 1
        <5>1. did[x]["source"] \in Nat /\ did[x]["source"] <= 1
          BY <3>1 DEF InventoryInv
        <5> QED BY <3>4, <5>1
      <4> QED BY <3>2, <4>2, <4>3
    <3> QED BY <3>3, <3>4 DEF Saga!Once, Saga!DoneBy
  <2>3. ASSUME NEW x \in Exec, Flow[x] = "payment", did[x]["charge"] > 1
        PROVE  Gateway[x] = "paypal" /\ <<x, "charge">> \in lost
    <3>1. did[x]["charge"] \in Nat /\ PaymentInv(x)
      BY <2>3, StepsOf DEF SagaInv, SagaTypes, LocalInv
    <3> QED BY <2>3, <3>1 DEF PaymentInv
  <2> QED BY <2>1, <2>2, <2>3 DEF OncePerSubject, Saga!OncePerSubject
<1> QED BY <1>1, SagaInvariance, PTL
=============================================================================

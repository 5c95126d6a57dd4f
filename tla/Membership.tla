------------------------------ MODULE Membership ------------------------------
(***************************************************************************)
(* MembershipLifecycleWorkflow (internal/workflow/membership_lifecycle.go): *)
(* one subscription from its first charge through the trial and the        *)
(* renewals to a cancellation or an expiry, with signals that may arrive   *)
(* at any time, a deadline, and activities that Temporal attempts again.   *)
(***************************************************************************)
EXTENDS Naturals

CONSTANTS
  MaxAttempts,  \* of an activity
  Trial,        \* the subscription has trial days
  MaxSignals,   \* bounds: signals of a kind, periods that end, failed attempts
  MaxPeriods,
  MaxTrouble

ASSUME MembershipAssumption ==
  /\ MaxAttempts \in Nat \ {0} /\ Trial \subseteq BOOLEAN
  /\ MaxSignals \in Nat /\ MaxPeriods \in Nat /\ MaxTrouble \in Nat

Signals == {"cancel", "pause", "resume"}

VARIABLES
  trial,     \* TrialDays > 0
  at,        \* the activity the workflow is in, or where it waits
  attempt,   \* attempts of the activity that failed
  state,     \* FinalState
  paused,    \* pauseRequested
  waiting,   \* the signals in their channels
  sent,      \* the signals sent so far
  due,       \* the deadline the workflow waits for has passed
  woken,     \* what ends its wait: a signal, "timer", or "none" as yet
  charges,   \* effects outside: CreateSubscription calls, entries of the ledger,
  ledger,    \* and what the member was told last
  told,
  periods,   \* the paid periods that ended
  stray,     \* resumes taken without a pause before
  hidden,    \* charges whose replies were lost
  trouble

vars == <<trial, at, attempt, state, paused, waiting, sent, due, woken, charges, ledger, told,
          periods, stray, hidden, trouble>>
effectVars == <<charges, ledger, told, periods, hidden, trouble>>

Waits == {"trialWait", "loop"}
Closed == {"ended", "failed"}

Init ==
  /\ trial \in Trial /\ at = "charge" /\ attempt = 0 /\ state = "trial" /\ paused = FALSE
  /\ waiting = [s \in Signals |-> 0] /\ sent = [s \in Signals |-> 0] /\ due = FALSE
  /\ woken = "none"
  /\ charges = 0 /\ ledger = {} /\ told = "nothing"
  /\ periods = 0 /\ stray = 0 /\ hidden = 0 /\ trouble = 0

-----------------------------------------------------------------------------
(* The activities: what follows one, and what is lost when it is given up *)

OnOk ==
  [charge |-> "record", record |-> "tellTrial",
   tellTrial |-> IF trial THEN "trialWait" ELSE "tellActive", tellActive |-> "loop",
   renew |-> "recordRenewal", recordRenewal |-> "tellRenewed", tellRenewed |-> "loop",
   tellPaused |-> "loop", tellResumed |-> "loop", tellExpired |-> "failed",
   tellCancelled |-> "recordCancelled", recordCancelled |-> "ended"]

Activities == DOMAIN OnOk

\* The state an activity is entered with.
StateAt(a) ==
  CASE a \in {"tellActive", "tellRenewed", "tellResumed"} -> "active"
    [] a = "tellPaused" -> "paused"
    [] a = "tellExpired" -> "expired"
    [] a = "tellCancelled" -> "cancelled"
    [] OTHER -> state

\* Slip: the renewal's period end is in the past.
NewDeadlineAfterPause == {"tellTrial", "tellActive", "tellResumed"}

\* The activities after which a new deadline is waited for.
NewDeadlineAfter == {"tellTrial", "tellActive", "tellResumed", "tellRenewed"}

Enter(a) ==
  /\ at' = a /\ attempt' = 0
  /\ state' = StateAt(a)

\* MembershipNotificationSender, the gateway and the ledger apply the activity.
TakesEffect ==
  /\ charges' = IF at \in {"charge", "renew"} THEN charges + 1 ELSE charges
  /\ ledger' = IF at \in {"record", "recordRenewal", "recordCancelled"} THEN ledger \cup {at}
                                                                       ELSE ledger
  /\ told' = IF at \in Activities \ {"charge", "renew", "record", "recordRenewal", "recordCancelled"}
               THEN state ELSE told

\* The selector of a wait that begins, with the deadline passed or not: what is
\* ready already, in the order of its branches; the trial has a new timer.
Ready(wait, passed) ==
  CASE waiting["cancel"] > 0 -> "cancel"
    [] waiting["cancel"] = 0 /\ wait = "trialWait" -> "none"
    [] waiting["cancel"] = 0 /\ wait # "trialWait" /\ waiting["pause"] > 0 -> "pause"
    [] waiting["cancel"] = 0 /\ wait # "trialWait" /\ waiting["pause"] = 0 ->
         IF waiting["resume"] > 0 THEN "resume" ELSE IF passed THEN "timer" ELSE "none"

Answered ==
  /\ at \in Activities
  /\ TakesEffect
  /\ Enter(OnOk[at])
  /\ due' = (due /\ at \notin NewDeadlineAfter)
  /\ woken' = IF OnOk[at] \in Waits THEN Ready(OnOk[at], due') ELSE "none"
  /\ UNCHANGED <<trial, paused, waiting, sent, periods, stray, hidden, trouble>>

SeenToFail ==
  /\ at \in Activities
  /\ trouble < MaxTrouble /\ trouble' = trouble + 1
  /\ IF attempt + 1 < MaxAttempts
       THEN attempt' = attempt + 1 /\ UNCHANGED <<at, state>>
       ELSE Enter(IF at = "renew" THEN "tellExpired" ELSE "failed")
  /\ UNCHANGED <<trial, paused, waiting, sent, due, woken, periods, stray>>

AttemptFails == SeenToFail /\ UNCHANGED <<charges, ledger, told, hidden>>

ReplyLost ==
  /\ SeenToFail
  /\ TakesEffect
  /\ hidden' = hidden + (charges' - charges)

-----------------------------------------------------------------------------
(* The waits *)

\* The selector took its first branch, and a signal from its channel.
Takes(s) ==
  /\ woken = s /\ waiting[s] > 0
  /\ waiting' = [waiting EXCEPT ![s] = @ - 1] /\ woken' = "none"
  /\ UNCHANGED <<trial, sent, due, effectVars>>

TimerFired ==
  /\ woken = "timer" /\ woken' = "none"
  /\ UNCHANGED <<trial, paused, waiting, sent, due, stray, effectVars>>

\* Slip: the trial is waited out.
CancelledAtLoop == at = "loop" /\ Takes("cancel")

\* Both waits look for the cancel signal.
Cancelled == at \in Waits /\ Takes("cancel")

Cancel ==
  /\ Cancelled
  /\ Enter("tellCancelled")
  /\ UNCHANGED <<paused, stray>>

TrialEnds == at = "trialWait" /\ TimerFired /\ Enter("tellActive")

Pause ==
  /\ at = "loop" /\ Takes("pause") /\ paused' = TRUE
  /\ Enter("tellPaused")
  /\ UNCHANGED stray

\* A resume that nothing was paused for falls to the default case, which renews.
Resume ==
  /\ at = "loop" /\ Takes("resume") /\ paused' = FALSE
  /\ Enter(IF paused THEN "tellResumed" ELSE "renew")
  /\ stray' = IF paused THEN stray ELSE stray + 1

\* A pause does not stop the timer.
Renew == at = "loop" /\ TimerFired /\ Enter("renew")

-----------------------------------------------------------------------------
(* Outside *)

\* A wait that nothing has ended yet is ended by what comes first.
Wakes(event) == woken' = IF at \in Waits /\ woken = "none" THEN event ELSE woken

Signal(s) ==
  /\ at \notin Closed /\ sent[s] < MaxSignals
  /\ sent' = [sent EXCEPT ![s] = @ + 1]
  /\ waiting' = [waiting EXCEPT ![s] = @ + 1]
  /\ IF at = "trialWait" /\ s # "cancel" THEN UNCHANGED woken ELSE Wakes(s)
  /\ UNCHANGED <<trial, at, attempt, state, paused, due, stray, effectVars>>

\* The deadline of the trial or of the period passes.
PeriodEnds ==
  /\ at \notin Closed \cup {"charge", "record", "tellTrial", "tellActive"} /\ ~due
  /\ periods < MaxPeriods
  /\ periods' = IF at = "trialWait" THEN periods ELSE periods + 1
  /\ due' = TRUE /\ Wakes("timer")
  /\ UNCHANGED <<trial, at, attempt, state, paused, waiting, sent, charges, ledger, told, stray,
                 hidden, trouble>>

-----------------------------------------------------------------------------
Proceeds == Answered \/ AttemptFails \/ ReplyLost \/ Cancel \/ TrialEnds \/ Pause \/ Resume \/ Renew

Next == Proceeds \/ PeriodEnds \/ \E s \in Signals : Signal(s)

\* The worker goes on with what it can do; nothing is assumed of time.
Fairness == WF_vars(Proceeds)
Spec == Init /\ [][Next]_vars /\ Fairness

-----------------------------------------------------------------------------
(* Properties *)

TypeOK ==
  /\ trial \in BOOLEAN /\ paused \in BOOLEAN /\ due \in BOOLEAN
  /\ at \in Activities \cup Waits \cup Closed /\ attempt \in 0 .. MaxAttempts - 1
  /\ woken \in Signals \cup {"timer", "none"}
  /\ state \in {"trial", "active", "paused", "cancelled", "expired"}
  /\ told \in {"nothing", "trial", "active", "paused", "cancelled", "expired"}
  /\ waiting \in [Signals -> 0 .. MaxSignals] /\ sent \in [Signals -> 0 .. MaxSignals]
  /\ ledger \subseteq {"record", "recordRenewal", "recordCancelled"}
  /\ charges \in Nat /\ periods \in 0 .. MaxPeriods /\ stray \in 0 .. MaxSignals
  /\ hidden \in 0 .. MaxTrouble /\ trouble \in 0 .. MaxTrouble

\* The subscription is charged once and then once for each period that ends,
\* whatever is paused, resumed, attempted again or told in between: one charge
\* more for a reply that was lost, and one for a resume nothing was paused for.
RenewalsAreDue == charges <= 1 + periods + hidden + stray

\* A cancel ends the workflow wherever it arrives, without waiting for time.
CancelEnds == waiting["cancel"] > 0 ~> at \in Closed

\* Refuted: a resume without a pause is no-op (membership_lifecycle.go:412).
StrayResumeIsNoOp == at = "renew" => due

\* Refuted: a membership that is paused is not charged (the deadline runs on).
PausedIsNotCharged == [][paused => charges' = charges]_vars

\* Refuted: a membership that fails at its start was not charged.
FailedStartChargedNobody == at = "failed" /\ "record" \notin ledger => charges = 0
=============================================================================

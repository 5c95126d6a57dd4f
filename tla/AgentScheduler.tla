--------------------------- MODULE AgentScheduler ---------------------------
(***************************************************************************)
(* The agent scheduler (internal/agent/orchestrator.go) that mc-api runs   *)
(* on its worker pool: Submit stores a run, queues it and dispatches;      *)
(* a pool worker executes it and dispatches the next; Cancel, Wait and     *)
(* Close come from other goroutines.  The scheduler's mutex guards the     *)
(* queue, the slots and the waiters; the store of runs has a lock of its   *)
(* own, so a run read from it may have changed when it is written back.    *)
(* The pool is here by what WorkerPool shows of it: a channel of           *)
(* MaxConcurrent tasks, as many workers, a task taken by a free one.       *)
(***************************************************************************)
EXTENDS Naturals, FiniteSets

CONSTANTS
  Run,            \* calls of Submit, each with its run
  Priority,       \* the priority each asks for
  Panicky,        \* runs whose agent may panic
  Canceller,      \* calls of Cancel
  Waiter,         \* calls of Wait
  About,          \* the runs each call of Cancel or Wait may name
  MaxConcurrent,  \* slots, pool workers and capacity of the pool's channel
  NoRun

ASSUME SchedulerAssumption ==
  /\ IsFiniteSet(Run) /\ NoRun \notin Run
  /\ Priority \in [Run -> Nat] /\ Panicky \subseteq Run
  /\ About \in [Canceller \cup Waiter -> SUBSET Run]
  /\ MaxConcurrent \in Nat \ {0}

VARIABLES
  state,     \* the store: the state of each run ("none": not created)
  sub,       \* where each Submit is
  queue,     \* the runs in the priority queue
  sequence,  \* the number each run was pushed with (0: not pushed)
  running,   \* the scheduler's count of taken slots
  cancels,   \* runs with an entry in the cancels map
  ctxDone,   \* runs whose context is cancelled
  exec,      \* where the execution of each run is
  outcome,   \* what its agent returned
  cancel,    \* where each Cancel is, and of which run
  waiter,    \* where each Wait is, and for which run
  closing,   \* where Close is
  leaving    \* queue items Close has still to cancel

vars == <<state, sub, queue, sequence, running, cancels, ctxDone, exec, outcome, cancel, waiter,
          closing, leaving>>
schedVars == <<queue, sequence, running, cancels>>
closeVars == <<closing, leaving>>

Terminal == {"succeeded", "failed", "cancelled"}
States == {"none", "queued", "running"} \cup Terminal
Subs == {"new", "open", "created", "refusing", "accepted", "refused"}
Execs == {"none", "handed", "agent", "finish", "release", "notify", "over", "dead"}
Cancels == {"new", "write", "notify", "cancelled", "lock", "signalled", "refused"}
Waits == {"new", "register", "registered", "answered"}

Init ==
  /\ state = [r \in Run |-> "none"]
  /\ sub = [r \in Run |-> "new"]
  /\ queue = {} /\ sequence = [r \in Run |-> 0] /\ running = 0 /\ cancels = {} /\ ctxDone = {}
  /\ exec = [r \in Run |-> "none"] /\ outcome = [r \in Run |-> "none"]
  /\ cancel = [c \in Canceller |-> [at |-> "new", run |-> NoRun]]
  /\ waiter = [w \in Waiter |-> [at |-> "new", run |-> NoRun]]
  /\ closing = "no" /\ leaving = {}

closed == closing # "no"
With(e, phase) == {r \in Run : e[r] \in phase}

-----------------------------------------------------------------------------
(* Dispatch and notify, both under the scheduler's mutex *)

\* notifyLocked: every waiter registered for one of the runs is answered.
Notified(runs) ==
  [w \in Waiter |-> IF waiter[w].at = "registered" /\ waiter[w].run \in runs
                    THEN [waiter[w] EXCEPT !.at = "answered"] ELSE waiter[w]]

\* The heap's order, the runs being pushed with the numbers num.
Before(num, r, s) ==
  Priority[r] > Priority[s] \/ (Priority[r] = Priority[s] /\ num[r] < num[s])

\* Slip: one less than the slots.
PoolDepthOneShort == MaxConcurrent - 1

\* The capacity of the pool's channel, as NewScheduler sets it.
PoolDepth == MaxConcurrent

\* dispatchLocked on queue q, its runs pushed with the numbers num, with `used` slots
\* taken, the executions being e and the cancels map c.  Items are popped while a slot
\* is free; those no longer queued are dropped; the others go to the pool.  Should its
\* channel be full, they fail.
Dispatch(q, num, used, e, c) ==
  LET live == {r \in q : state[r] = "queued"}
      ahead(r) == Cardinality({s \in live : Before(num, s, r)})
      popped == {r \in q : ahead(r) < MaxConcurrent - used}
      room == PoolDepth - Cardinality(With(e, {"handed"}))
      handed == {r \in popped \cap live : ahead(r) < room}
      full == handed # popped \cap live
      failed == IF full THEN live \ handed ELSE {}
  IN /\ queue' = IF full THEN {} ELSE q \ popped
     /\ sequence' = num
     /\ running' = used + Cardinality(handed)
     /\ cancels' = c \cup handed
     /\ exec' = [r \in Run |-> IF r \in handed THEN "handed" ELSE e[r]]
     /\ state' = [r \in Run |-> IF r \in failed THEN "failed" ELSE state[r]]
     /\ waiter' = Notified(failed)

\* After Close dispatchLocked returns at once.
DispatchUnlessClosed(q, num, used, e, c) ==
  IF closed
  THEN /\ queue' = q /\ sequence' = num /\ running' = used /\ cancels' = c /\ exec' = e
       /\ UNCHANGED <<state, waiter>>
  ELSE Dispatch(q, num, used, e, c)

\* cancelRun: the run is stored as cancelled, then its waiters are told.
CancelRun(r) ==
  /\ state' = [state EXCEPT ![r] = "cancelled"]
  /\ waiter' = Notified({r})

-----------------------------------------------------------------------------
(* Submit *)

Submitted(r, from, to) == sub[r] = from /\ sub' = [sub EXCEPT ![r] = to]

SubmitCheck(r) ==
  /\ Submitted(r, "new", IF closed THEN "refused" ELSE "open")
  /\ UNCHANGED <<state, schedVars, ctxDone, exec, outcome, cancel, waiter, closeVars>>

CreateRun(r) ==
  /\ Submitted(r, "open", "created")
  /\ state' = [state EXCEPT ![r] = "queued"]
  /\ UNCHANGED <<schedVars, ctxDone, exec, outcome, cancel, waiter, closeVars>>

\* s.sequence counts the pushes.
Numbered(r) == [sequence EXCEPT ![r] = 1 + Cardinality({s \in Run : sequence[s] > 0})]

\* Slip: closed is not looked at again under the mutex.
PushUnchecked(r) ==
  /\ Submitted(r, "created", "accepted")
  /\ DispatchUnlessClosed(queue \cup {r}, Numbered(r), running, exec, cancels)
  /\ UNCHANGED <<ctxDone, outcome, cancel, closeVars>>

Push(r) ==
  /\ ~closed
  /\ Submitted(r, "created", "accepted")
  /\ Dispatch(queue \cup {r}, Numbered(r), running, exec, cancels)
  /\ UNCHANGED <<ctxDone, outcome, cancel, closeVars>>

FindClosed(r) ==
  /\ closed
  /\ Submitted(r, "created", "refusing")
  /\ UNCHANGED <<state, schedVars, ctxDone, exec, outcome, cancel, waiter, closeVars>>

Refuse(r) ==
  /\ Submitted(r, "refusing", "refused")
  /\ CancelRun(r)
  /\ UNCHANGED <<schedVars, ctxDone, exec, outcome, cancel, closeVars>>

-----------------------------------------------------------------------------
(* A pool worker runs execute *)

Executed(r, from, to) == exec[r] = from /\ exec' = [exec EXCEPT ![r] = to]
Busy == With(exec, {"agent", "finish", "release", "notify"})

\* A free worker takes the task; the run as it was when dispatched is stored as running.
Begin(r) ==
  /\ Cardinality(Busy) < MaxConcurrent
  /\ Executed(r, "handed", "agent")
  /\ state' = [state EXCEPT ![r] = "running"]
  /\ UNCHANGED <<sub, schedVars, ctxDone, outcome, cancel, waiter, closeVars>>

\* The agent returns; context.Canceled only if its context is.
AgentReturns(r, o) ==
  /\ o = "cancelled" => r \in ctxDone
  /\ Executed(r, "agent", "finish")
  /\ outcome' = [outcome EXCEPT ![r] = o]
  /\ UNCHANGED <<state, sub, schedVars, ctxDone, cancel, waiter, closeVars>>

\* The agent panics: the pool recovers, the rest of execute does not happen.
AgentPanics(r) ==
  /\ r \in Panicky
  /\ Executed(r, "agent", "dead")
  /\ UNCHANGED <<state, sub, schedVars, ctxDone, outcome, cancel, waiter, closeVars>>

StoreOutcome(r) ==
  /\ Executed(r, "finish", "release")
  /\ state' = [state EXCEPT ![r] = outcome[r]]
  /\ UNCHANGED <<sub, schedVars, ctxDone, outcome, cancel, waiter, closeVars>>

\* Slips: the slot is given back without a dispatch, or the cancels map is forgotten.
ReleaseOnly(r) ==
  /\ Executed(r, "release", "notify")
  /\ running' = running - 1 /\ cancels' = cancels \ {r}
  /\ UNCHANGED <<state, sub, queue, sequence, ctxDone, outcome, cancel, waiter, closeVars>>
ReleaseSlotOnly(r) ==
  /\ exec[r] = "release"
  /\ DispatchUnlessClosed(queue, sequence, running - 1, [exec EXCEPT ![r] = "notify"], cancels)
  /\ UNCHANGED <<sub, ctxDone, outcome, cancel, closeVars>>

Release(r) ==
  /\ exec[r] = "release"
  /\ DispatchUnlessClosed(queue, sequence, running - 1, [exec EXCEPT ![r] = "notify"], cancels \ {r})
  /\ UNCHANGED <<sub, ctxDone, outcome, cancel, closeVars>>

Notify(r) ==
  /\ Executed(r, "notify", "over")
  /\ waiter' = Notified({r})
  /\ UNCHANGED <<state, sub, schedVars, ctxDone, outcome, cancel, closeVars>>

-----------------------------------------------------------------------------
(* Cancel *)

\* The state is read from the store; the branch is taken on what was read.
CancelRead(c, r) ==
  /\ cancel[c].at = "new" /\ r \in About[c] /\ state[r] # "none"
  /\ cancel' = [cancel EXCEPT ![c] =
       [at |-> CASE state[r] = "queued" -> "write"
                 [] state[r] = "running" -> "lock"
                 [] OTHER -> "refused",
        run |-> r]]
  /\ UNCHANGED <<state, sub, schedVars, ctxDone, exec, outcome, waiter, closeVars>>

CancelWrite(c) ==
  /\ cancel[c].at = "write"
  /\ state' = [state EXCEPT ![cancel[c].run] = "cancelled"]
  /\ cancel' = [cancel EXCEPT ![c].at = "notify"]
  /\ UNCHANGED <<sub, schedVars, ctxDone, exec, outcome, waiter, closeVars>>

CancelNotify(c) ==
  /\ cancel[c].at = "notify"
  /\ waiter' = Notified({cancel[c].run})
  /\ cancel' = [cancel EXCEPT ![c].at = "cancelled"]
  /\ UNCHANGED <<state, sub, schedVars, ctxDone, exec, outcome, closeVars>>

CancelSignal(c) ==
  /\ cancel[c].at = "lock"
  /\ \/ /\ cancel[c].run \in cancels
        /\ ctxDone' = ctxDone \cup {cancel[c].run}
        /\ cancel' = [cancel EXCEPT ![c].at = "signalled"]
     \/ /\ cancel[c].run \notin cancels
        /\ cancel' = [cancel EXCEPT ![c].at = "refused"]
        /\ UNCHANGED ctxDone
  /\ UNCHANGED <<state, sub, schedVars, exec, outcome, waiter, closeVars>>

-----------------------------------------------------------------------------
(* Wait *)

WaitRead(w, r) ==
  /\ waiter[w].at = "new" /\ r \in About[w] /\ state[r] # "none"
  /\ waiter' = [waiter EXCEPT ![w] =
       [at |-> IF state[r] \in Terminal THEN "answered" ELSE "register", run |-> r]]
  /\ UNCHANGED <<state, sub, schedVars, ctxDone, exec, outcome, cancel, closeVars>>

WaitRegister(w) ==
  /\ waiter[w].at = "register"
  /\ waiter' = [waiter EXCEPT ![w].at = "registered"]
  /\ UNCHANGED <<state, sub, schedVars, ctxDone, exec, outcome, cancel, closeVars>>

-----------------------------------------------------------------------------
(* Close *)

\* The first Close takes the queue; whoever comes later finds it closed.
CloseQueue ==
  /\ closing = "no"
  /\ closing' = "items"
  /\ leaving' = queue /\ queue' = {}
  /\ UNCHANGED <<state, sub, sequence, running, cancels, ctxDone, exec, outcome, cancel, waiter>>

\* A later Close returns nil at once, whatever the first one has still to do.
CloseAgain == closed /\ UNCHANGED vars

CloseItem(r) ==
  /\ closing = "items" /\ r \in leaving
  /\ leaving' = leaving \ {r}
  /\ IF state[r] = "queued" THEN CancelRun(r) ELSE UNCHANGED <<state, waiter>>
  /\ UNCHANGED <<sub, schedVars, ctxDone, exec, outcome, cancel, closing>>

CloseSignal ==
  /\ closing = "items" /\ leaving = {}
  /\ closing' = "drain"
  /\ ctxDone' = ctxDone \cup cancels
  /\ UNCHANGED <<state, sub, schedVars, exec, outcome, cancel, waiter, leaving>>

CloseDrained ==
  /\ closing = "drain" /\ With(exec, {"handed"}) \cup Busy = {}
  /\ closing' = "closed"
  /\ UNCHANGED <<state, sub, schedVars, ctxDone, exec, outcome, cancel, waiter, leaving>>

\* The shutdown deadline fires while the pool drains.
CloseDeadline ==
  /\ closing = "drain"
  /\ closing' = "deadline"
  /\ UNCHANGED <<state, sub, schedVars, ctxDone, exec, outcome, cancel, waiter, leaving>>

-----------------------------------------------------------------------------

SubmitStep(r) == SubmitCheck(r) \/ CreateRun(r) \/ Push(r) \/ FindClosed(r) \/ Refuse(r)
ExecuteStep(r) ==
  \/ Begin(r) \/ StoreOutcome(r) \/ Release(r) \/ Notify(r)
  \/ \E o \in Terminal : AgentReturns(r, o)
CancelStep(c) == CancelWrite(c) \/ CancelNotify(c) \/ CancelSignal(c)
CloseStep == (\E r \in Run : CloseItem(r)) \/ CloseSignal \/ CloseDrained

Next ==
  \/ \E r \in Run : SubmitStep(r) \/ ExecuteStep(r) \/ AgentPanics(r)
  \/ \E c \in Canceller : CancelStep(c) \/ \E r \in Run : CancelRead(c, r)
  \/ \E w \in Waiter : WaitRegister(w) \/ \E r \in Run : WaitRead(w, r)
  \/ CloseQueue \/ CloseStep \/ CloseDeadline \/ CloseAgain

Spec == Init /\ [][Next]_vars

\* Goroutines are scheduled and agents return; Cancel, Wait and Close need not be called.
Fairness ==
  /\ \A r \in Run : WF_vars(SubmitStep(r)) /\ WF_vars(ExecuteStep(r))
  /\ \A c \in Canceller : WF_vars(CancelStep(c))
  /\ \A w \in Waiter : WF_vars(WaitRegister(w))
  /\ WF_vars(CloseStep)

FairSpec == Spec /\ Fairness

-----------------------------------------------------------------------------
(* Properties *)

\* Every variable stays in its domain.
TypeOK ==
  /\ state \in [Run -> States] /\ sub \in [Run -> Subs]
  /\ queue \subseteq Run /\ sequence \in [Run -> 0..Cardinality(Run)] /\ leaving \subseteq Run
  /\ running \in 0..MaxConcurrent
  /\ cancels \subseteq Run /\ ctxDone \subseteq Run
  /\ exec \in [Run -> Execs] /\ outcome \in [Run -> {"none"} \cup Terminal]
  /\ cancel \in [Canceller -> [at : Cancels, run : Run \cup {NoRun}]]
  /\ waiter \in [Waiter -> [at : Waits, run : Run \cup {NoRun}]]
  /\ closing \in {"no", "items", "drain", "closed", "deadline"}

\* running counts the executions that hold a slot, and they are those that can be
\* cancelled: the two places dispatchLocked and execute keep in step by hand.
SlotsAreExecutions ==
  /\ running = Cardinality(With(exec, {"handed", "agent", "finish", "release", "dead"}))
  /\ cancels = With(exec, {"handed", "agent", "finish", "release", "dead"})

\* The pool's channel is as deep as the slots are many, so the pool never refuses what
\* the scheduler hands it: no run fails for dispatch.
DispatchFits == \A r \in Run : state[r] = "failed" => exec[r] \notin {"none", "handed"}

Answered(r) == sub[r] \in {"accepted", "refused"}
Ended(r) == state[r] \in Terminal \cup {"none"} \/ exec[r] = "dead"

\* "Close cancels queued and running work, ... and drains the scheduler worker pool":
\* once the Close that did so has returned nil, no run a Submit has answered for is
\* left unfinished, but for those whose agent panicked, which nobody stores as failed.
\* A later Close may return nil from the moment the first has begun, so that it
\* promises less: what has not ended then is in the pool's hands or among the items
\* the first still cancels, and nothing waits to be dispatched.
ClosedMeansEnded ==
  \A r \in Run : Answered(r) =>
    /\ closing = "closed" => Ended(r)
    /\ closed => Ended(r) \/ r \in leaving \/ r \in With(exec, {"handed"}) \cup Busy

\* "It is safe to call more than once" (orchestrator.go, on Close), read as: whichever
\* Close returns nil, the work has ended.
EveryCloseMeansEnded == closed => \A r \in Run : Answered(r) => Ended(r)

\* Every accepted run ends, for good, whatever Cancel and Close do.  A panicking agent
\* takes its own run and its slot with it: only when every slot went that way may
\* another run stay where it is.
EveryRunEnds ==
  \A r \in Run : sub[r] = "accepted" ~>
    [](\/ state[r] \in Terminal
       \/ exec[r] = "dead"
       \/ Cardinality(With(exec, {"dead"})) = MaxConcurrent)

\* A run Cancel took out of the queue is and stays cancelled.
CancelHolds == \A c \in Canceller : cancel[c].at = "cancelled" => state[cancel[c].run] = "cancelled"

\* Wait returns once the run ends.
EveryWaitEnds == \A w \in Waiter : waiter[w].at # "new" ~> waiter[w].at = "answered"

=============================================================================

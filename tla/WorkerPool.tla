----------------------------- MODULE WorkerPool -----------------------------
(***************************************************************************)
(* The bounded goroutine pool (internal/workerpool/pool.go): callers       *)
(* submit tasks to a buffered channel, workers range over it, Close closes *)
(* the channel and waits for the workers.  Submit looks at the closed flag *)
(* under the mutex, lets the mutex go and sends; it counts the task only   *)
(* after the send.  A task is one call of Submit.                          *)
(***************************************************************************)
EXTENDS Integers, Sequences, FiniteSets

CONSTANTS
  Task,        \* calls of Submit
  Worker,      \* goroutines of the pool (MaxWorkers of them)
  Closer,      \* calls of Close
  QueueDepth,  \* capacity of the channel
  Cancels      \* the context of a Submit may be cancelled

ASSUME PoolAssumption ==
  /\ QueueDepth \in Nat \ {0} /\ Cancels \in BOOLEAN
  /\ IsFiniteSet(Task) /\ IsFiniteSet(Worker) /\ Worker # {}
  /\ Task \cap {"idle", "gone"} = {}

VARIABLES
  closed,     \* the flag, and the channel: closed together under the mutex
  tasks,      \* the channel
  call,       \* where each Submit is, or what it returned
  worker,     \* what each worker runs
  ran,        \* tasks whose function has returned or panicked
  submitted,  \* the two counters the gauge is computed from
  completed,
  closing     \* where each Close is, or what it returned

vars == <<closed, tasks, call, worker, ran, submitted, completed, closing>>

Calls == {"new", "open", "sent", "accepted", "saturated", "refused", "cancelled", "panicked"}
Closings == {"new", "waiting", "drained", "already", "deadline"}

Init ==
  /\ closed = FALSE /\ tasks = <<>>
  /\ call = [t \in Task |-> "new"]
  /\ worker = [w \in Worker |-> "idle"]
  /\ ran = {} /\ submitted = 0 /\ completed = 0
  /\ closing = [c \in Closer |-> "new"]

-----------------------------------------------------------------------------
(* Submit *)

Step(t, from, to) == call[t] = from /\ call' = [call EXCEPT ![t] = to]

\* Under the mutex: closed, or not yet.
CheckClosed(t) ==
  /\ Step(t, "new", IF closed THEN "refused" ELSE "open")
  /\ UNCHANGED <<closed, tasks, worker, ran, submitted, completed, closing>>

\* ctx.Err() before the select, or ctx.Done() in it.
CancelSubmit(t) ==
  /\ Cancels
  /\ Step(t, "open", "cancelled")
  /\ UNCHANGED <<closed, tasks, worker, ran, submitted, completed, closing>>

Room == Len(tasks) < QueueDepth

\* The send case of the select.
Send(t) ==
  /\ ~closed /\ Room
  /\ Step(t, "open", "sent")
  /\ tasks' = Append(tasks, t)
  /\ UNCHANGED <<closed, worker, ran, submitted, completed, closing>>

\* The default case.
Saturate(t) ==
  /\ ~closed /\ ~Room
  /\ Step(t, "open", "saturated")
  /\ UNCHANGED <<closed, tasks, worker, ran, submitted, completed, closing>>

\* A send on a closed channel, which Go answers with a panic in the caller.
SendOnClosed(t) ==
  /\ closed
  /\ Step(t, "open", "panicked")
  /\ UNCHANGED <<closed, tasks, worker, ran, submitted, completed, closing>>

CountSubmitted(t) ==
  /\ Step(t, "sent", "accepted")
  /\ submitted' = submitted + 1
  /\ UNCHANGED <<closed, tasks, worker, ran, completed, closing>>

-----------------------------------------------------------------------------
(* Workers *)

Take(w) ==
  /\ worker[w] = "idle" /\ tasks # <<>>
  /\ worker' = [worker EXCEPT ![w] = Head(tasks)]
  /\ tasks' = Tail(tasks)
  /\ UNCHANGED <<closed, call, ran, submitted, completed, closing>>

\* Slip: a panic leaves the worker's loop.
FinishOrDie(w) ==
  /\ worker[w] \in Task
  /\ ran' = ran \cup {worker[w]}
  /\ \/ worker' = [worker EXCEPT ![w] = "idle"] /\ completed' = completed + 1
     \/ worker' = [worker EXCEPT ![w] = "gone"] /\ completed' = completed
  /\ UNCHANGED <<closed, tasks, call, submitted, closing>>

\* The task returned, failed or panicked: the deferred function counts it.
Finish(w) ==
  /\ worker[w] \in Task
  /\ ran' = ran \cup {worker[w]}
  /\ worker' = [worker EXCEPT ![w] = "idle"]
  /\ completed' = completed + 1
  /\ UNCHANGED <<closed, tasks, call, submitted, closing>>

\* Slip: the worker leaves as soon as the channel is closed.
LeaveAtOnce(w) ==
  /\ worker[w] = "idle" /\ closed
  /\ worker' = [worker EXCEPT ![w] = "gone"]
  /\ UNCHANGED <<closed, tasks, call, ran, submitted, completed, closing>>

\* Slip: the flag is only looked at after a task, so an idle worker stays.
LeaveAfterWork(w) ==
  /\ worker[w] \in Task /\ closed /\ tasks = <<>>
  /\ ran' = ran \cup {worker[w]} /\ completed' = completed + 1
  /\ worker' = [worker EXCEPT ![w] = "gone"]
  /\ UNCHANGED <<closed, tasks, call, submitted, closing>>

\* range ends when the channel is closed and empty.
Leave(w) ==
  /\ worker[w] = "idle" /\ closed /\ tasks = <<>>
  /\ worker' = [worker EXCEPT ![w] = "gone"]
  /\ UNCHANGED <<closed, tasks, call, ran, submitted, completed, closing>>

-----------------------------------------------------------------------------
(* Close *)

BeginClose(c) ==
  /\ closing[c] = "new"
  /\ closing' = [closing EXCEPT ![c] = IF closed THEN "already" ELSE "waiting"]
  /\ closed' = TRUE
  /\ UNCHANGED <<tasks, call, worker, ran, submitted, completed>>

Drained(c) ==
  /\ closing[c] = "waiting" /\ \A w \in Worker : worker[w] = "gone"
  /\ closing' = [closing EXCEPT ![c] = "drained"]
  /\ UNCHANGED <<closed, tasks, call, worker, ran, submitted, completed>>

Deadline(c) ==
  /\ Cancels /\ closing[c] = "waiting"
  /\ closing' = [closing EXCEPT ![c] = "deadline"]
  /\ UNCHANGED <<closed, tasks, call, worker, ran, submitted, completed>>

-----------------------------------------------------------------------------

SubmitStep(t) == CheckClosed(t) \/ Send(t) \/ Saturate(t) \/ SendOnClosed(t) \/ CountSubmitted(t)
WorkerStep(w) == Take(w) \/ Finish(w) \/ Leave(w)
CloseStep(c) == Drained(c) \/ Deadline(c)

Next ==
  \/ \E t \in Task : SubmitStep(t) \/ CancelSubmit(t)
  \/ \E w \in Worker : WorkerStep(w)
  \/ \E c \in Closer : BeginClose(c) \/ CloseStep(c)

Spec == Init /\ [][Next]_vars

\* The scheduler runs every goroutine, and tasks return.  Nobody has to call Close,
\* and no context has to end.
Fairness ==
  /\ \A t \in Task : WF_vars(SubmitStep(t))
  /\ \A w \in Worker : WF_vars(WorkerStep(w))
  /\ \A c \in Closer : WF_vars(Drained(c))

FairSpec == Spec /\ Fairness

-----------------------------------------------------------------------------
(* Properties *)

\* Every variable stays in its domain; the channel within its capacity.
TypeOK ==
  /\ closed \in BOOLEAN
  /\ tasks \in Seq(Task) /\ Len(tasks) <= QueueDepth
  /\ call \in [Task -> Calls]
  /\ worker \in [Worker -> Task \cup {"idle", "gone"}]
  /\ ran \subseteq Task
  /\ submitted \in 0..Cardinality(Task) /\ completed \in 0..Cardinality(Task)
  /\ closing \in [Closer -> Closings]

Sent(t) == call[t] \in {"sent", "accepted"}

\* Close "drains in-flight + queued tasks, and blocks until all workers exit": once it
\* has returned nil for a drained pool, every task that was ever sent has been run.
DrainedMeansRun ==
  (\E c \in Closer : closing[c] = "drained") => \A t \in Task : Sent(t) => t \in ran

\* A task that was accepted is run, whenever Close is called and whatever panics.
AcceptedRuns == \A t \in Task : Sent(t) ~> t \in ran

\* Close returns.
CloseReturns == \A c \in Closer : closing[c] = "waiting" ~> closing[c] \in {"drained", "deadline"}

\* Submit returns "ErrPoolClosed if the pool has been closed": it does not panic.
SubmitDoesNotPanic == \A t \in Task : call[t] # "panicked"

\* Close "blocks until all workers exit or ctx fires", whoever else has called it.
CloseMeansDrained ==
  \A c \in Closer : closing[c] \in {"drained", "already"} => \A w \in Worker : worker[w] = "gone"

\* The gauge is "the current active worker count", so never negative.
ActiveIsACount == submitted - completed >= 0

=============================================================================

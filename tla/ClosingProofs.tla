--------------------------- MODULE ClosingProofs ---------------------------
(* Theorems about what a process ends with: WorkerPool, for any number of    *)
(* callers, workers and closers and any depth of the channel (a task that    *)
(* was sent is at every moment in exactly one place, so none runs twice and  *)
(* none is forgotten by a drain), and the coordinators of Shutdown, for any  *)
(* components, callers, durations and budget.                                *)
EXTENDS WorkerPool, ClosingPromises, FiniteSetTheorems, SequenceTheorems, TLAPS

Positions == 1 .. Len(tasks)
Queued(t) == \E n \in Positions : tasks[n] = t
Held(t) == \E w \in Worker : worker[w] = t
Accepted == {t \in Task : call[t] = "accepted"}

\* TypeOK without the counters.
DomainsOK ==
  /\ tasks \in Seq(Task) /\ Len(tasks) <= QueueDepth
  /\ call \in [Task -> Calls]
  /\ worker \in [Worker -> Task \cup {"idle", "gone"}]
  /\ ran \subseteq Task
  /\ closing \in [Closer -> Closings]
FlagOK == closed \in BOOLEAN

\* What was sent waits, is held or has run; and nothing else is or does.
SentIsSomewhere == \A t \in Task : Sent(t) <=> Queued(t) \/ Held(t) \/ t \in ran

\* It does only one of the three, in only one place of the channel and worker.
OnePlace ==
  /\ \A m, n \in Positions : tasks[m] = tasks[n] => m = n
  /\ \A v, w \in Worker : worker[v] \in Task /\ worker[v] = worker[w] => v = w
  /\ \A t \in Task : /\ Queued(t) => ~Held(t) /\ t \notin ran
                     /\ Held(t) => t \notin ran

CountsOK == submitted = Cardinality(Accepted) /\ completed = Cardinality(ran)

\* A worker leaves only a closed, empty channel, and a drain waits for all.
GoneMeansOver == (\E w \in Worker : worker[w] = "gone") => closed /\ tasks = <<>>
DrainedMeansGone ==
  (\E c \in Closer : closing[c] = "drained") => \A w \in Worker : worker[w] = "gone"

IInv ==
  /\ FlagOK /\ DomainsOK /\ SentIsSomewhere /\ OnePlace /\ CountsOK
  /\ GoneMeansOver /\ DrainedMeansGone

-----------------------------------------------------------------------------
\* A step of one Submit that sends nothing changes no task's being sent.
LEMMA StepSends ==
  ASSUME DomainsOK, NEW t \in Task, NEW from \in Calls, NEW to \in Calls, Step(t, from, to)
  PROVE  /\ call' \in [Task -> Calls]
         /\ call[t] = from /\ call'[t] = to
         /\ \A s \in Task \ {t} : call'[s] = call[s]
BY DEF DomainsOK, Step

\* The head of the channel leaves it, the others move up.
LEMMA TailOfTasks ==
  ASSUME DomainsOK, tasks # <<>>
  PROVE  /\ Head(tasks) = tasks[1] /\ Head(tasks) \in Task /\ 1 \in Positions
         /\ Tail(tasks) \in Seq(Task) /\ Len(Tail(tasks)) = Len(tasks) - 1
         /\ \A n \in 1 .. Len(Tail(tasks)) : n + 1 \in Positions /\ Tail(tasks)[n] = tasks[n + 1]
<1>1. tasks \in Seq(Task)
  BY DEF DomainsOK
<1> QED BY <1>1 DEF Positions

-----------------------------------------------------------------------------
LEMMA InitInv == Init => IInv
<1> SUFFICES ASSUME Init PROVE IInv
  OBVIOUS
<1>1. FlagOK /\ DomainsOK
  <2>1. FlagOK
    BY Zenon DEF Init, FlagOK
  <2>2. DomainsOK
    BY PoolAssumption DEF Init, DomainsOK, Calls, Closings, PoolAssumption
  <2> QED BY <2>1, <2>2
<1>2. SentIsSomewhere /\ OnePlace
  BY PoolAssumption DEF Init, SentIsSomewhere, OnePlace, Sent, Queued, Held, Positions, PoolAssumption
<1>3. Accepted = {}
  BY DEF Init, Accepted
<1>4. CountsOK
  BY <1>3, FS_EmptySet DEF Init, CountsOK
<1>5. GoneMeansOver /\ DrainedMeansGone
  BY DEF Init, GoneMeansOver, DrainedMeansGone
<1> QED BY <1>1, <1>2, <1>4, <1>5 DEF IInv

\* The steps of a Submit that put nothing in the channel and accept nothing.
LEMMA QuietInv ==
  ASSUME IInv, NEW t \in Task,
         CheckClosed(t) \/ CancelSubmit(t) \/ Saturate(t) \/ SendOnClosed(t)
  PROVE  IInv'
<1> USE DEF IInv
<1>1. PICK from \in {"new", "open"}, to \in {"refused", "open", "cancelled", "saturated", "panicked"} :
        Step(t, from, to)
  BY DEF CheckClosed, CancelSubmit, Saturate, SendOnClosed
<1>2. UNCHANGED <<closed, tasks, worker, ran, submitted, completed, closing>>
  BY DEF CheckClosed, CancelSubmit, Saturate, SendOnClosed
<1>3. /\ call' \in [Task -> Calls] /\ call[t] = from /\ call'[t] = to
      /\ \A s \in Task \ {t} : call'[s] = call[s]
  BY <1>1, StepSends DEF Calls
<1>4. Accepted' = Accepted /\ \A s \in Task : Sent(s)' <=> Sent(s)
  BY <1>1, <1>3 DEF Accepted, Sent
<1>5. DomainsOK'
  BY <1>2, <1>3 DEF DomainsOK
<1>6. FlagOK' /\ CountsOK'
  BY <1>2, <1>4 DEF FlagOK, CountsOK
<1>7. OnePlace' /\ GoneMeansOver' /\ DrainedMeansGone'
  BY <1>2 DEF OnePlace, Queued, Held, Positions, GoneMeansOver, DrainedMeansGone
<1>8. SentIsSomewhere'
  BY <1>2, <1>4 DEF SentIsSomewhere, Queued, Held, Positions
<1> QED BY <1>5, <1>6, <1>7, <1>8

LEMMA SendInv == ASSUME IInv, NEW t \in Task, Send(t) PROVE IInv'
<1> USE DEF IInv
<1>1. /\ ~closed /\ Len(tasks) < QueueDepth /\ Step(t, "open", "sent") /\ tasks' = Append(tasks, t)
      /\ UNCHANGED <<closed, worker, ran, submitted, completed, closing>>
  BY DEF Send, Room
<1>2. /\ call' \in [Task -> Calls] /\ call[t] = "open" /\ call'[t] = "sent"
      /\ \A s \in Task \ {t} : call'[s] = call[s]
  BY <1>1, StepSends DEF Calls
<1>3. /\ tasks \in Seq(Task) /\ tasks' \in Seq(Task) /\ Len(tasks') = Len(tasks) + 1
      /\ Len(tasks) \in Nat
      /\ tasks'[Len(tasks) + 1] = t /\ \A n \in Positions : tasks'[n] = tasks[n]
  BY <1>1 DEF DomainsOK, Positions
<1>4. ~Queued(t) /\ ~Held(t) /\ t \notin ran
  BY <1>2 DEF SentIsSomewhere, Sent
<1>5. \A s \in Task : Queued(s)' <=> Queued(s) \/ s = t
  BY <1>3 DEF Queued, Positions
<1>6. DomainsOK'
  BY <1>1, <1>2, <1>3, PoolAssumption DEF DomainsOK, PoolAssumption
<1>7. SentIsSomewhere'
  BY <1>1, <1>2, <1>5 DEF SentIsSomewhere, Sent, Held
<1>8. OnePlace'
  <2>1. \A m, n \in Positions' : tasks'[m] = tasks'[n] => m = n
    BY <1>3, <1>4 DEF OnePlace, Positions, Queued
  <2>2. \A v, w \in Worker' : worker'[v] \in Task /\ worker'[v] = worker'[w] => v = w
    BY <1>1 DEF OnePlace
  <2>3. \A s \in Task : /\ Queued(s)' => ~Held(s)' /\ s \notin ran'
                        /\ Held(s)' => s \notin ran'
    BY <1>1, <1>4, <1>5 DEF OnePlace, Held
  <2> QED BY <2>1, <2>2, <2>3 DEF OnePlace
<1>9. Accepted' = Accepted
  BY <1>2 DEF Accepted
<1>10. FlagOK' /\ CountsOK'
  BY <1>1, <1>9 DEF FlagOK, CountsOK
<1>11. GoneMeansOver' /\ DrainedMeansGone'
  BY <1>1 DEF GoneMeansOver, DrainedMeansGone
<1> QED BY <1>6, <1>7, <1>8, <1>10, <1>11

LEMMA CountSubmittedInv == ASSUME IInv, NEW t \in Task, CountSubmitted(t) PROVE IInv'
<1> USE DEF IInv
<1>1. /\ Step(t, "sent", "accepted") /\ submitted' = submitted + 1
      /\ UNCHANGED <<closed, tasks, worker, ran, completed, closing>>
  BY DEF CountSubmitted
<1>2. /\ call' \in [Task -> Calls] /\ call[t] = "sent" /\ call'[t] = "accepted"
      /\ \A s \in Task \ {t} : call'[s] = call[s]
  BY <1>1, StepSends DEF Calls
<1>3. \A s \in Task : Sent(s)' <=> Sent(s)
  BY <1>2 DEF Sent
<1>4. DomainsOK'
  BY <1>1, <1>2 DEF DomainsOK
<1>5. OnePlace' /\ GoneMeansOver' /\ DrainedMeansGone'
  BY <1>1 DEF OnePlace, Queued, Held, Positions, GoneMeansOver, DrainedMeansGone
<1>6. SentIsSomewhere'
  BY <1>1, <1>3 DEF SentIsSomewhere, Queued, Held, Positions
<1>7. Accepted' = Accepted \cup {t} /\ t \notin Accepted
  BY <1>2 DEF Accepted
<1>8. IsFiniteSet(Accepted)
  BY PoolAssumption, FS_Subset DEF PoolAssumption, Accepted
<1>9. Cardinality(Accepted') = Cardinality(Accepted) + 1
  BY <1>7, <1>8, FS_AddElement
<1>10. FlagOK' /\ CountsOK'
  BY <1>1, <1>9 DEF FlagOK, CountsOK
<1> QED BY <1>4, <1>5, <1>6, <1>10

LEMMA TakeInv == ASSUME IInv, NEW w \in Worker, Take(w) PROVE IInv'
<1> USE DEF IInv
<1>1. /\ worker[w] = "idle" /\ tasks # <<>>
      /\ worker' = [worker EXCEPT ![w] = Head(tasks)] /\ tasks' = Tail(tasks)
      /\ UNCHANGED <<closed, call, ran, submitted, completed, closing>>
  BY DEF Take
<1> DEFINE t == Head(tasks)
<1>2. /\ t = tasks[1] /\ t \in Task /\ 1 \in Positions /\ tasks' \in Seq(Task)
      /\ Len(tasks') = Len(tasks) - 1 /\ Len(tasks) \in Nat
      /\ \A n \in 1 .. Len(tasks') : n + 1 \in Positions /\ tasks'[n] = tasks[n + 1]
  BY <1>1, TailOfTasks DEF DomainsOK
<1>3. /\ worker' \in [Worker -> Task \cup {"idle", "gone"}] /\ worker'[w] = t
      /\ \A v \in Worker \ {w} : worker'[v] = worker[v]
  BY <1>1, <1>2 DEF DomainsOK
<1>4. "idle" \notin Task /\ "gone" \notin Task
  BY PoolAssumption DEF PoolAssumption
<1>5. Queued(t) /\ ~Held(t) /\ t \notin ran
  BY <1>2 DEF Queued, OnePlace
<1>6. \A s \in Task : Queued(s)' <=> Queued(s) /\ s # t
  <2>1. \A n \in Positions : n # 1 => n - 1 \in 1 .. Len(tasks') /\ tasks'[n - 1] = tasks[n]
    BY <1>2 DEF Positions
  <2>2. \A n \in Positions : tasks[n] = t => n = 1
    BY <1>2 DEF OnePlace
  <2>3. ASSUME NEW s \in Task, Queued(s), s # t PROVE Queued(s)'
    <3>1. PICK n \in Positions : tasks[n] = s
      BY <2>3 DEF Queued
    <3> QED BY <1>2, <2>1, <2>3, <3>1 DEF Queued, Positions
  <2>4. ASSUME NEW s \in Task, Queued(s)' PROVE Queued(s) /\ s # t
    <3>1. PICK n \in 1 .. Len(tasks') : tasks'[n] = s
      BY <2>4 DEF Queued, Positions
    <3>2. n + 1 \in Positions /\ tasks[n + 1] = s /\ n + 1 # 1
      BY <1>2, <3>1
    <3> QED BY <2>2, <3>2 DEF Queued
  <2> QED BY <2>3, <2>4
<1>7. \A s \in Task : Held(s)' <=> Held(s) \/ s = t
  BY <1>1, <1>3, <1>4 DEF Held
<1>8. DomainsOK'
  BY <1>1, <1>2, <1>3, PoolAssumption DEF DomainsOK, PoolAssumption
<1>9. SentIsSomewhere'
  BY <1>1, <1>5, <1>6, <1>7 DEF SentIsSomewhere, Sent
<1>10. OnePlace'
  <2>1. ASSUME NEW m \in Positions', NEW n \in Positions', tasks'[m] = tasks'[n] PROVE m = n
    <3>1. m \in 1 .. Len(tasks') /\ n \in 1 .. Len(tasks')
      BY DEF Positions
    <3>2. m + 1 \in Positions /\ n + 1 \in Positions /\ tasks[m + 1] = tasks[n + 1]
      BY <1>2, <2>1, <3>1
    <3>3. m + 1 = n + 1
      BY <3>2 DEF OnePlace
    <3> QED BY <3>1, <3>3
  <2>2. \A u, v \in Worker : worker'[u] \in Task /\ worker'[u] = worker'[v] => u = v
    BY <1>3, <1>5 DEF OnePlace, Held
  <2>3. \A s \in Task : /\ Queued(s)' => ~Held(s)' /\ s \notin ran'
                        /\ Held(s)' => s \notin ran'
    BY <1>1, <1>5, <1>6, <1>7 DEF OnePlace
  <2> QED BY <2>1, <2>2, <2>3 DEF OnePlace
<1>11. FlagOK' /\ CountsOK'
  BY <1>1 DEF FlagOK, CountsOK, Accepted
<1>12. ~\E v \in Worker : worker[v] = "gone"
  BY <1>1 DEF GoneMeansOver
<1>13. GoneMeansOver' /\ DrainedMeansGone'
  BY <1>1, <1>2, <1>3, <1>4, <1>12 DEF GoneMeansOver, DrainedMeansGone
<1> QED BY <1>8, <1>9, <1>10, <1>11, <1>13

LEMMA FinishInv == ASSUME IInv, NEW w \in Worker, Finish(w) PROVE IInv'
<1> USE DEF IInv
<1> DEFINE t == worker[w]
<1>1. /\ t \in Task /\ ran' = ran \cup {t} /\ worker' = [worker EXCEPT ![w] = "idle"]
      /\ completed' = completed + 1
      /\ UNCHANGED <<closed, tasks, call, submitted, closing>>
  BY DEF Finish
<1>2. /\ worker' \in [Worker -> Task \cup {"idle", "gone"}] /\ worker'[w] = "idle"
      /\ \A v \in Worker \ {w} : worker'[v] = worker[v]
  BY <1>1 DEF DomainsOK
<1>3. "idle" \notin Task /\ "gone" \notin Task
  BY PoolAssumption DEF PoolAssumption
<1>4. Held(t) /\ ~Queued(t) /\ t \notin ran
  BY <1>1 DEF Held, OnePlace
<1>5. \A s \in Task : Held(s)' <=> Held(s) /\ s # t
  BY <1>1, <1>2, <1>3 DEF Held, OnePlace
<1>6. \A s \in Task : Queued(s)' <=> Queued(s)
  BY <1>1 DEF Queued, Positions
<1>7. DomainsOK'
  BY <1>1, <1>2 DEF DomainsOK
<1>8. SentIsSomewhere'
  BY <1>1, <1>4, <1>5, <1>6 DEF SentIsSomewhere, Sent
<1>9. OnePlace'
  <2>1. \A m, n \in Positions' : tasks'[m] = tasks'[n] => m = n
    BY <1>1 DEF OnePlace, Positions
  <2>2. \A u, v \in Worker : worker'[u] \in Task /\ worker'[u] = worker'[v] => u = v
    BY <1>2, <1>3 DEF OnePlace
  <2>3. \A s \in Task : /\ Queued(s)' => ~Held(s)' /\ s \notin ran'
                        /\ Held(s)' => s \notin ran'
    BY <1>1, <1>4, <1>5, <1>6 DEF OnePlace
  <2> QED BY <2>1, <2>2, <2>3 DEF OnePlace
<1>10. Cardinality(ran') = Cardinality(ran) + 1
  <2>1. IsFiniteSet(ran)
    BY PoolAssumption, FS_Subset DEF PoolAssumption, DomainsOK
  <2> QED BY <1>1, <1>4, <2>1, FS_AddElement
<1>11. FlagOK' /\ CountsOK'
  BY <1>1, <1>10 DEF FlagOK, CountsOK, Accepted
<1>12. GoneMeansOver' /\ DrainedMeansGone'
  BY <1>1, <1>2, <1>3 DEF GoneMeansOver, DrainedMeansGone
<1> QED BY <1>7, <1>8, <1>9, <1>11, <1>12

LEMMA LeaveInv == ASSUME IInv, NEW w \in Worker, Leave(w) PROVE IInv'
<1> USE DEF IInv
<1>1. /\ worker[w] = "idle" /\ closed /\ tasks = <<>> /\ worker' = [worker EXCEPT ![w] = "gone"]
      /\ UNCHANGED <<closed, tasks, call, ran, submitted, completed, closing>>
  BY DEF Leave
<1>2. /\ worker' \in [Worker -> Task \cup {"idle", "gone"}] /\ worker'[w] = "gone"
      /\ \A v \in Worker \ {w} : worker'[v] = worker[v]
  BY <1>1 DEF DomainsOK
<1>3. "idle" \notin Task /\ "gone" \notin Task
  BY PoolAssumption DEF PoolAssumption
<1>4. \A s \in Task : (Held(s)' <=> Held(s)) /\ (Queued(s)' <=> Queued(s))
  BY <1>1, <1>2, <1>3 DEF Held, Queued, Positions
<1>5. DomainsOK'
  BY <1>1, <1>2 DEF DomainsOK
<1>6. SentIsSomewhere'
  BY <1>1, <1>4 DEF SentIsSomewhere, Sent
<1>7. OnePlace'
  <2>1. \A m, n \in Positions' : tasks'[m] = tasks'[n] => m = n
    BY <1>1 DEF OnePlace, Positions
  <2>2. \A u, v \in Worker : worker'[u] \in Task /\ worker'[u] = worker'[v] => u = v
    BY <1>2, <1>3 DEF OnePlace
  <2> QED BY <1>1, <1>4, <2>1, <2>2 DEF OnePlace
<1>8. FlagOK' /\ CountsOK'
  BY <1>1 DEF FlagOK, CountsOK, Accepted
<1>9. GoneMeansOver' /\ DrainedMeansGone'
  BY <1>1, <1>2 DEF GoneMeansOver, DrainedMeansGone
<1> QED BY <1>5, <1>6, <1>7, <1>8, <1>9

LEMMA CloseInv ==
  ASSUME IInv, NEW c \in Closer, BeginClose(c) \/ Drained(c) \/ Deadline(c)
  PROVE  IInv'
<1> USE DEF IInv
<1>1. UNCHANGED <<tasks, call, worker, ran, submitted, completed>>
  BY DEF BeginClose, Drained, Deadline
<1>2. closing' \in [Closer -> Closings]
  BY DEF BeginClose, Drained, Deadline, DomainsOK, Closings
<1>3. DomainsOK'
  BY <1>1, <1>2 DEF DomainsOK
<1>4. SentIsSomewhere' /\ OnePlace' /\ CountsOK'
  BY <1>1 DEF SentIsSomewhere, OnePlace, CountsOK, Sent, Queued, Held, Positions, Accepted
<1>5. FlagOK' /\ (closed => closed')
  BY DEF BeginClose, Drained, Deadline, FlagOK
<1>6. GoneMeansOver'
  BY <1>1, <1>5 DEF GoneMeansOver
<1>7. DrainedMeansGone'
  BY <1>1 DEF BeginClose, Drained, Deadline, DrainedMeansGone, DomainsOK
<1> QED BY <1>3, <1>4, <1>5, <1>6, <1>7

LEMMA StepInv == IInv /\ [Next]_vars => IInv'
<1> SUFFICES ASSUME IInv, [Next]_vars PROVE IInv'
  OBVIOUS
<1>1. ASSUME NEW t \in Task, SubmitStep(t) \/ CancelSubmit(t) PROVE IInv'
  BY <1>1, QuietInv, SendInv, CountSubmittedInv DEF SubmitStep
<1>2. ASSUME NEW w \in Worker, WorkerStep(w) PROVE IInv'
  BY <1>2, TakeInv, FinishInv, LeaveInv DEF WorkerStep
<1>3. ASSUME NEW c \in Closer, BeginClose(c) \/ CloseStep(c) PROVE IInv'
  BY <1>3, CloseInv DEF CloseStep
<1>4. CASE UNCHANGED vars
  BY <1>4 DEF vars, IInv, FlagOK, DomainsOK, SentIsSomewhere, OnePlace, CountsOK, GoneMeansOver,
              DrainedMeansGone, Sent, Queued, Held, Positions, Accepted
<1> QED BY <1>1, <1>2, <1>3, <1>4 DEF Next

-----------------------------------------------------------------------------
\* The invariant holds throughout: every submission, task and close keeps it.
THEOREM Invariance == Spec => []IInv
<1> QED BY InitInv, StepInv, PTL DEF Spec

\* The pool's state has its types; the counters never pass the number of calls,
\* since no task runs twice.
THEOREM TypeCorrect == Spec => []TypeOK
<1>1. IInv => TypeOK
  <2> SUFFICES ASSUME IInv PROVE TypeOK
    OBVIOUS
  <2>1. IsFiniteSet(Task) /\ Accepted \subseteq Task /\ ran \subseteq Task
    BY PoolAssumption DEF PoolAssumption, IInv, DomainsOK, Accepted
  <2>2. submitted \in 0 .. Cardinality(Task) /\ completed \in 0 .. Cardinality(Task)
    <3>1. /\ Cardinality(Accepted) \in Nat /\ Cardinality(ran) \in Nat /\ Cardinality(Task) \in Nat
          /\ Cardinality(Accepted) <= Cardinality(Task) /\ Cardinality(ran) <= Cardinality(Task)
      BY <2>1, FS_Subset, FS_CardinalityType
    <3> QED BY <3>1 DEF IInv, CountsOK
  <2> QED BY <2>2 DEF IInv, FlagOK, DomainsOK, TypeOK
<1> QED BY <1>1, Invariance, PTL

\* Close drains: once it has returned nil for a drained pool, every task whose
\* Submit sent it has run, whichever callers were still on their way.
THEOREM DrainRunsAll == Spec => []DrainedMeansRun
<1>1. IInv => DrainedMeansRun
  <2> SUFFICES ASSUME IInv, \E c \in Closer : closing[c] = "drained",
                      NEW t \in Task, Sent(t)
               PROVE  t \in ran
    BY DEF DrainedMeansRun
  <2>1. \A w \in Worker : worker[w] = "gone"
    BY DEF IInv, DrainedMeansGone
  <2>2. tasks = <<>>
    BY <2>1, PoolAssumption DEF PoolAssumption, IInv, GoneMeansOver
  <2>3. ~Queued(t) /\ ~Held(t)
    BY <2>1, <2>2, PoolAssumption DEF PoolAssumption, Queued, Held, Positions
  <2> QED BY <2>3 DEF IInv, SentIsSomewhere
<1> QED BY <1>1, Invariance, PTL

-----------------------------------------------------------------------------
(* The coordinators of a shutdown.  Its assumption on the constants is the     *)
(* hypothesis Drain!ShutdownAssumption of each theorem.                        *)

CONSTANTS Component, Stubborn, Caller, Role, Coordinators, Phases, Duration
VARIABLES shutdown, mutex, entries, register, left, caller, todo, work, grace

Drain == INSTANCE Shutdown

AtDrain == {"draining", "closing"}

\* The context of the component that is closing ends with the budget.
InBudget ==
  /\ spent <= Timeout
  /\ \A k \in Caller : caller[k] = "closing" =>
       begun # <<>> /\ left[Drain!Last(begun)] + spent <= Timeout

\* The manager drains only what a Register that returned has given it, so none of it
\* is closed again by a late Register.
Known(s) == \A i \in DOMAIN s : register[s[i]] = "done"
Registered == coordinator = "manager" => Known(entries) /\ Known(todo) /\ Known(begun)

\* Callers do what their role and the coordinator have in common.
InRole == \A k \in Caller : caller[k] \notin {"new", "done"} => Drain!Is(k, Role[k])

BudgetInv == Drain!TypeOK /\ Registered /\ InRole /\ InBudget

\* What the manager and the phases take from a sequence they work through.
LEMMA LastOf ==
  ASSUME NEW S, NEW s \in Seq(S), s # <<>>
  PROVE  /\ Len(s) \in Nat \ {0} /\ Drain!Last(s) = s[Len(s)] /\ s[Len(s)] \in S
         /\ DOMAIN s = 1 .. Len(s) /\ Len(s) \in DOMAIN s
<1>1. Len(s) \in Nat \ {0} /\ s[Len(s)] \in S /\ DOMAIN s = 1 .. Len(s)
  BY EmptySeq, LenProperties, ElementOfSeq
<1> QED BY <1>1 DEF Drain!Last

LEMMA FrontOf ==
  ASSUME NEW S, NEW s \in Seq(S), s # <<>>
  PROVE  /\ Drain!Front(s) \in Seq(S) /\ Len(Drain!Front(s)) = Len(s) - 1
         /\ \A i \in 1 .. Len(s) - 1 : Drain!Front(s)[i] = s[i]
         /\ SubSeq(s, 1, Len(s) - 1) \o SubSeq(s, Len(s) + 1, Len(s)) = Drain!Front(s)
<1> DEFINE n == Len(s) - 1
<1>1. Len(s) \in Nat \ {0} /\ n \in Nat /\ n \in Int /\ \A i \in 1 .. n : s[i] \in S
  BY LastOf, ElementOfSeq
<1>2. SubSeq(s, Len(s) + 1, Len(s)) = <<>>
  BY <1>1, SubSeqEmpty
<1> HIDE DEF n
<1>3. SubSeq(s, 1, n) \in Seq(S) /\ Len(SubSeq(s, 1, n)) = IF 1 <= n THEN n - 1 + 1 ELSE 0
  BY <1>1, SubSeqProperties
<1>4. \A i \in 1 .. n - 1 + 1 : SubSeq(s, 1, n)[i] = s[1 + i - 1]
  BY <1>1, SubSeqProperties
<1>5. Len(SubSeq(s, 1, n)) = n /\ \A i \in 1 .. n : SubSeq(s, 1, n)[i] = s[i]
  BY <1>1, <1>3, <1>4
<1>6. SubSeq(s, 1, n) \o <<>> = SubSeq(s, 1, n)
  BY <1>3, ConcatEmptySeq
<1> QED BY <1>2, <1>3, <1>5, <1>6 DEF n, Drain!Front

LEMMA TailOf ==
  ASSUME NEW S, NEW s \in Seq(S), s # <<>>
  PROVE  /\ Head(s) \in S /\ Tail(s) \in Seq(S) /\ Len(Tail(s)) = Len(s) - 1
         /\ \A i \in 1 .. Len(s) - 1 : Tail(s)[i] = s[i + 1]
BY HeadTailProperties

LEMMA OneMore ==
  ASSUME NEW S, NEW s \in Seq(S), NEW x \in S
  PROVE  /\ Append(s, x) \in Seq(S) /\ Append(s, x) # <<>> /\ Drain!Last(Append(s, x)) = x
         /\ Len(Append(s, x)) = Len(s) + 1 /\ Append(s, x)[Len(s) + 1] = x
         /\ \A i \in 1 .. Len(s) : Append(s, x)[i] = s[i]
BY AppendProperties, LenProperties, EmptySeq DEF Drain!Last

LEMMA DrainTypes ==
  ASSUME Drain!ShutdownAssumption, Drain!TypeOK, [Drain!Next]_(Drain!vars)
  PROVE  Drain!TypeOK'
<1> USE DEF Drain!ShutdownAssumption, Drain!TypeOK, Drain!Goes
<1>1. ASSUME NEW c \in Component, Drain!Registers(c) \/ Drain!CompReturns(c) PROVE Drain!TypeOK'
  <2>1. CASE Drain!RegisterOpen(c)
    BY <2>1, OneMore DEF Drain!RegisterOpen
  <2>2. CASE Drain!RegisterLate(c)
    BY <2>2 DEF Drain!RegisterLate, Drain!Calls
  <2>3. CASE Drain!RegisterReturns(c)
    BY <2>3 DEF Drain!RegisterReturns
  <2>4. CASE Drain!CompReturns(c)
    BY <2>4 DEF Drain!CompReturns
  <2> QED BY <1>1, <2>1, <2>2, <2>3, <2>4 DEF Drain!Registers
<1>2. ASSUME NEW k \in Caller, Drain!RunBegins(k) \/ Drain!Proceeds(k) PROVE Drain!TypeOK'
  <2>1. CASE Drain!RunBegins(k) \/ Drain!RunShutsDown(k) \/ Drain!CloseReturns(k)
             \/ Drain!Drained(k) \/ Drain!PhaseOver(k)
    BY <2>1 DEF Drain!RunBegins, Drain!RunShutsDown, Drain!CloseReturns, Drain!Drained,
                Drain!PhaseOver
  <2>2. CASE Drain!ShutdownNow(k)
    <3>1. todo' \in Seq(Component) /\ drained' \in Seq(Component) /\ entries' \in Seq(Component)
      BY <2>2, EmptySeq DEF Drain!ShutdownNow
    <3>2. caller' \in [Caller -> {"new", "working", "shutting", "draining", "closing", "done"}]
      BY <2>2 DEF Drain!ShutdownNow
    <3> QED BY <2>2, <3>1, <3>2 DEF Drain!ShutdownNow
  <2>3. CASE Drain!Execute(k)
    BY <2>3 DEF Drain!Execute
  <2>4. CASE Drain!Skip(k)
    <3>1. /\ Drain!Last(todo) \in Component /\ Head(todo) \in Component
          /\ Drain!Front(todo) \in Seq(Component) /\ Tail(todo) \in Seq(Component)
      <4>1. todo \in Seq(Component) /\ todo # <<>>
        BY <2>4 DEF Drain!Skip
      <4> QED BY <4>1, LastOf, FrontOf, TailOf
    <3> QED BY <2>4, <3>1 DEF Drain!Skip
  <2>5. Drain!TimeLeft \in Nat
    BY DEF Drain!TimeLeft
  <2>6. CASE Drain!CloseNext(k)
    <3>1. todo[Len(todo)] \in Component /\ todo' = Drain!Front(todo) /\ todo' \in Seq(Component)
      <4>1. /\ todo \in Seq(Component) /\ todo # <<>>
            /\ todo' = SubSeq(todo, 1, Len(todo) - 1) \o SubSeq(todo, Len(todo) + 1, Len(todo))
        BY <2>6 DEF Drain!CloseNext, Drain!NextToClose
      <4>2. todo[Len(todo)] \in Component
        BY <4>1, LastOf
      <4>3. Drain!Front(todo) \in Seq(Component) /\ todo' = Drain!Front(todo)
        <5> HIDE DEF Drain!TypeOK, Drain!ShutdownAssumption
        <5> QED BY <4>1, FrontOf
      <4> QED BY <4>2, <4>3
    <3>2. begun' \in Seq(Component)
      BY <2>6, <3>1, OneMore DEF Drain!CloseNext, Drain!NextToClose
    <3> QED BY <2>5, <2>6, <3>1, <3>2 DEF Drain!CloseNext, Drain!NextToClose, Drain!Calls
  <2>7. CASE Drain!RunPhase(k)
    <3>1. Head(todo) \in Component /\ todo' \in Seq(Component)
      BY <2>7, TailOf DEF Drain!RunPhase
    <3>2. begun' \in Seq(Component)
      BY <2>7, <3>1, OneMore DEF Drain!RunPhase
    <3> QED BY <2>5, <2>7, <3>1, <3>2 DEF Drain!RunPhase, Drain!Calls
  <2> QED BY <1>2, <2>1, <2>2, <2>3, <2>4, <2>6, <2>7 DEF Drain!Proceeds
<1>3. CASE Drain!ParentCancelled \/ Drain!WorkReturns \/ Drain!ExecuteCancelled
  BY <1>3 DEF Drain!ParentCancelled, Drain!WorkReturns, Drain!ExecuteCancelled
<1>4. CASE Drain!Tick
  BY <1>4 DEF Drain!Tick, Drain!Less
<1>5. CASE UNCHANGED Drain!vars
  BY <1>5 DEF Drain!vars
<1> QED BY <1>1, <1>2, <1>3, <1>4, <1>5 DEF Drain!Next

LEMMA StillKnown ==
  ASSUME NEW s \in Seq(Component), Known(s),
         \A c \in Component : register[c] = "done" => register'[c] = "done"
  PROVE  \A i \in DOMAIN s : register'[s[i]] = "done"
<1> SUFFICES ASSUME NEW i \in DOMAIN s PROVE register'[s[i]] = "done"
  OBVIOUS
<1>1. s[i] \in Component /\ register[s[i]] = "done"
  BY LenProperties, ElementOfSeq DEF Known
<1> QED BY <1>1

LEMMA DrainRoles ==
  ASSUME Drain!ShutdownAssumption, Drain!TypeOK, Registered, InRole, [Drain!Next]_(Drain!vars)
  PROVE  Registered' /\ InRole'
<1>1. /\ Drain!TypeOK'
      /\ entries \in Seq(Component) /\ todo \in Seq(Component) /\ begun \in Seq(Component)
      /\ entries' \in Seq(Component) /\ todo' \in Seq(Component) /\ begun' \in Seq(Component)
      /\ register \in [Component -> {"new", "closing", "done"}]
      /\ caller \in [Caller -> {"new", "working", "shutting", "draining", "closing", "done"}]
  BY DrainTypes DEF Drain!TypeOK
<1> USE DEF Drain!Goes
<1>2. coordinator' = coordinator
  BY DEF Drain!Next, Drain!Registers, Drain!RegisterOpen, Drain!RegisterLate,
         Drain!RegisterReturns, Drain!CompReturns, Drain!Proceeds, Drain!RunBegins,
         Drain!RunShutsDown, Drain!CloseReturns, Drain!Drained, Drain!PhaseOver,
         Drain!ShutdownNow, Drain!Execute, Drain!Skip, Drain!CloseNext, Drain!RunPhase,
         Drain!ParentCancelled, Drain!WorkReturns, Drain!ExecuteCancelled, Drain!Tick, Drain!vars
<1>3. \A c \in Component : register[c] = "done" => register'[c] = "done"
  BY <1>1 DEF Drain!Next, Drain!Registers, Drain!RegisterOpen, Drain!RegisterLate,
         Drain!RegisterReturns, Drain!CompReturns, Drain!Proceeds, Drain!RunBegins,
         Drain!RunShutsDown, Drain!CloseReturns, Drain!Drained, Drain!PhaseOver,
         Drain!ShutdownNow, Drain!Execute, Drain!Skip, Drain!CloseNext, Drain!RunPhase,
         Drain!ParentCancelled, Drain!WorkReturns, Drain!ExecuteCancelled, Drain!Tick, Drain!vars
<1>4. InRole'
  <2>1. ASSUME NEW k \in Caller, Drain!RunBegins(k) \/ Drain!Proceeds(k)
        PROVE  \A l \in Caller : caller'[l] \notin {"new", "done"} => Drain!Is(l, Role[l])
    <3>1. ASSUME NEW to, caller' = [caller EXCEPT ![k] = to],
                 to = "done" \/ caller[k] \notin {"new", "done"} \/ Drain!Is(k, Role[k])
          PROVE  \A l \in Caller : caller'[l] \notin {"new", "done"} => Drain!Is(l, Role[l])
      BY <1>1, <3>1 DEF InRole
    <3>2. ASSUME NEW role, Drain!Is(k, role) PROVE Drain!Is(k, Role[k])
      BY <3>2 DEF Drain!Is
    <3>3. CASE Drain!RunBegins(k)
      BY <3>1, <3>2, <3>3 DEF Drain!RunBegins
    <3>4. CASE Drain!ShutdownNow(k)
      BY <3>1, <3>2, <3>4 DEF Drain!ShutdownNow
    <3>5. CASE Drain!Execute(k)
      BY <3>1, <3>2, <3>5 DEF Drain!Execute
    <3>6. CASE Drain!Skip(k)
      BY <3>6 DEF Drain!Skip, InRole
    <3>7. CASE \/ Drain!RunShutsDown(k) \/ Drain!CloseReturns(k) \/ Drain!Drained(k)
               \/ Drain!PhaseOver(k) \/ Drain!CloseNext(k) \/ Drain!RunPhase(k)
      BY <3>1, <3>7 DEF Drain!RunShutsDown, Drain!CloseReturns, Drain!Drained, Drain!PhaseOver,
                        Drain!CloseNext, Drain!RunPhase
    <3> QED BY <2>1, <3>3, <3>4, <3>5, <3>6, <3>7 DEF Drain!Proceeds
  <2>2. ASSUME caller' = caller
        PROVE  \A l \in Caller : caller'[l] \notin {"new", "done"} => Drain!Is(l, Role[l])
    BY <2>2 DEF InRole
  <2>3. \/ \E k \in Caller : Drain!RunBegins(k) \/ Drain!Proceeds(k)
        \/ caller' = caller
    BY DEF Drain!Next, Drain!Registers, Drain!RegisterOpen, Drain!RegisterLate,
           Drain!RegisterReturns, Drain!CompReturns, Drain!ParentCancelled, Drain!WorkReturns,
           Drain!ExecuteCancelled, Drain!Tick, Drain!vars
  <2> QED BY <1>2, <2>1, <2>2, <2>3 DEF InRole, Drain!Is
<1>5. ASSUME coordinator = "manager" PROVE Known(entries)' /\ Known(todo)' /\ Known(begun)'
  <2>1. Known(entries) /\ Known(todo) /\ Known(begun)
    BY <1>5 DEF Registered
  <2>2. UNCHANGED <<todo, begun>> \/ \E k \in Caller : Drain!Proceeds(k)
    BY DEF Drain!Next, Drain!Registers, Drain!RegisterOpen, Drain!RegisterLate,
           Drain!RegisterReturns, Drain!CompReturns, Drain!RunBegins, Drain!ParentCancelled,
           Drain!WorkReturns, Drain!ExecuteCancelled, Drain!Tick, Drain!vars
  <2>3. entries' = entries \/ entries' = <<>> \/ \E c \in Component : Drain!RegisterOpen(c)
    BY DEF Drain!Next, Drain!Registers, Drain!RegisterLate,
           Drain!RegisterReturns, Drain!CompReturns, Drain!Proceeds, Drain!RunBegins,
           Drain!RunShutsDown, Drain!CloseReturns, Drain!Drained, Drain!PhaseOver,
           Drain!ShutdownNow, Drain!Execute, Drain!Skip, Drain!CloseNext, Drain!RunPhase,
           Drain!ParentCancelled, Drain!WorkReturns, Drain!ExecuteCancelled, Drain!Tick, Drain!vars
  <2>4. \A i \in DOMAIN entries' : \/ \E j \in DOMAIN entries : entries'[i] = entries[j]
                                  \/ register'[entries'[i]] = "done"
    <3>1. CASE \E c \in Component : Drain!RegisterOpen(c)
      <4>1. PICK c \in Component : entries' = Append(entries, c) /\ register'[c] = "done"
        BY <1>1, <3>1 DEF Drain!RegisterOpen
      <4> QED BY <1>1, <4>1, OneMore, LenProperties
    <3> QED BY <2>3, <3>1
  <2>5. \A i \in DOMAIN todo' : \/ \E j \in DOMAIN todo : todo'[i] = todo[j]
                               \/ \E j \in DOMAIN entries : todo'[i] = entries[j]
    <3>1. \/ todo' = todo \/ todo' = entries
          \/ todo # <<>> /\ todo' = Drain!Front(todo)
      <4>1. ASSUME NEW k \in Caller, Drain!Proceeds(k) 
            PROVE  \/ todo' = todo \/ todo' = entries
                   \/ todo # <<>> /\ todo' = Drain!Front(todo)
        <5>1. CASE Drain!CloseNext(k)
          <6>1. todo # <<>> /\ todo' = SubSeq(todo, 1, Len(todo) - 1) \o SubSeq(todo, Len(todo) + 1, Len(todo))
            BY <5>1 DEF Drain!CloseNext, Drain!NextToClose
          <6> QED BY <1>1, <6>1, FrontOf
        <5> QED BY <1>5, <4>1, <5>1 DEF Drain!Proceeds, Drain!RunShutsDown, Drain!CloseReturns,
              Drain!Drained, Drain!PhaseOver, Drain!ShutdownNow, Drain!Execute, Drain!Is,
              Drain!Skip, Drain!RunPhase
      <4> QED BY <2>2, <4>1
    <3>2. ASSUME todo # <<>>, todo' = Drain!Front(todo)
          PROVE  \A i \in DOMAIN todo' : i \in DOMAIN todo /\ todo'[i] = todo[i]
      <4>1. DOMAIN todo = 1 .. Len(todo) /\ DOMAIN todo' = 1 .. Len(todo') /\ Len(todo) \in Nat
        BY <1>1, LenProperties
      <4>2. /\ Len(todo') = Len(todo) - 1
            /\ \A i \in 1 .. Len(todo) - 1 : todo'[i] = todo[i]
        BY <1>1, <3>2, FrontOf
      <4> QED BY <4>1, <4>2
    <3> QED BY <3>1, <3>2
  <2>6. \A i \in DOMAIN begun' : \/ \E j \in DOMAIN begun : begun'[i] = begun[j]
                                \/ \E j \in DOMAIN todo : begun'[i] = todo[j]
    <3>1. begun' = begun \/ (todo # <<>> /\ begun' = Append(begun, todo[Len(todo)]))
      BY <1>5, <2>2 DEF Drain!Proceeds, Drain!RunShutsDown, Drain!CloseReturns, Drain!NextToClose,
              Drain!Drained, Drain!PhaseOver, Drain!ShutdownNow, Drain!Execute,
              Drain!Skip, Drain!RunPhase, Drain!CloseNext
    <3>2. ASSUME todo # <<>>, begun' = Append(begun, todo[Len(todo)])
          PROVE  \A i \in DOMAIN begun' : \/ i \in DOMAIN begun /\ begun'[i] = begun[i]
                                         \/ begun'[i] = todo[Len(todo)]
      <4>1. DOMAIN begun = 1 .. Len(begun) /\ DOMAIN begun' = 1 .. Len(begun') /\ Len(begun) \in Nat
        BY <1>1, LenProperties
      <4>2. todo[Len(todo)] \in Component
        BY <1>1, <3>2, LastOf
      <4> QED BY <1>1, <3>2, <4>1, <4>2, OneMore
    <3> QED BY <1>1, <3>1, <3>2, LastOf
  <2>7. /\ \A i \in DOMAIN entries : register'[entries[i]] = "done"
        /\ \A i \in DOMAIN todo : register'[todo[i]] = "done"
        /\ \A i \in DOMAIN begun : register'[begun[i]] = "done"
    BY <1>1, <1>3, <2>1, StillKnown
  <2>8. \A i \in DOMAIN entries' : register'[entries'[i]] = "done"
    BY <2>4, <2>7
  <2>9. \A i \in DOMAIN todo' : register'[todo'[i]] = "done"
    BY <2>5, <2>7
  <2>10. \A i \in DOMAIN begun' : register'[begun'[i]] = "done"
    BY <2>6, <2>7
  <2> QED BY <2>8, <2>9, <2>10 DEF Known
<1> QED BY <1>2, <1>4, <1>5 DEF Registered

LEMMA BudgetStep ==
  ASSUME Drain!ShutdownAssumption, BudgetInv, [Drain!Next]_(Drain!vars)
  PROVE  InBudget'
<1> USE DEF BudgetInv, Drain!ShutdownAssumption, Drain!TypeOK, Drain!Goes
<1>1. ASSUME UNCHANGED <<spent, begun, left>>,
             \A k \in Caller : caller'[k] = "closing" => caller[k] = "closing"
      PROVE  InBudget'
  BY <1>1 DEF InBudget, Drain!Last
<1>2. ASSUME NEW x \in Component, NEW t \in 0 .. Timeout, t + spent <= Timeout, spent' = spent,
             begun' = Append(begun, x), left' = [left EXCEPT ![x] = t]
      PROVE  InBudget'
  <2>1. begun' # <<>> /\ Drain!Last(begun)' = x
    <3>1. begun \in Seq(Component)
      OBVIOUS
    <3>2. Append(begun, x) # <<>> /\ Drain!Last(Append(begun, x)) = x
      BY <3>1, OneMore
    <3> QED BY <1>2, <3>2 DEF Drain!Last
  <2> QED BY <1>2, <2>1 DEF InBudget
<1>3. ASSUME NEW c \in Component, Drain!Registers(c) \/ Drain!CompReturns(c) PROVE InBudget'
  <2>1. CASE Drain!RegisterOpen(c) \/ Drain!RegisterReturns(c) \/ Drain!CompReturns(c)
    BY <1>1, <2>1 DEF Drain!RegisterOpen, Drain!RegisterReturns, Drain!CompReturns
  <2>2. CASE Drain!RegisterLate(c)
    <3>1. /\ coordinator = "manager" /\ register[c] = "new" /\ UNCHANGED <<spent, begun, caller>>
          /\ left' = [left EXCEPT ![c] = Timeout]
      BY <2>2 DEF Drain!RegisterLate, Drain!Calls
    <3>2. begun # <<>> => Drain!Last(begun) # c /\ Drain!Last(begun) \in Component
      <4>1. begun # <<>> => Len(begun) \in DOMAIN begun /\ Drain!Last(begun) = begun[Len(begun)]
                             /\ Drain!Last(begun) \in Component
        BY LastOf
      <4> QED BY <3>1, <4>1 DEF Registered, Known
    <3> QED BY <3>1, <3>2 DEF InBudget, Drain!Last
  <2> QED BY <1>3, <2>1, <2>2 DEF Drain!Registers
<1>4. Drain!TimeLeft = Timeout - spent
  BY DEF InBudget, Drain!TimeLeft
<1>5. ASSUME NEW k \in Caller, Drain!RunBegins(k) \/ Drain!Proceeds(k) PROVE InBudget'
  <2>1. CASE Drain!CloseNext(k)
    <3>1. todo # <<>> /\ todo[Len(todo)] \in Component
      BY <2>1, LastOf DEF Drain!CloseNext
    <3>2. /\ spent' = spent /\ begun' = Append(begun, todo[Len(todo)])
          /\ left' = [left EXCEPT ![todo[Len(todo)]] = Timeout - spent]
      BY <1>4, <2>1 DEF Drain!CloseNext, Drain!NextToClose, Drain!Calls
    <3>3. Timeout - spent \in 0 .. Timeout /\ (Timeout - spent) + spent <= Timeout
      BY DEF InBudget
    <3> QED BY <1>2, <3>1, <3>2, <3>3
  <2>2. CASE Drain!RunPhase(k)
    <3>1. todo # <<>> /\ Head(todo) \in Component
      BY <2>2, TailOf DEF Drain!RunPhase
    <3> DEFINE t == IF work = "cancelled" THEN 0
                    ELSE IF Duration[Head(todo)] > Timeout - spent THEN Timeout - spent
                                                                   ELSE Duration[Head(todo)]
    <3>2. spent' = spent /\ begun' = Append(begun, Head(todo)) /\ left' = [left EXCEPT ![Head(todo)] = t]
      BY <1>4, <2>2 DEF Drain!RunPhase, Drain!Calls
    <3>3. t \in 0 .. Timeout /\ t + spent <= Timeout
      BY <3>1 DEF InBudget
    <3> HIDE DEF t
    <3> QED BY <1>2, <3>1, <3>2, <3>3
  <2>3. CASE ~Drain!CloseNext(k) /\ ~Drain!RunPhase(k)
    <3>1. /\ UNCHANGED <<spent, begun, left>>
          /\ \A l \in Caller : caller'[l] = "closing" => caller[l] = "closing"
      BY <1>5, <2>3 DEF Drain!Proceeds, Drain!RunBegins, Drain!RunShutsDown, Drain!CloseReturns,
                Drain!Drained, Drain!PhaseOver, Drain!ShutdownNow, Drain!Execute, Drain!Skip
    <3> QED BY <1>1, <3>1
  <2> QED BY <2>1, <2>2, <2>3
<1>6. CASE Drain!ParentCancelled \/ Drain!WorkReturns
  BY <1>1, <1>6 DEF Drain!ParentCancelled, Drain!WorkReturns
<1>9. CASE Drain!ExecuteCancelled
  <2>1. UNCHANGED <<begun, spent, caller>> /\ left' = [c \in Component |-> 0]
    BY <1>9 DEF Drain!ExecuteCancelled
  <2>2. begun # <<>> => Drain!Last(begun) \in Component
    BY LastOf
  <2> QED BY <2>1, <2>2 DEF InBudget, Drain!Last
<1>7. CASE Drain!Tick
  <2>1. /\ begun' = begun /\ caller' = caller /\ left' = [c \in Component |-> Drain!Less(left[c])]
        /\ spent' = IF Drain!Draining THEN spent + 1 ELSE spent
        /\ \A k \in Caller : caller[k] # "draining"
    BY <1>7 DEF Drain!Tick
  <2>2. ASSUME NEW k \in Caller, caller[k] = "closing"
        PROVE  /\ Drain!Last(begun) \in Component /\ left[Drain!Last(begun)] \in Nat \ {0}
               /\ left[Drain!Last(begun)] + spent <= Timeout
    <3>1. begun # <<>> /\ left[Drain!Last(begun)] + spent <= Timeout /\ Drain!Last(begun) \in Component
      BY <2>2, LastOf DEF InBudget
    <3>2. comp[Drain!Last(begun)] = "running" /\ (coordinator = "phases" => left[Drain!Last(begun)] > 0)
      BY <1>7, <2>2 DEF Drain!Tick
    <3>3. coordinator # "phases" => left[Drain!Last(begun)] > 0
      BY <1>7, <3>1, <3>2 DEF Drain!Tick, Drain!MayOverrun
    <3> QED BY <3>1, <3>2, <3>3
  <2>3. CASE Drain!Draining
    <3>1. PICK k \in Caller : caller[k] = "closing"
      BY <2>1, <2>3 DEF Drain!Draining
    <3>2. spent' <= Timeout
      BY <2>1, <2>2, <3>1
    <3>3. Drain!Last(begun)' = Drain!Last(begun) /\ left'[Drain!Last(begun)] = left[Drain!Last(begun)] - 1
      BY <2>1, <2>2, <3>1 DEF Drain!Less, Drain!Last
    <3>4. left'[Drain!Last(begun)] + spent' <= Timeout
      BY <2>1, <2>2, <2>3, <3>1, <3>3
    <3> QED BY <2>1, <3>2, <3>3, <3>4 DEF InBudget
  <2>4. CASE ~Drain!Draining
    BY <2>1, <2>4 DEF InBudget, Drain!Draining
  <2> QED BY <2>3, <2>4
<1>8. CASE UNCHANGED Drain!vars
  BY <1>1, <1>8 DEF Drain!vars
<1> QED BY <1>3, <1>5, <1>6, <1>7, <1>8, <1>9 DEF Drain!Next

LEMMA DrainInit == Drain!ShutdownAssumption /\ Drain!Init => BudgetInv
<1> SUFFICES ASSUME Drain!ShutdownAssumption, Drain!Init PROVE BudgetInv
  OBVIOUS
<1>1. Drain!TypeOK
  <2>1. <<>> \in Seq(Component)
    BY EmptySeq
  <2>2. Timeout \in Nat
    BY DEF Drain!ShutdownAssumption
  <2>3. /\ entries \in Seq(Component) /\ todo \in Seq(Component)
        /\ begun \in Seq(Component) /\ drained \in Seq(Component)
    BY <2>1 DEF Drain!Init
  <2>4. /\ register \in [Component -> {"new", "closing", "done"}]
        /\ comp \in [Component -> {"new", "running", "closed", "skipped"}]
        /\ left \in [Component -> Nat] /\ grace \in 0 .. Timeout
        /\ caller \in [Caller -> {"new", "working", "shutting", "draining", "closing", "done"}]
    BY <2>2 DEF Drain!Init
  <2> QED BY <2>3, <2>4 DEF Drain!Init, Drain!TypeOK
<1> QED BY <1>1 DEF Drain!ShutdownAssumption, Drain!Init, BudgetInv, Registered, Known, InRole, InBudget

LEMMA DrainInvariant == Drain!ShutdownAssumption => (Drain!Spec => []BudgetInv)
<1> SUFFICES ASSUME Drain!ShutdownAssumption PROVE Drain!Spec => []BudgetInv
  OBVIOUS
<1>1. BudgetInv /\ [Drain!Next]_(Drain!vars) => BudgetInv'
  BY DrainTypes, DrainRoles, BudgetStep DEF BudgetInv
<1> QED BY <1>1, DrainInit, PTL DEF Drain!Spec

\* However many components are drained, with whatever durations, beside whatever
\* late Registers: the manager's one deadline and the clipped budgets of the phases
\* keep the whole within the budget, though each Close gets all that is left.
THEOREM WithinBudget == Drain!ShutdownAssumption => (Drain!Spec => []BudgetHolds)
<1>1. BudgetInv => BudgetHolds
  BY DEF BudgetInv, InBudget, BudgetHolds
<1> QED BY <1>1, DrainInvariant, PTL

\* Nothing has two owners: what the drain has begun is not new any more, what it
\* still has to close is, and neither holds a component twice.
Distinct(s) == \A i, j \in DOMAIN s : i # j => s[i] # s[j]
ClosedOnce ==
  /\ Distinct(begun) /\ \A i \in DOMAIN begun : comp[begun[i]] # "new"
  /\ Distinct(todo) /\ \A i \in DOMAIN todo : comp[todo[i]] = "new"

\* Only one caller drains: the first to raise the manager's flag, or the only
\* one there is to execute the phases.
OneDrain ==
  /\ \A k, l \in Caller : caller[k] \in AtDrain /\ caller[l] \in AtDrain => k = l
  /\ coordinator = "manager" /\ ~shutdown => \A k \in Caller : caller[k] \notin AtDrain
  /\ \A k \in Caller : caller[k] \in {"working", "shutting"} => coordinator = "manager"

\* Before that nothing is closed.
Quiet == todo = <<>> /\ begun = <<>> /\ \A c \in Component : comp[c] = "new"
NotYet ==
  /\ coordinator = "manager" /\ ~shutdown => Quiet /\ Distinct(entries)
  /\ coordinator = "phases" => \A k \in Caller : Role[k] = "execute" /\ caller[k] = "new" => Quiet

\* What is left is the first part of what was taken. All after it has ended,
\* except, of what comes next, the one a caller waits for.
Ended(c) == comp[c] \in {"closed", "skipped"}
Awaited(c) == comp[c] = "running" /\ \E k \in Caller : caller[k] = "closing" /\ Drain!Last(begun) = c
LastFirst ==
  coordinator = "manager" =>
    /\ Known(drained) /\ Len(todo) <= Len(drained)
    /\ \A i \in DOMAIN todo : todo[i] = drained[i]
    /\ \A i \in DOMAIN drained : i > Len(todo) =>
         Ended(drained[i]) \/ (i = Len(todo) + 1 /\ Awaited(drained[i]))

ReverseInv == BudgetInv /\ OneDrain /\ NotYet /\ ClosedOnce /\ LastFirst

\* The phases are different ones, and Execute is called once.
OneExecute ==
  /\ Distinct(Phases)
  /\ \A k, l \in Caller : Role[k] = "execute" /\ Role[l] = "execute" => k = l

\* A drain takes the last or the first of what it has to close.
LEMMA OneLess ==
  ASSUME NEW s \in Seq(Component), s # <<>>, NEW t \in Seq(Component), Distinct(s), NEW x,
         \/ t = Drain!Front(s) /\ x = s[Len(s)]
         \/ t = Tail(s) /\ x = Head(s)
  PROVE  /\ Distinct(t) /\ x \in Component
         /\ \E i \in DOMAIN s : x = s[i]
         /\ \A j \in DOMAIN t : t[j] # x /\ \E i \in DOMAIN s : t[j] = s[i]
<1>1. DOMAIN s = 1 .. Len(s) /\ DOMAIN t = 1 .. Len(t) /\ Len(s) \in Nat \ {0}
  BY LastOf, LenProperties
<1>2. PICK n \in Nat : Len(s) = n + 1
  <2>1. \A m \in Nat \ {0} : m - 1 \in Nat /\ m = (m - 1) + 1
    OBVIOUS
  <2> QED BY <1>1, <2>1
<1>3. Len(s) - 1 = n
  BY <1>2
<1>4. CASE t = Drain!Front(s) /\ x = s[Len(s)]
  <2>1. Len(t) = n /\ (\A j \in 1 .. n : t[j] = s[j]) /\ x = s[n + 1]
    BY <1>2, <1>3, <1>4, FrontOf
  <2>2. \A j \in 1 .. n : j \in 1 .. n + 1 /\ j # n + 1
    OBVIOUS
  <2>3. Distinct(t)
    BY <1>1, <1>2, <2>1, <2>2 DEF Distinct
  <2>4. \A j \in DOMAIN t : t[j] # x /\ j \in DOMAIN s /\ t[j] = s[j]
    BY <1>1, <1>2, <2>1, <2>2 DEF Distinct
  <2>5. n + 1 \in DOMAIN s /\ x \in Component
    BY <1>1, <1>2, <2>1, ElementOfSeq
  <2> QED BY <2>1, <2>3, <2>4, <2>5
<1>5. CASE t = Tail(s) /\ x = Head(s)
  <2>1. Len(t) = n /\ (\A j \in 1 .. n : t[j] = s[j + 1]) /\ x = s[1]
    BY <1>2, <1>3, <1>5, TailOf
  <2>2. \A j \in 1 .. n : j + 1 \in 1 .. n + 1 /\ j + 1 # 1
    OBVIOUS
  <2>3. Distinct(t)
    <3> SUFFICES ASSUME NEW i \in 1 .. n, NEW j \in 1 .. n, i # j PROVE t[i] # t[j]
      BY <1>1, <2>1 DEF Distinct
    <3>1. i + 1 # j + 1 /\ i + 1 \in DOMAIN s /\ j + 1 \in DOMAIN s
      BY <1>1, <1>2, <2>2
    <3>2. s[i + 1] # s[j + 1]
      BY <3>1 DEF Distinct
    <3> QED BY <2>1, <3>2
  <2>4. \A j \in DOMAIN t : t[j] # x /\ j + 1 \in DOMAIN s /\ t[j] = s[j + 1]
    <3> 1 \in DOMAIN s
      BY <1>1, <1>2
    <3> QED BY <1>1, <1>2, <2>1, <2>2 DEF Distinct
  <2>5. 1 \in DOMAIN s /\ x \in Component
    BY <1>1, <1>2, <2>1, ElementOfSeq
  <2> QED BY <2>1, <2>3, <2>4, <2>5
<1> QED BY <1>4, <1>5

\* What the other steps leave alone.
LEMMA OtherSteps ==
  ASSUME Drain!TypeOK, [Drain!Next]_(Drain!vars)
  PROVE  \/ \E c \in Component : Drain!RegisterOpen(c) \/ Drain!RegisterLate(c) \/ Drain!CompReturns(c)
         \/ \E k \in Caller : \/ Drain!ShutdownNow(k) \/ Drain!Execute(k) \/ Drain!Skip(k)
                              \/ Drain!CloseNext(k) \/ Drain!RunPhase(k)
         \/ /\ UNCHANGED <<coordinator, shutdown, entries, comp, begun, todo, drained>>
            /\ \A k \in Caller :
                 /\ caller'[k] = "new" => caller[k] = "new"
                 /\ caller'[k] \in AtDrain => caller[k] \in AtDrain
                 /\ caller'[k] \in {"working", "shutting"} =>
                      coordinator = "manager" \/ caller[k] \in {"working", "shutting"}
                 /\ caller[k] = "closing" /\ coordinator = "manager" =>
                      caller'[k] = "closing" \/ comp[Drain!Last(begun)] = "closed"
<1> DEFINE Quietly ==
      /\ UNCHANGED <<coordinator, shutdown, entries, comp, begun, todo, drained>>
      /\ \A k \in Caller :
           /\ caller'[k] = "new" => caller[k] = "new"
           /\ caller'[k] \in AtDrain => caller[k] \in AtDrain
           /\ caller'[k] \in {"working", "shutting"} =>
                coordinator = "manager" \/ caller[k] \in {"working", "shutting"}
           /\ caller[k] = "closing" /\ coordinator = "manager" =>
                caller'[k] = "closing" \/ comp[Drain!Last(begun)] = "closed"
<1> USE DEF Drain!Goes, AtDrain
<1>0. caller \in [Caller -> {"new", "working", "shutting", "draining", "closing", "done"}]
  BY DEF Drain!TypeOK
<1>1. ASSUME NEW k \in Caller, Drain!RunBegins(k) \/ Drain!RunShutsDown(k)
      PROVE  Quietly
  BY <1>0, <1>1 DEF Drain!RunBegins, Drain!RunShutsDown, Drain!Is
<1>2. ASSUME NEW k \in Caller, Drain!CloseReturns(k) PROVE Quietly
  BY <1>0, <1>2 DEF Drain!CloseReturns
<1>3. ASSUME NEW k \in Caller, Drain!Drained(k) \/ Drain!PhaseOver(k) PROVE Quietly
  BY <1>0, <1>3 DEF Drain!Drained, Drain!PhaseOver
<1>4. ASSUME \/ \E c \in Component : Drain!RegisterReturns(c)
             \/ Drain!ParentCancelled \/ Drain!WorkReturns \/ Drain!ExecuteCancelled \/ Drain!Tick
             \/ UNCHANGED Drain!vars
      PROVE  Quietly
  BY <1>4 DEF Drain!RegisterReturns, Drain!ParentCancelled, Drain!WorkReturns,
              Drain!ExecuteCancelled, Drain!Tick, Drain!vars
<1> HIDE DEF Quietly
<1>5. \/ \E c \in Component : Drain!RegisterOpen(c) \/ Drain!RegisterLate(c) \/ Drain!CompReturns(c)
      \/ \E k \in Caller : \/ Drain!ShutdownNow(k) \/ Drain!Execute(k) \/ Drain!Skip(k)
                           \/ Drain!CloseNext(k) \/ Drain!RunPhase(k)
      \/ Quietly
  BY <1>1, <1>2, <1>3, <1>4 DEF Drain!Next, Drain!Registers, Drain!Proceeds
<1> QED BY <1>5 DEF Quietly

\* Who drains in the phases executes them, so it is the only one.
LEMMA OneDrainStep ==
  ASSUME Drain!ShutdownAssumption, OneExecute, ReverseInv, [Drain!Next]_(Drain!vars)
  PROVE  OneDrain'
<1>1. /\ coordinator \in {"manager", "phases"} /\ Drain!TypeOK
      /\ caller \in [Caller -> {"new", "working", "shutting", "draining", "closing", "done"}]
  BY DEF ReverseInv, BudgetInv, Drain!ShutdownAssumption, Drain!TypeOK
<1> USE DEF Drain!Goes, AtDrain
<1>2. ASSUME UNCHANGED <<coordinator, shutdown>>,
             \A k \in Caller :
               /\ caller'[k] \in AtDrain => caller[k] \in AtDrain
               /\ caller'[k] \in {"working", "shutting"} =>
                    coordinator = "manager" \/ caller[k] \in {"working", "shutting"}
      PROVE  OneDrain'
  BY <1>2 DEF ReverseInv, OneDrain
<1>3. ASSUME NEW c \in Component,
             Drain!RegisterOpen(c) \/ Drain!RegisterLate(c) \/ Drain!CompReturns(c)
      PROVE  OneDrain'
  BY <1>2, <1>3 DEF Drain!RegisterOpen, Drain!RegisterLate, Drain!CompReturns
<1>4. ASSUME NEW k \in Caller, Drain!ShutdownNow(k) PROVE OneDrain'
  <2>1. coordinator = "manager"
    BY <1>4 DEF Drain!ShutdownNow, Drain!Is, ReverseInv, OneDrain
  <2>2. coordinator' = coordinator /\ shutdown' = TRUE
    BY <1>4 DEF Drain!ShutdownNow
  <2>3. \A l \in Caller : caller'[l] \in AtDrain => caller[l] \in AtDrain \/ (~shutdown /\ l = k)
    BY <1>1, <1>4 DEF Drain!ShutdownNow
  <2>4. \A l \in Caller : ~shutdown => caller[l] \notin AtDrain
    BY <2>1 DEF ReverseInv, OneDrain
  <2> QED BY <2>1, <2>2, <2>3, <2>4 DEF ReverseInv, OneDrain
<1>5. ASSUME NEW k \in Caller, Drain!Execute(k) PROVE OneDrain'
  <2>1. coordinator = "phases" /\ coordinator' = coordinator /\ Role[k] = "execute"
    BY <1>5 DEF Drain!Execute, Drain!Is
  <2>2. \A l \in Caller : caller[l] \notin {"new", "done"} => l = k
    BY <2>1 DEF ReverseInv, BudgetInv, InRole, Drain!Is, OneExecute
  <2>3. \A l \in Caller : caller'[l] \in AtDrain => l = k
    BY <1>1, <1>5, <2>2 DEF Drain!Execute
  <2>4. \A l \in Caller : caller'[l] \notin {"working", "shutting"}
    BY <1>1, <1>5, <2>1, <2>2 DEF Drain!Execute, ReverseInv, OneDrain
  <2> QED BY <2>1, <2>3, <2>4 DEF OneDrain
<1>6. ASSUME NEW k \in Caller, Drain!Skip(k) \/ Drain!CloseNext(k) \/ Drain!RunPhase(k)
      PROVE  OneDrain'
  <2>1. UNCHANGED <<coordinator, shutdown>>
    BY <1>6 DEF Drain!Skip, Drain!CloseNext, Drain!RunPhase
  <2>2. \/ caller' = caller
        \/ caller[k] = "draining" /\ caller' = [caller EXCEPT ![k] = "closing"]
    BY <1>6 DEF Drain!Skip, Drain!CloseNext, Drain!RunPhase
  <2> QED BY <1>1, <1>2, <2>1, <2>2
<1> QED BY <1>1, <1>2, <1>3, <1>4, <1>5, <1>6, OtherSteps

\* An open manager has closed nothing, and so have phases not executed yet.
LEMMA NotYetStep ==
  ASSUME Drain!ShutdownAssumption, OneExecute, ReverseInv, [Drain!Next]_(Drain!vars)
  PROVE  NotYet'
<1>1. /\ coordinator \in {"manager", "phases"} /\ Drain!TypeOK
      /\ caller \in [Caller -> {"new", "working", "shutting", "draining", "closing", "done"}]
      /\ comp \in [Component -> {"new", "running", "closed", "skipped"}]
      /\ entries \in Seq(Component)
  BY DEF ReverseInv, BudgetInv, Drain!ShutdownAssumption, Drain!TypeOK
<1> USE DEF Drain!Goes, AtDrain
<1>2. ASSUME UNCHANGED <<coordinator, shutdown, todo, begun, comp>>, entries' = entries \/ shutdown,
             \A k \in Caller : caller'[k] = "new" => caller[k] = "new"
      PROVE  NotYet'
  BY <1>2 DEF ReverseInv, NotYet, Quiet, Distinct
<1>3. ASSUME NEW c \in Component, Drain!RegisterOpen(c) PROVE NotYet'
  <2>1. /\ entries' = Append(entries, c) /\ register[c] = "new" /\ coordinator = "manager"
        /\ UNCHANGED <<coordinator, shutdown, todo, begun, comp>>
    BY <1>3 DEF Drain!RegisterOpen
  <2>2. ASSUME ~shutdown PROVE Distinct(Append(entries, c))
    <3> DEFINE e == Append(entries, c)
               n == Len(entries)
    <3>1. n \in Nat /\ DOMAIN entries = 1 .. n /\ DOMAIN e = 1 .. n + 1
      BY <1>1, OneMore, LenProperties
    <3>2. e[n + 1] = c /\ \A i \in 1 .. n : e[i] = entries[i]
      BY <1>1, OneMore
    <3>3. \A i \in 1 .. n : entries[i] # c
      BY <2>1, <3>1 DEF ReverseInv, BudgetInv, Registered, Known
    <3>4. \A i, j \in 1 .. n : i # j => entries[i] # entries[j]
      BY <2>1, <2>2, <3>1 DEF ReverseInv, NotYet, Distinct
    <3> HIDE DEF e, n
    <3>5. \A i \in 1 .. n + 1 : i \in 1 .. n \/ i = n + 1
      BY <3>1
    <3>6. Distinct(e)
      BY <3>1, <3>2, <3>3, <3>4, <3>5 DEF Distinct
    <3> QED BY <3>6 DEF e
  <2> QED BY <2>1, <2>2 DEF ReverseInv, NotYet, Quiet, Distinct
<1>4. ASSUME NEW c \in Component, Drain!RegisterLate(c) PROVE NotYet'
  BY <1>4 DEF Drain!RegisterLate, Drain!Open, NotYet
<1>5. ASSUME NEW c \in Component, Drain!CompReturns(c) PROVE NotYet'
  <2>1. ~Quiet
    BY <1>5 DEF Drain!CompReturns, Quiet
  <2>2. UNCHANGED <<coordinator, shutdown, caller>>
    BY <1>5 DEF Drain!CompReturns
  <2> QED BY <2>1, <2>2 DEF ReverseInv, NotYet
<1>6. ASSUME NEW k \in Caller, Drain!ShutdownNow(k) PROVE NotYet'
  <2>1. coordinator = "manager"
    BY <1>6 DEF Drain!ShutdownNow, Drain!Is, ReverseInv, OneDrain
  <2>2. coordinator' = coordinator /\ shutdown' = TRUE
    BY <1>6 DEF Drain!ShutdownNow
  <2> QED BY <2>1, <2>2 DEF NotYet
<1>7. ASSUME NEW k \in Caller, Drain!Execute(k) PROVE NotYet'
  <2>1. coordinator = "phases" /\ coordinator' = coordinator /\ Role[k] = "execute"
    BY <1>7 DEF Drain!Execute, Drain!Is
  <2>2. \A l \in Caller : Role[l] = "execute" => caller'[l] # "new"
    BY <1>1, <1>7, <2>1 DEF Drain!Execute, OneExecute
  <2> QED BY <2>1, <2>2 DEF NotYet
<1>8. ASSUME NEW k \in Caller, Drain!Skip(k) \/ Drain!CloseNext(k) \/ Drain!RunPhase(k)
      PROVE  NotYet'
  <2>1. /\ UNCHANGED <<coordinator, shutdown>> /\ caller[k] = "draining"
        /\ caller' = caller \/ caller' = [caller EXCEPT ![k] = "closing"]
    BY <1>8 DEF Drain!Skip, Drain!CloseNext, Drain!RunPhase
  <2>2. coordinator = "manager" => shutdown
    BY <2>1 DEF ReverseInv, OneDrain
  <2>3. coordinator = "phases" => Role[k] = "execute"
    BY <2>1 DEF ReverseInv, BudgetInv, InRole, Drain!Is
  <2>4. coordinator = "phases" => \A l \in Caller : Role[l] = "execute" => caller'[l] # "new"
    BY <1>1, <2>1, <2>3 DEF OneExecute
  <2> QED BY <1>1, <2>1, <2>2, <2>4 DEF NotYet
<1> QED BY <1>2, <1>3, <1>4, <1>5, <1>6, <1>7, <1>8, OtherSteps, <1>1

\* What a drain takes from what it has to close: the manager the last, the phases the first.
LEMMA Takes ==
  ASSUME Drain!ShutdownAssumption, ReverseInv, NEW k \in Caller,
         Drain!Skip(k) \/ Drain!CloseNext(k) \/ Drain!RunPhase(k)
  PROVE  /\ caller[k] = "draining" /\ todo # <<>>
         /\ UNCHANGED <<coordinator, register, drained>>
         /\ \E x \in Component, w \in {"running", "skipped"} :
              /\ comp' = [comp EXCEPT ![x] = w]
              /\ \/ begun' = begun /\ w = "skipped" /\ caller' = caller
                 \/ begun' = Append(begun, x) /\ w = "running" /\ caller' = [caller EXCEPT ![k] = "closing"]
              /\ Distinct(todo') /\ \E i \in DOMAIN todo : x = todo[i]
              /\ \A j \in DOMAIN todo' : todo'[j] # x /\ \E i \in DOMAIN todo : todo'[j] = todo[i]
              /\ coordinator = "manager" => todo' = Drain!Front(todo) /\ x = todo[Len(todo)]
<1>1. todo \in Seq(Component) /\ Distinct(todo) /\ coordinator \in {"manager", "phases"}
  BY DEF ReverseInv, BudgetInv, Drain!ShutdownAssumption, Drain!TypeOK, ClosedOnce
<1>2. /\ caller[k] = "draining" /\ todo # <<>> /\ UNCHANGED <<coordinator, register, drained>>
      /\ coordinator' = coordinator
  BY DEF Drain!Skip, Drain!CloseNext, Drain!RunPhase
<1> DEFINE x == IF coordinator = "manager" THEN todo[Len(todo)] ELSE Head(todo)
<1>3. todo' = IF coordinator = "manager" THEN Drain!Front(todo) ELSE Tail(todo)
  <2>1. CASE Drain!CloseNext(k)
    <3>1. /\ coordinator = "manager"
          /\ todo' = SubSeq(todo, 1, Len(todo) - 1) \o SubSeq(todo, Len(todo) + 1, Len(todo))
      BY <2>1 DEF Drain!CloseNext, Drain!NextToClose
    <3> QED BY <1>1, <1>2, <3>1, FrontOf
  <2>2. CASE Drain!Skip(k)
    BY <2>2 DEF Drain!Skip
  <2>3. CASE Drain!RunPhase(k)
    BY <2>3 DEF Drain!RunPhase
  <2> QED BY <2>1, <2>2, <2>3
<1>4. PICK w \in {"running", "skipped"} :
        /\ comp' = [comp EXCEPT ![x] = w]
        /\ \/ begun' = begun /\ w = "skipped" /\ caller' = caller
           \/ begun' = Append(begun, x) /\ w = "running" /\ caller' = [caller EXCEPT ![k] = "closing"]
  <2>1. CASE Drain!CloseNext(k)
    BY <1>2, <2>1 DEF Drain!CloseNext, Drain!NextToClose, Drain!Calls, Drain!Goes
  <2>2. CASE Drain!Skip(k)
    BY <1>2, <2>2 DEF Drain!Skip, Drain!Last
  <2>3. CASE Drain!RunPhase(k)
    BY <1>2, <2>3 DEF Drain!RunPhase, Drain!Calls, Drain!Goes
  <2> QED BY <2>1, <2>2, <2>3
<1>5. todo' \in Seq(Component)
  BY <1>1, <1>2, <1>3, FrontOf, TailOf
<1>6. \/ todo' = Drain!Front(todo) /\ x = todo[Len(todo)]
      \/ todo' = Tail(todo) /\ x = Head(todo)
  BY <1>3
<1>7. coordinator = "manager" => todo' = Drain!Front(todo) /\ x = todo[Len(todo)]
  BY <1>3
<1> HIDE DEF x
<1>8. /\ Distinct(todo') /\ x \in Component
      /\ \E i \in DOMAIN todo : x = todo[i]
      /\ \A j \in DOMAIN todo' : todo'[j] # x /\ \E i \in DOMAIN todo : todo'[j] = todo[i]
  BY <1>1, <1>2, <1>5, <1>6, OneLess
<1> QED BY <1>2, <1>4, <1>7, <1>8

LEMMA OnceStep ==
  ASSUME Drain!ShutdownAssumption, OneExecute, ReverseInv, [Drain!Next]_(Drain!vars)
  PROVE  ClosedOnce'
<1>1. /\ Drain!TypeOK /\ comp \in [Component -> {"new", "running", "closed", "skipped"}]
      /\ todo \in Seq(Component) /\ begun \in Seq(Component) /\ entries \in Seq(Component)
      /\ coordinator \in {"manager", "phases"} /\ Phases \in Seq(Component)
  BY DEF ReverseInv, BudgetInv, Drain!ShutdownAssumption, Drain!TypeOK
<1>2. /\ \A i \in DOMAIN todo : todo[i] \in Component
      /\ \A i \in DOMAIN begun : begun[i] \in Component
      /\ \A i \in DOMAIN entries : entries[i] \in Component
      /\ \A i \in DOMAIN Phases : Phases[i] \in Component
  BY <1>1, LenProperties, ElementOfSeq
<1>3. ASSUME UNCHANGED <<todo, begun, comp>> PROVE ClosedOnce'
  BY <1>3 DEF ReverseInv, ClosedOnce, Distinct
<1>4. ASSUME NEW c \in Component, Drain!RegisterLate(c) \/ Drain!CompReturns(c) PROVE ClosedOnce'
  <2>1. PICK w \in {"running", "closed"} : comp' = [comp EXCEPT ![c] = w] /\ UNCHANGED <<todo, begun>>
    BY <1>4 DEF Drain!RegisterLate, Drain!CompReturns, Drain!Calls
  <2>2. \A i \in DOMAIN todo : todo[i] # c
    <3>1. CASE Drain!RegisterLate(c)
      BY <3>1 DEF Drain!RegisterLate, ReverseInv, BudgetInv, Registered, Known
    <3>2. CASE Drain!CompReturns(c)
      BY <3>2 DEF Drain!CompReturns, ReverseInv, ClosedOnce
    <3> QED BY <1>4, <3>1, <3>2
  <2> QED BY <1>1, <1>2, <2>1, <2>2 DEF ReverseInv, ClosedOnce, Distinct
<1>5. ASSUME NEW s \in Seq(Component), Quiet, Distinct(s), todo' = s, UNCHANGED <<begun, comp>>
      PROVE  ClosedOnce'
  <2>1. \A i \in DOMAIN s : s[i] \in Component
    BY LenProperties, ElementOfSeq
  <2>2. Distinct(begun) /\ \A i \in DOMAIN begun : comp[begun[i]] # "new"
    BY DEF ReverseInv, ClosedOnce
  <2> QED BY <1>5, <2>1, <2>2 DEF ClosedOnce, Distinct, Quiet
<1>6. ASSUME NEW k \in Caller, Drain!ShutdownNow(k) PROVE ClosedOnce'
  <2>1. coordinator = "manager"
    BY <1>6 DEF Drain!ShutdownNow, Drain!Is, ReverseInv, OneDrain
  <2>2. CASE shutdown
    BY <1>3, <1>6, <2>2 DEF Drain!ShutdownNow
  <2>3. CASE ~shutdown
    <3>1. Quiet /\ Distinct(entries)
      BY <2>1, <2>3 DEF ReverseInv, NotYet
    <3>2. todo' = entries /\ UNCHANGED <<begun, comp>>
      BY <1>6, <2>3 DEF Drain!ShutdownNow
    <3> QED BY <1>1, <1>5, <3>1, <3>2
  <2> QED BY <2>2, <2>3
<1>7. ASSUME NEW k \in Caller, Drain!Execute(k) PROVE ClosedOnce'
  <2>1. coordinator = "phases" /\ Role[k] = "execute" /\ caller[k] = "new"
    BY <1>7 DEF Drain!Execute, Drain!Is
  <2>2. Quiet /\ Distinct(Phases)
    BY <2>1 DEF ReverseInv, NotYet, OneExecute
  <2>3. todo' = Phases /\ UNCHANGED <<begun, comp>>
    BY <1>7 DEF Drain!Execute
  <2> QED BY <1>1, <1>5, <2>2, <2>3
<1>8. ASSUME NEW k \in Caller, Drain!Skip(k) \/ Drain!CloseNext(k) \/ Drain!RunPhase(k)
      PROVE  ClosedOnce'
  <2>1. PICK x \in Component, w \in {"running", "skipped"} :
          /\ comp' = [comp EXCEPT ![x] = w]
          /\ begun' = begun \/ begun' = Append(begun, x)
          /\ Distinct(todo') /\ \E i \in DOMAIN todo : x = todo[i]
          /\ \A j \in DOMAIN todo' : todo'[j] # x /\ \E i \in DOMAIN todo : todo'[j] = todo[i]
    BY <1>8, Takes
  <2>2. comp[x] = "new"
    BY <2>1 DEF ReverseInv, ClosedOnce
  <2>3. \A i \in DOMAIN begun : begun[i] # x /\ comp'[begun[i]] # "new"
    BY <1>1, <1>2, <2>1, <2>2 DEF ReverseInv, ClosedOnce
  <2>4. \A j \in DOMAIN todo' : comp'[todo'[j]] = "new"
    BY <1>1, <1>2, <2>1 DEF ReverseInv, ClosedOnce
  <2>5. Distinct(begun)
    BY DEF ReverseInv, ClosedOnce
  <2>6. CASE begun' = Append(begun, x)
    <3>1. DOMAIN begun = 1 .. Len(begun) /\ DOMAIN begun' = 1 .. Len(begun) + 1 /\ Len(begun) \in Nat
      BY <1>1, <2>6, OneMore, LenProperties
    <3>2. begun'[Len(begun) + 1] = x /\ \A i \in 1 .. Len(begun) : begun'[i] = begun[i]
      BY <1>1, <2>6, OneMore
    <3>3. \A n \in Nat : \A i \in 1 .. n + 1 : i \in 1 .. n \/ i = n + 1
      OBVIOUS
    <3>4. \A i \in DOMAIN begun' : \/ i \in DOMAIN begun /\ begun'[i] = begun[i]
                                   \/ i = Len(begun) + 1 /\ begun'[i] = x
      BY <3>1, <3>2, <3>3
    <3>5. comp'[x] # "new"
      BY <1>1, <2>1
    <3>6. Distinct(begun)'
      BY <2>3, <2>5, <3>4 DEF Distinct
    <3>7. \A i \in DOMAIN begun' : comp'[begun'[i]] # "new"
      BY <2>3, <3>4, <3>5
    <3> QED BY <2>1, <2>4, <3>6, <3>7 DEF ClosedOnce, Distinct
  <2>7. CASE begun' = begun
    BY <2>1, <2>3, <2>4, <2>5, <2>7 DEF ClosedOnce, Distinct
  <2> QED BY <2>1, <2>6, <2>7
<1>9. ASSUME NEW c \in Component, Drain!RegisterOpen(c) PROVE ClosedOnce'
  BY <1>3, <1>9 DEF Drain!RegisterOpen
<1> QED BY <1>1, <1>3, <1>4, <1>6, <1>7, <1>8, <1>9, OtherSteps

LEMMA LastFirstStep ==
  ASSUME Drain!ShutdownAssumption, OneExecute, ReverseInv, [Drain!Next]_(Drain!vars)
  PROVE  LastFirst'
<1>1. /\ Drain!TypeOK /\ comp \in [Component -> {"new", "running", "closed", "skipped"}]
      /\ todo \in Seq(Component) /\ begun \in Seq(Component) /\ entries \in Seq(Component)
      /\ coordinator \in {"manager", "phases"} /\ drained \in Seq(Component)
      /\ caller \in [Caller -> {"new", "working", "shutting", "draining", "closing", "done"}]
      /\ register \in [Component -> {"new", "closing", "done"}]
  BY DEF ReverseInv, BudgetInv, Drain!ShutdownAssumption, Drain!TypeOK
<1>2. \A i \in DOMAIN drained : drained[i] \in Component
  BY <1>1, LenProperties, ElementOfSeq
<1> SUFFICES ASSUME coordinator' = "manager"
             PROVE  /\ Known(drained)' /\ Len(todo') <= Len(drained')
                    /\ \A i \in DOMAIN todo' : todo'[i] = drained'[i]
                    /\ \A i \in DOMAIN drained' : i > Len(todo') =>
                         \/ comp'[drained'[i]] \in {"closed", "skipped"}
                         \/ /\ i = Len(todo') + 1 /\ comp'[drained'[i]] = "running"
                            /\ \E k \in Caller : caller'[k] = "closing"
                                                 /\ begun'[Len(begun')] = drained'[i]
  BY DEF LastFirst, Ended, Awaited, Drain!Last
<1>3. coordinator = "manager"
  BY DEF Drain!Next, Drain!Registers, Drain!RegisterOpen, Drain!RegisterLate,
         Drain!RegisterReturns, Drain!CompReturns, Drain!Proceeds, Drain!RunBegins,
         Drain!RunShutsDown, Drain!CloseReturns, Drain!Drained, Drain!PhaseOver,
         Drain!ShutdownNow, Drain!Execute, Drain!Skip, Drain!CloseNext, Drain!RunPhase,
         Drain!ParentCancelled, Drain!WorkReturns, Drain!ExecuteCancelled, Drain!Tick, Drain!vars
<1>4. /\ Known(drained) /\ Len(todo) <= Len(drained)
      /\ \A i \in DOMAIN todo : todo[i] = drained[i]
      /\ \A i \in DOMAIN drained : i > Len(todo) =>
           \/ comp[drained[i]] \in {"closed", "skipped"}
           \/ /\ i = Len(todo) + 1 /\ comp[drained[i]] = "running"
              /\ \E k \in Caller : caller[k] = "closing" /\ begun[Len(begun)] = drained[i]
  BY <1>3 DEF ReverseInv, LastFirst, Ended, Awaited, Drain!Last
<1>5. Known(entries)
  BY <1>3 DEF ReverseInv, BudgetInv, Registered
<1>6. \A c \in Component : register[c] = "done" => register'[c] = "done"
  BY <1>1 DEF Drain!Next, Drain!Registers, Drain!RegisterOpen, Drain!RegisterLate, Drain!Goes,
         Drain!RegisterReturns, Drain!CompReturns, Drain!Proceeds, Drain!RunBegins,
         Drain!RunShutsDown, Drain!CloseReturns, Drain!Drained, Drain!PhaseOver,
         Drain!ShutdownNow, Drain!Execute, Drain!Skip, Drain!CloseNext, Drain!RunPhase,
         Drain!ParentCancelled, Drain!WorkReturns, Drain!ExecuteCancelled, Drain!Tick, Drain!vars
<1>7. drained' \in {drained, entries}
  BY <1>3 DEF Drain!Next, Drain!Registers, Drain!RegisterOpen, Drain!RegisterLate,
         Drain!RegisterReturns, Drain!CompReturns, Drain!Proceeds, Drain!RunBegins, Drain!Is,
         Drain!RunShutsDown, Drain!CloseReturns, Drain!Drained, Drain!PhaseOver,
         Drain!ShutdownNow, Drain!Execute, Drain!Skip, Drain!CloseNext, Drain!RunPhase,
         Drain!ParentCancelled, Drain!WorkReturns, Drain!ExecuteCancelled, Drain!Tick, Drain!vars
<1>8. Known(drained)'
  <2>1. /\ \A i \in DOMAIN drained : register'[drained[i]] = "done"
        /\ \A i \in DOMAIN entries : register'[entries[i]] = "done"
    BY <1>1, <1>4, <1>5, <1>6, StillKnown
  <2> QED BY <1>7, <2>1 DEF Known
<1> DEFINE Goal ==
      /\ Len(todo') <= Len(drained')
      /\ \A i \in DOMAIN todo' : todo'[i] = drained'[i]
      /\ \A i \in DOMAIN drained' : i > Len(todo') =>
           \/ comp'[drained'[i]] \in {"closed", "skipped"}
           \/ /\ i = Len(todo') + 1 /\ comp'[drained'[i]] = "running"
              /\ \E k \in Caller : caller'[k] = "closing" /\ begun'[Len(begun')] = drained'[i]
\* The drain's own sequences stay, and nothing of what it took begins or ends otherwise.
<1>9. ASSUME UNCHANGED <<todo, drained, begun>>,
             \A i \in DOMAIN drained :
               \/ comp'[drained[i]] = comp[drained[i]]
               \/ comp'[drained[i]] = "closed",
             \A k \in Caller : caller[k] = "closing" =>
               caller'[k] = "closing" \/ comp[Drain!Last(begun)] = "closed"
      PROVE  Goal
  BY <1>4, <1>9 DEF Drain!Last
<1>10. ASSUME NEW c \in Component, Drain!RegisterLate(c) PROVE Goal
  <2>1. /\ UNCHANGED <<todo, drained, begun, caller>> /\ comp' = [comp EXCEPT ![c] = "running"]
        /\ register[c] = "new"
    BY <1>10 DEF Drain!RegisterLate, Drain!Calls
  <2>2. \A i \in DOMAIN drained : comp'[drained[i]] = comp[drained[i]]
    BY <1>1, <1>2, <1>4, <2>1 DEF Known
  <2> QED BY <1>9, <2>1, <2>2
<1>11. ASSUME NEW c \in Component, Drain!CompReturns(c) \/ Drain!RegisterOpen(c) PROVE Goal
  <2>1. /\ UNCHANGED <<todo, drained, begun, caller>>
        /\ comp' = comp \/ comp' = [comp EXCEPT ![c] = "closed"]
    BY <1>11 DEF Drain!CompReturns, Drain!RegisterOpen
  <2>2. \A i \in DOMAIN drained : \/ comp'[drained[i]] = comp[drained[i]]
                                  \/ comp'[drained[i]] = "closed"
    BY <1>1, <1>2, <2>1
  <2> QED BY <1>9, <2>1, <2>2
<1>12. ASSUME NEW k \in Caller, Drain!ShutdownNow(k) PROVE Goal
  <2>1. CASE shutdown
    <3>1. /\ UNCHANGED <<todo, drained, begun, comp>>
          /\ \A l \in Caller : caller[l] = "closing" => caller'[l] = "closing"
      BY <1>1, <1>12, <2>1 DEF Drain!ShutdownNow, Drain!Goes
    <3> QED BY <1>9, <3>1
  <2>2. CASE ~shutdown
    <3>1. todo' = entries /\ drained' = entries
      BY <1>12, <2>2 DEF Drain!ShutdownNow
    <3>2. Len(entries) \in Nat /\ DOMAIN entries = 1 .. Len(entries)
      BY <1>1, LenProperties
    <3> QED BY <3>1, <3>2
  <2> QED BY <2>1, <2>2
<1>13. ASSUME NEW k \in Caller, Drain!Skip(k) \/ Drain!CloseNext(k) \/ Drain!RunPhase(k)
       PROVE  Goal
  <2>1. PICK x \in Component, w \in {"running", "skipped"} :
          /\ comp' = [comp EXCEPT ![x] = w]
          /\ \/ begun' = begun /\ w = "skipped" /\ caller' = caller
             \/ begun' = Append(begun, x) /\ w = "running" /\ caller' = [caller EXCEPT ![k] = "closing"]
          /\ \E i \in DOMAIN todo : x = todo[i]
          /\ todo' = Drain!Front(todo) /\ x = todo[Len(todo)]
    BY <1>3, <1>13, Takes
  <2>2. caller[k] = "draining" /\ todo # <<>> /\ drained' = drained
    BY <1>13, Takes
  <2>3. \A l \in Caller : caller[l] # "closing"
    BY <2>2 DEF ReverseInv, OneDrain, AtDrain
  <2>4. \A i \in DOMAIN drained : i > Len(todo) => comp[drained[i]] \in {"closed", "skipped"}
    BY <1>4, <2>3
  <2>5. comp[x] = "new"
    BY <2>1 DEF ReverseInv, ClosedOnce
  <2>6. PICK n \in Nat : Len(todo) = n + 1
    <3>1. \A m \in Nat \ {0} : m - 1 \in Nat /\ m = (m - 1) + 1
      OBVIOUS
    <3> QED BY <1>1, <2>2, <3>1, LastOf
  <2>7. Len(todo) - 1 = n
    BY <2>6
  <2>8. /\ Len(todo') = n /\ DOMAIN todo = 1 .. n + 1 /\ DOMAIN todo' = 1 .. n
        /\ \A i \in 1 .. n : todo'[i] = todo[i]
    <3>1. todo' \in Seq(Component) /\ Len(todo') = n /\ \A i \in 1 .. n : todo'[i] = todo[i]
      BY <1>1, <2>1, <2>2, <2>7, FrontOf
    <3> QED BY <1>1, <2>6, <3>1, LenProperties
  <2>9. /\ \A i \in 1 .. n : i \in 1 .. n + 1
        /\ n + 1 \in 1 .. n + 1
        /\ \A m \in Nat : n + 1 <= m => n <= m
        /\ \A i \in Nat : i > n => i > n + 1 \/ i = n + 1
    OBVIOUS
  <2>10. x = drained[n + 1]
    BY <1>4, <2>1, <2>6, <2>8, <2>9
  <2>11. Len(drained) \in Nat /\ DOMAIN drained = 1 .. Len(drained)
    BY <1>1, LenProperties
  <2>12. \A i \in DOMAIN drained : i > n + 1 => comp'[drained[i]] \in {"closed", "skipped"}
    BY <1>1, <1>2, <2>1, <2>4, <2>5, <2>6
  <2>13. \/ comp'[x] = "skipped"
         \/ comp'[x] = "running" /\ caller'[k] = "closing" /\ begun'[Len(begun')] = x
    <3>1. comp'[x] = w
      BY <1>1, <2>1
    <3>2. begun' = Append(begun, x) => begun'[Len(begun')] = x
      BY <1>1, OneMore DEF Drain!Last
    <3> QED BY <1>1, <2>1, <3>1, <3>2
  <2>14. Len(todo') <= Len(drained')
    BY <1>4, <2>2, <2>6, <2>8, <2>9, <2>11
  <2>15. \A i \in DOMAIN todo' : todo'[i] = drained'[i]
    BY <1>4, <2>2, <2>8, <2>9
  <2>16. \A i \in DOMAIN drained : i > n => i > n + 1 \/ i = n + 1
    BY <2>9, <2>11
  <2> QED BY <2>2, <2>8, <2>10, <2>12, <2>13, <2>14, <2>15, <2>16
<1>14. ASSUME NEW k \in Caller, Drain!Execute(k) PROVE Goal
  BY <1>3, <1>14 DEF Drain!Execute, Drain!Is
<1>15. ASSUME UNCHANGED <<todo, drained, begun, comp>>,
              \A k \in Caller : caller[k] = "closing" /\ coordinator = "manager" =>
                caller'[k] = "closing" \/ comp[Drain!Last(begun)] = "closed"
       PROVE  Goal
  BY <1>3, <1>9, <1>15
<1> HIDE DEF Goal
<1>16. Goal
  BY <1>1, <1>10, <1>11, <1>12, <1>13, <1>14, <1>15, OtherSteps
<1> QED BY <1>8, <1>16 DEF Goal

LEMMA ReverseInit == Drain!ShutdownAssumption /\ OneExecute /\ Drain!Init => ReverseInv
<1> SUFFICES ASSUME Drain!ShutdownAssumption, OneExecute, Drain!Init PROVE ReverseInv
  OBVIOUS
<1>1. BudgetInv
  BY DrainInit
<1>2. DOMAIN <<>> = {} /\ Len(<<>>) = 0
  OBVIOUS
<1> QED BY <1>1, <1>2 DEF Drain!Init, ReverseInv, OneDrain, AtDrain, NotYet, Quiet, ClosedOnce,
                          Distinct, LastFirst, Known

LEMMA ReverseInvariant == Drain!ShutdownAssumption /\ OneExecute => (Drain!Spec => []ReverseInv)
<1> SUFFICES ASSUME Drain!ShutdownAssumption, OneExecute PROVE Drain!Spec => []ReverseInv
  OBVIOUS
<1>1. ReverseInv /\ [Drain!Next]_(Drain!vars) => ReverseInv'
  <2> SUFFICES ASSUME ReverseInv, [Drain!Next]_(Drain!vars) PROVE ReverseInv'
    OBVIOUS
  <2>1. BudgetInv'
    BY DrainTypes, DrainRoles, BudgetStep DEF ReverseInv, BudgetInv
  <2> QED BY <2>1, OneDrainStep, NotYetStep, OnceStep, LastFirstStep DEF ReverseInv
<1> QED BY <1>1, ReverseInit, PTL DEF Drain!Spec

\* Whatever calls Run, Shutdown and Register make at once, no component is closed
\* twice, and the manager begins with one only when all registered after it have
\* ended. Only the Execute of the phases, which nothing keeps from a second call,
\* must be called once.
THEOREM LastRegisteredFirst ==
  Drain!ShutdownAssumption /\ OneExecute => (Drain!Spec => []ClosedInReverse)
<1>1. ReverseInv => ClosedInReverse
  <2> SUFFICES ASSUME ReverseInv PROVE ClosedInReverse
    OBVIOUS
  <2>1. \A i, j \in DOMAIN begun : i # j => begun[i] # begun[j]
    BY DEF ReverseInv, ClosedOnce, Distinct
  <2>2. ASSUME coordinator = "manager", NEW i \in DOMAIN drained, NEW j \in DOMAIN drained, i < j,
               comp[drained[i]] # "new"
        PROVE  comp[drained[j]] \in {"closed", "skipped"}
    <3>1. /\ todo \in Seq(Component) /\ drained \in Seq(Component)
      BY DEF ReverseInv, BudgetInv, Drain!TypeOK
    <3>2. /\ Len(todo) \in Nat /\ DOMAIN todo = 1 .. Len(todo)
          /\ Len(drained) \in Nat /\ DOMAIN drained = 1 .. Len(drained)
      BY <3>1, LenProperties
    <3>3. i \notin DOMAIN todo
      BY <2>2 DEF ReverseInv, LastFirst, ClosedOnce
    <3>4. i > Len(todo)
      BY <3>2, <3>3
    <3>5. j > Len(todo) /\ j # Len(todo) + 1
      BY <2>2, <3>2, <3>4
    <3> QED BY <2>2, <3>5 DEF ReverseInv, LastFirst, Ended
  <2> QED BY <2>1, <2>2 DEF ClosedInReverse
<1> QED BY <1>1, ReverseInvariant, PTL
=============================================================================

------------------------ MODULE AgentSchedulerProofs ------------------------
(* Theorems about AgentScheduler, for any number of runs, callers and slots: *)
(* the count of taken slots and the map of cancel functions, which submit,   *)
(* dispatch and execute keep by hand, are those of the executions; the pool  *)
(* has room for whatever the scheduler hands it; and a Close that returned   *)
(* nil leaves no run unfinished.                                             *)
EXTENDS AgentScheduler, FiniteSetTheorems, TLAPS

\* Where an execution holds a slot, and the executions that do.
HoldsSlot == {"handed", "agent", "finish", "release", "dead"}
Holders(e) == With(e, HoldsSlot)

DomainsOK ==
  /\ state \in [Run -> States] /\ sub \in [Run -> Subs]
  /\ queue \subseteq Run
  /\ exec \in [Run -> Execs] /\ outcome \in [Run -> {"none"} \cup Terminal]

\* A run is executed once it was accepted and is out of the queue.
QueuedIsFresh ==
  /\ \A r \in queue : exec[r] = "none" /\ sub[r] = "accepted"
  /\ \A r \in Run : exec[r] # "none" => sub[r] = "accepted"

IInv == DomainsOK /\ QueuedIsFresh /\ SlotsAreExecutions /\ DispatchFits

-----------------------------------------------------------------------------
LEMMA HoldersAreFinite ==
  ASSUME NEW e
  PROVE  /\ IsFiniteSet(Holders(e)) /\ IsFiniteSet(With(e, {"handed"}))
         /\ Cardinality(Holders(e)) \in Nat /\ Cardinality(With(e, {"handed"})) \in Nat
         /\ Cardinality(With(e, {"handed"})) <= Cardinality(Holders(e))
<1>1. IsFiniteSet(Run)
  BY SchedulerAssumption DEF SchedulerAssumption
<1>2. Holders(e) \subseteq Run /\ With(e, {"handed"}) \subseteq Holders(e)
  BY DEF Holders, With, HoldsSlot
<1>3. IsFiniteSet(Holders(e))
  BY <1>1, <1>2, FS_Subset
<1> QED BY <1>2, <1>3, FS_Subset, FS_CardinalityType

\* dispatchLocked hands the pool what it popped, so nothing fails; every run it
\* hands over takes one slot, and gets one cancel function.
LEMMA DispatchHands ==
  ASSUME NEW q \in SUBSET Run, NEW num, NEW used, NEW e \in [Run -> Execs], NEW c,
         state \in [Run -> States],
         used = Cardinality(Holders(e)), c = Holders(e),
         \A r \in q : e[r] \notin HoldsSlot,
         Dispatch(q, num, used, e, c)
  PROVE  /\ queue' \subseteq q /\ state' = state /\ exec' \in [Run -> Execs]
         /\ running' = Cardinality(Holders(exec')) /\ cancels' = Holders(exec')
         /\ \A r \in queue' : exec'[r] = e[r]
         /\ \A r \in Run : \/ exec'[r] = e[r]
                           \/ r \in q /\ state[r] = "queued" /\ exec'[r] = "handed"
         /\ \A r \in q \ queue' : exec'[r] = "handed" \/ state[r] # "queued"
<1> DEFINE live == {r \in q : state[r] = "queued"}
           ahead(r) == Cardinality({s \in live : Before(num, s, r)})
           popped == {r \in q : ahead(r) < MaxConcurrent - used}
           room == PoolDepth - Cardinality(With(e, {"handed"}))
           handed == {r \in popped \cap live : ahead(r) < room}
<1>1. \A r \in q : ahead(r) \in Nat
  <2> SUFFICES ASSUME NEW r \in q PROVE ahead(r) \in Nat
    OBVIOUS
  <2>1. {s \in live : Before(num, s, r)} \subseteq Run /\ IsFiniteSet(Run)
    BY SchedulerAssumption DEF SchedulerAssumption
  <2>2. IsFiniteSet({s \in live : Before(num, s, r)})
    BY <2>1, FS_Subset
  <2> HIDE DEF live
  <2> QED BY <2>2, FS_CardinalityType
<1>2. MaxConcurrent - used <= room /\ used \in Nat /\ room \in Int
  BY HoldersAreFinite, SchedulerAssumption DEF PoolDepth, SchedulerAssumption
<1>3. handed = popped \cap live
  <2>1. \A r \in popped : ahead(r) < room
    <3> SUFFICES ASSUME NEW r \in q, ahead(r) < MaxConcurrent - used PROVE ahead(r) < room
      OBVIOUS
    <3>1. ahead(r) \in Nat /\ MaxConcurrent \in Nat
      BY <1>1, SchedulerAssumption DEF SchedulerAssumption
    <3> HIDE DEF ahead, room
    <3> QED BY <1>2, <3>1
  <2> QED BY <2>1
<1>4. /\ queue' = q \ popped /\ running' = used + Cardinality(handed) /\ cancels' = c \cup handed
      /\ exec' = [r \in Run |-> IF r \in handed THEN "handed" ELSE e[r]]
      /\ state' = [r \in Run |-> state[r]]
  <2>1. /\ queue' = IF handed # popped \cap live THEN {} ELSE q \ popped
        /\ running' = used + Cardinality(handed) /\ cancels' = c \cup handed
        /\ exec' = [r \in Run |-> IF r \in handed THEN "handed" ELSE e[r]]
        /\ state' = [r \in Run |-> IF r \in (IF handed # popped \cap live THEN live \ handed ELSE {})
                                     THEN "failed" ELSE state[r]]
    BY Zenon DEF Dispatch
  <2> HIDE DEF handed, popped, live
  <2> QED BY <1>3, <2>1
<1>5. handed \subseteq popped /\ handed \subseteq live /\ popped \subseteq q /\ live \subseteq q
  OBVIOUS
<1>6. \A r \in q : r \in live <=> state[r] = "queued"
  OBVIOUS
<1> HIDE DEF handed, popped, live, room, ahead
<1>7. exec' \in [Run -> Execs]
  BY <1>4 DEF Execs
<1>8. Holders(exec') = Holders(e) \cup handed /\ Holders(e) \cap handed = {}
  BY <1>4, <1>5 DEF Holders, With, HoldsSlot
<1>9. Cardinality(Holders(exec')) = Cardinality(Holders(e)) + Cardinality(handed)
  <2>1. IsFiniteSet(Holders(e)) /\ IsFiniteSet(handed)
    BY <1>5, HoldersAreFinite, FS_Subset, SchedulerAssumption DEF SchedulerAssumption
  <2>2. /\ Cardinality(Holders(e)) \in Nat /\ Cardinality(handed) \in Nat
        /\ Cardinality(Holders(e) \cup handed)
             = Cardinality(Holders(e)) + Cardinality(handed) - Cardinality(Holders(e) \cap handed)
    BY <2>1, FS_Union, FS_CardinalityType
  <2>3. Cardinality(Holders(e) \cap handed) = 0
    BY <1>8, FS_EmptySet
  <2> QED BY <1>8, <2>2, <2>3
<1>10. /\ \A r \in Run : \/ exec'[r] = e[r]
                         \/ r \in q /\ state[r] = "queued" /\ exec'[r] = "handed"
       /\ \A r \in queue' : exec'[r] = e[r]
       /\ \A r \in q \ queue' : exec'[r] = "handed" \/ state[r] # "queued"
  <2>1. \A r \in Run : exec'[r] = IF r \in handed THEN "handed" ELSE e[r]
    BY <1>4
  <2> QED BY <1>3, <1>4, <1>5, <1>6, <2>1
<1>11. state' = state
  BY <1>4
<1> QED BY <1>4, <1>7, <1>8, <1>9, <1>10, <1>11

-----------------------------------------------------------------------------
LEMMA InitInv == Init => IInv
<1> SUFFICES ASSUME Init PROVE IInv
  OBVIOUS
<1>1. DomainsOK /\ QueuedIsFresh /\ DispatchFits
  BY DEF Init, DomainsOK, QueuedIsFresh, DispatchFits, States, Subs, Execs
<1>2. With(exec, HoldsSlot) = {}
  BY DEF Init, With, HoldsSlot
<1>3. SlotsAreExecutions
  BY <1>2, FS_EmptySet DEF Init, SlotsAreExecutions, HoldsSlot
<1> QED BY <1>1, <1>3 DEF IInv

\* A step that touches neither the executions nor the slots, accepts nothing and
\* fails nothing.
LEMMA QuietInv ==
  ASSUME IInv, UNCHANGED <<exec, running, cancels, outcome>>, queue' \subseteq queue,
         state' \in [Run -> States], sub' \in [Run -> Subs],
         \A r \in Run : state'[r] = "failed" => state[r] = "failed",
         \A r \in Run : sub'[r] = "accepted" <=> sub[r] = "accepted"
  PROVE  IInv'
<1>1. DomainsOK' /\ QueuedIsFresh'
  BY DEF IInv, DomainsOK, QueuedIsFresh
<1>2. SlotsAreExecutions' /\ DispatchFits'
  BY DEF IInv, SlotsAreExecutions, DispatchFits, With
<1> QED BY <1>1, <1>2 DEF IInv

\* A step of an execution that neither takes nor gives back a slot.
LEMMA MoveInv ==
  ASSUME IInv, NEW r \in Run,
         NEW from \in Execs, NEW to \in Execs \ {"none", "handed"}, Executed(r, from, to),
         from # "none", from \in HoldsSlot <=> to \in HoldsSlot,
         UNCHANGED <<running, cancels, queue, sub>>,
         state' \in [Run -> States], outcome' \in [Run -> {"none"} \cup Terminal],
         \A s \in Run : s # r => state'[s] = state[s]
  PROVE  IInv'
<1> USE DEF IInv
<1>1. /\ exec[r] = from /\ exec' \in [Run -> Execs] /\ exec'[r] = to
      /\ \A s \in Run : s # r => exec'[s] = exec[s]
  BY DEF Executed, DomainsOK
<1>2. DomainsOK' /\ QueuedIsFresh'
  BY <1>1 DEF DomainsOK, QueuedIsFresh
<1>3. With(exec', HoldsSlot) = With(exec, HoldsSlot)
  BY <1>1 DEF With
<1>4. SlotsAreExecutions'
  BY <1>3 DEF SlotsAreExecutions, HoldsSlot, With
<1>5. DispatchFits'
  BY <1>1 DEF DispatchFits
<1> QED BY <1>2, <1>4, <1>5

LEMMA SubmitInv ==
  ASSUME IInv, NEW r \in Run, SubmitCheck(r) \/ CreateRun(r) \/ FindClosed(r) \/ Refuse(r)
  PROVE  IInv'
<1> USE DEF IInv
<1>1. PICK from \in Subs \ {"accepted"}, to \in Subs \ {"accepted"} : Submitted(r, from, to)
  BY DEF SubmitCheck, CreateRun, FindClosed, Refuse, Subs
<1>2. sub' \in [Run -> Subs] /\ \A s \in Run : sub'[s] = "accepted" <=> sub[s] = "accepted"
  BY <1>1 DEF Submitted, DomainsOK
<1>3. /\ state' \in [Run -> States]
      /\ \A s \in Run : state'[s] = "failed" => state[s] = "failed"
  BY DEF SubmitCheck, CreateRun, FindClosed, Refuse, CancelRun, DomainsOK, States, Terminal
<1>4. UNCHANGED <<exec, running, cancels, outcome, queue>>
  BY DEF SubmitCheck, CreateRun, FindClosed, Refuse, schedVars
<1> QED BY <1>2, <1>3, <1>4, QuietInv

\* What a push does to the queue and the executions.
LEMMA PushDispatches ==
  ASSUME IInv, NEW r \in Run, Push(r)
  PROVE  /\ sub' \in [Run -> Subs] /\ sub[r] = "created" /\ sub' = [sub EXCEPT ![r] = "accepted"]
         /\ outcome' = outcome
         /\ queue' \subseteq queue \cup {r} /\ state' = state /\ exec' \in [Run -> Execs]
         /\ running' = Cardinality(Holders(exec')) /\ cancels' = Holders(exec')
         /\ \A s \in queue \cup {r} : exec[s] = "none" /\ sub'[s] = "accepted"
         /\ \A s \in queue' : exec'[s] = exec[s]
         /\ \A s \in Run : \/ exec'[s] = exec[s]
                           \/ s \in queue \cup {r} /\ state[s] = "queued" /\ exec'[s] = "handed"
         /\ \A s \in (queue \cup {r}) \ queue' : exec'[s] = "handed" \/ state[s] # "queued"
<1> USE DEF IInv
<1>1. /\ Submitted(r, "created", "accepted") /\ outcome' = outcome
      /\ Dispatch(queue \cup {r}, Numbered(r), running, exec, cancels)
  BY DEF Push
<1>2. /\ sub' \in [Run -> Subs] /\ sub[r] = "created" /\ sub'[r] = "accepted"
      /\ \A s \in Run : sub'[s] = sub[s] \/ sub'[s] = "accepted"
  BY <1>1 DEF Submitted, DomainsOK, Subs
<1>3. \A s \in queue \cup {r} : exec[s] = "none" /\ sub'[s] = "accepted"
  BY <1>2 DEF QueuedIsFresh, DomainsOK
<1>4. running = Cardinality(Holders(exec)) /\ cancels = Holders(exec)
  BY DEF SlotsAreExecutions, Holders, HoldsSlot
<1>5. /\ queue' \subseteq queue \cup {r} /\ state' = state /\ exec' \in [Run -> Execs]
      /\ running' = Cardinality(Holders(exec')) /\ cancels' = Holders(exec')
      /\ \A s \in queue' : exec'[s] = exec[s]
      /\ \A s \in Run : \/ exec'[s] = exec[s]
                        \/ s \in queue \cup {r} /\ state[s] = "queued" /\ exec'[s] = "handed"
      /\ \A s \in (queue \cup {r}) \ queue' : exec'[s] = "handed" \/ state[s] # "queued"
  <2>1. queue \cup {r} \in SUBSET Run /\ \A s \in queue \cup {r} : exec[s] \notin HoldsSlot
    BY <1>3 DEF DomainsOK, HoldsSlot
  <2>2. state \in [Run -> States] /\ exec \in [Run -> Execs]
    BY DEF DomainsOK
  <2>3. PICK q, num, used, e, c :
          /\ q = queue \cup {r} /\ used = running /\ e = exec /\ c = cancels
          /\ Dispatch(q, num, used, e, c)
    <3> WITNESS queue \cup {r}, Numbered(r), running, exec, cancels
    <3> QED BY <1>1
  <2> QED BY <1>4, <2>1, <2>2, <2>3, DispatchHands
<1> QED BY <1>1, <1>2, <1>3, <1>5 DEF Submitted

LEMMA PushInv == ASSUME IInv, NEW r \in Run, Push(r) PROVE IInv'
<1> USE PushDispatches
<1>1. \A s \in Run : sub'[s] = sub[s] \/ sub'[s] = "accepted"
  BY DEF IInv, DomainsOK
<1>2. DomainsOK'
  BY DEF IInv, DomainsOK
<1>3. QueuedIsFresh'
  BY <1>1 DEF IInv, QueuedIsFresh
<1>4. SlotsAreExecutions'
  BY DEF SlotsAreExecutions, Holders, HoldsSlot, With
<1>5. DispatchFits'
  BY DEF IInv, DispatchFits
<1> QED BY <1>2, <1>3, <1>4, <1>5 DEF IInv

\* What giving a slot back does to the queue and the executions.
LEMMA ReleaseDispatches ==
  ASSUME IInv, NEW r \in Run, Release(r)
  PROVE  \E e \in [Run -> Execs] :
         /\ exec[r] = "release" /\ sub' = sub /\ outcome' = outcome
         /\ e[r] = "notify" /\ \A s \in Run : s # r => e[s] = exec[s]
         /\ queue' \subseteq queue /\ state' = state /\ exec' \in [Run -> Execs]
         /\ running' = Cardinality(Holders(exec')) /\ cancels' = Holders(exec')
         /\ \A s \in queue : e[s] = "none"
         /\ \A s \in queue' : exec'[s] = e[s]
         /\ \A s \in Run : \/ exec'[s] = e[s]
                           \/ s \in queue /\ state[s] = "queued" /\ exec'[s] = "handed"
         /\ \A s \in queue \ queue' : exec'[s] = "handed" \/ state[s] # "queued"
<1> USE DEF IInv
<1> DEFINE e == [exec EXCEPT ![r] = "notify"]
<1>1. /\ exec[r] = "release" /\ sub' = sub /\ outcome' = outcome
      /\ DispatchUnlessClosed(queue, sequence, running - 1, e, cancels \ {r})
  BY DEF Release
<1>2. /\ e \in [Run -> Execs] /\ e[r] = "notify" /\ \A s \in Run : s # r => e[s] = exec[s]
  BY DEF DomainsOK, Execs
<1> HIDE DEF e
<1>3. Holders(e) = Holders(exec) \ {r} /\ r \in Holders(exec)
  BY <1>1, <1>2 DEF Holders, With, HoldsSlot
<1>4. running - 1 = Cardinality(Holders(e)) /\ cancels \ {r} = Holders(e)
  BY <1>3, HoldersAreFinite, FS_RemoveElement DEF SlotsAreExecutions, Holders, HoldsSlot
<1>5. \A s \in queue : e[s] = exec[s] /\ e[s] = "none"
  BY <1>1, <1>2 DEF QueuedIsFresh, DomainsOK
<1>6. /\ queue' \subseteq queue /\ state' = state /\ exec' \in [Run -> Execs]
      /\ running' = Cardinality(Holders(exec')) /\ cancels' = Holders(exec')
      /\ \A s \in queue' : exec'[s] = e[s]
      /\ \A s \in Run : \/ exec'[s] = e[s]
                        \/ s \in queue /\ state[s] = "queued" /\ exec'[s] = "handed"
      /\ \A s \in queue \ queue' : exec'[s] = "handed" \/ state[s] # "queued"
  <2>1. CASE closed
    BY <1>1, <1>2, <1>4, <2>1 DEF DispatchUnlessClosed
  <2>2. CASE ~closed
    <3>1. Dispatch(queue, sequence, running - 1, e, cancels \ {r})
      BY <1>1, <2>2 DEF DispatchUnlessClosed
    <3>2. \A s \in queue : e[s] \notin HoldsSlot
      BY <1>5 DEF HoldsSlot
    <3>3. queue \in SUBSET Run /\ state \in [Run -> States]
      BY DEF DomainsOK
    <3>4. PICK q, num, used, f, c :
            /\ q = queue /\ used = running - 1 /\ f = e /\ c = cancels \ {r}
            /\ Dispatch(q, num, used, f, c)
      <4> WITNESS queue, sequence, running - 1, e, cancels \ {r}
      <4> QED BY <3>1
    <3>5. used = Cardinality(Holders(f)) /\ c = Holders(f)
      BY <1>4, <3>4 DEF Holders, With
    <3>6. f \in [Run -> Execs] /\ \A s \in q : f[s] \notin HoldsSlot
      BY <1>2, <3>2, <3>4
    <3>7. /\ queue' \subseteq q /\ state' = state /\ exec' \in [Run -> Execs]
          /\ running' = Cardinality(Holders(exec')) /\ cancels' = Holders(exec')
          /\ \A s \in queue' : exec'[s] = f[s]
          /\ \A s \in Run : \/ exec'[s] = f[s]
                            \/ s \in q /\ state[s] = "queued" /\ exec'[s] = "handed"
          /\ \A s \in q \ queue' : exec'[s] = "handed" \/ state[s] # "queued"
      <4>1. q \in SUBSET Run /\ Dispatch(q, num, used, f, c)
        BY <3>3, <3>4
      <4> HIDE <3>4
      <4> QED BY <3>3, <3>5, <3>6, <4>1, DispatchHands
    <3> QED BY <3>4, <3>7
  <2> QED BY <2>1, <2>2
<1> QED BY <1>1, <1>2, <1>5, <1>6

LEMMA ReleaseInv == ASSUME IInv, NEW r \in Run, Release(r) PROVE IInv'
<1> USE DEF IInv
<1>1. PICK e \in [Run -> Execs] :
         /\ exec[r] = "release" /\ sub' = sub /\ outcome' = outcome
         /\ e[r] = "notify" /\ \A s \in Run : s # r => e[s] = exec[s]
         /\ queue' \subseteq queue /\ state' = state /\ exec' \in [Run -> Execs]
         /\ running' = Cardinality(Holders(exec')) /\ cancels' = Holders(exec')
         /\ \A s \in queue : e[s] = "none"
         /\ \A s \in queue' : exec'[s] = e[s]
         /\ \A s \in Run : \/ exec'[s] = e[s]
                           \/ s \in queue /\ state[s] = "queued" /\ exec'[s] = "handed"
  BY ReleaseDispatches
<1>2. DomainsOK'
  BY <1>1 DEF DomainsOK
<1>3. QueuedIsFresh'
  BY <1>1 DEF QueuedIsFresh
<1>4. SlotsAreExecutions'
  BY <1>1 DEF SlotsAreExecutions, Holders, HoldsSlot, With
<1>5. DispatchFits'
  BY <1>1 DEF DispatchFits
<1> QED BY <1>2, <1>3, <1>4, <1>5

LEMMA ExecuteInv ==
  ASSUME IInv, NEW r \in Run,
         Begin(r) \/ (\E o \in Terminal : AgentReturns(r, o)) \/ AgentPanics(r)
           \/ StoreOutcome(r) \/ Notify(r)
  PROVE  IInv'
<1> USE DEF IInv
<1>1. UNCHANGED <<running, cancels, queue, sub>>
  BY DEF Begin, AgentReturns, AgentPanics, StoreOutcome, Notify, schedVars
<1>2. /\ state' \in [Run -> States] /\ outcome' \in [Run -> {"none"} \cup Terminal]
      /\ \A s \in Run : s # r => state'[s] = state[s]
  BY DEF Begin, AgentReturns, AgentPanics, StoreOutcome, Notify, DomainsOK, States
<1>3. PICK from \in Execs \ {"none"}, to \in Execs \ {"none", "handed"} :
        Executed(r, from, to) /\ (from \in HoldsSlot <=> to \in HoldsSlot)
  <2>1. CASE Begin(r)
    BY <2>1 DEF Begin, Execs, HoldsSlot
  <2>2. CASE \E o \in Terminal : AgentReturns(r, o)
    BY <2>2 DEF AgentReturns, Execs, HoldsSlot
  <2>3. CASE AgentPanics(r)
    BY <2>3 DEF AgentPanics, Execs, HoldsSlot
  <2>4. CASE StoreOutcome(r)
    BY <2>4 DEF StoreOutcome, Execs, HoldsSlot
  <2>5. CASE Notify(r)
    BY <2>5 DEF Notify, Execs, HoldsSlot
  <2> QED BY <2>1, <2>2, <2>3, <2>4, <2>5
<1> QED BY <1>1, <1>2, <1>3, MoveInv

LEMMA CallsInv ==
  ASSUME IInv,
         \/ \E c \in Canceller : CancelStep(c) \/ \E r \in Run : CancelRead(c, r)
         \/ \E w \in Waiter : WaitRegister(w) \/ \E r \in Run : WaitRead(w, r)
         \/ CloseQueue \/ CloseStep \/ CloseDeadline
  PROVE  IInv'
<1> USE DEF IInv
<1>1. UNCHANGED <<exec, running, cancels, outcome, sub>> /\ queue' \subseteq queue
  BY DEF CancelStep, CancelRead, CancelWrite, CancelNotify, CancelSignal, WaitRead, WaitRegister,
         CloseQueue, CloseStep, CloseItem, CloseSignal, CloseDrained, CloseDeadline, schedVars
<1>2. \/ state' = state
      \/ \E r : state' = [state EXCEPT ![r] = "cancelled"]
  BY DEF CancelStep, CancelRead, CancelWrite, CancelNotify, CancelSignal, WaitRead, WaitRegister,
         CloseQueue, CloseStep, CloseItem, CloseSignal, CloseDrained, CloseDeadline, CancelRun
<1>3. /\ state' \in [Run -> States] /\ sub' \in [Run -> Subs]
      /\ \A r \in Run : state'[r] = "failed" => state[r] = "failed"
  BY <1>1, <1>2 DEF DomainsOK, States, Terminal
<1> QED BY <1>1, <1>3, QuietInv

LEMMA StepInv == IInv /\ [Next]_vars => IInv'
<1> SUFFICES ASSUME IInv, [Next]_vars PROVE IInv'
  OBVIOUS
<1>1. ASSUME NEW r \in Run, SubmitStep(r) \/ ExecuteStep(r) \/ AgentPanics(r) PROVE IInv'
  BY <1>1, SubmitInv, PushInv, ExecuteInv, ReleaseInv DEF SubmitStep, ExecuteStep
<1>2. CASE \/ \E c \in Canceller : CancelStep(c) \/ \E r \in Run : CancelRead(c, r)
           \/ \E w \in Waiter : WaitRegister(w) \/ \E r \in Run : WaitRead(w, r)
           \/ CloseQueue \/ CloseStep \/ CloseDeadline
  BY <1>2, CallsInv
<1>3. CASE UNCHANGED vars \/ CloseAgain
  BY <1>3, QuietInv DEF CloseAgain, vars, IInv, DomainsOK
<1> QED BY <1>1, <1>2, <1>3 DEF Next

-----------------------------------------------------------------------------
\* The invariant holds throughout: every call, dispatch and execution keeps it.
THEOREM Invariance == Spec => []IInv
<1> QED BY InitInv, StepInv, PTL DEF Spec

\* The count of taken slots is the number of executions that hold one, and those are
\* the runs Cancel can reach, however Submit, execute, Cancel and Close interleave.
THEOREM SlotsCounted == Spec => []SlotsAreExecutions
<1>1. IInv => SlotsAreExecutions
  BY DEF IInv
<1> QED BY <1>1, Invariance, PTL

\* The pool's channel, as deep as the slots are many, always has room for what
\* dispatchLocked hands it: failDispatch fails no run.
THEOREM NoDispatchFails == Spec => []DispatchFits
<1>1. IInv => DispatchFits
  BY DEF IInv
<1> QED BY <1>1, Invariance, PTL

-----------------------------------------------------------------------------
(* Close.  A run is, from its push to its end, in the queue, among the items  *)
(* Close has still to cancel, in the pool, or stored with its end.            *)

FateOf(r) ==
  /\ sub[r] \in {"new", "open", "refused"} => state[r] \in {"none"} \cup Terminal
  /\ sub[r] # "accepted" => exec[r] = "none"
  /\ exec[r] = "none" => state[r] # "running"
  /\ (exec[r] = "none" /\ sub[r] = "accepted") =>
       r \in queue \cup leaving \/ state[r] \in {"none"} \cup Terminal
  /\ exec[r] = "finish" => outcome[r] \in Terminal
  /\ exec[r] \in {"release", "notify", "over"} => state[r] \in Terminal
Fates == \A r \in Run : FateOf(r)

\* Close takes the whole queue, cancels what it took before it drains the pool, and
\* after it nothing is handed to the pool.
CloseInv ==
  /\ closed => queue = {}
  /\ closing # "items" => leaving = {}
  /\ closing = "closed" => With(exec, {"handed"}) \cup Busy = {}

EndsInv == Fates /\ CloseInv

\* A run another step passes by, or cancels.
LEMMA FateStays ==
  ASSUME NEW r \in Run, FateOf(r), sub'[r] = sub[r], exec'[r] = exec[r], outcome'[r] = outcome[r],
         state'[r] = state[r] \/ state'[r] \in Terminal,
         (exec[r] = "none" /\ r \in queue \cup leaving) =>
            r \in (queue \cup leaving)' \/ state'[r] \in {"none"} \cup Terminal
  PROVE  FateOf(r)'
<1>1. "running" \notin Terminal
  BY DEF Terminal
<1> QED BY <1>1 DEF FateOf

LEMMA SubmitEnds ==
  ASSUME IInv, EndsInv, NEW r \in Run, SubmitCheck(r) \/ CreateRun(r) \/ FindClosed(r) \/ Refuse(r)
  PROVE  EndsInv'
<1> USE DEF IInv, EndsInv
<1>1. UNCHANGED <<queue, leaving, closing, exec, outcome>>
  BY DEF SubmitCheck, CreateRun, FindClosed, Refuse, schedVars, closeVars
<1>2. CloseInv'
  BY <1>1 DEF CloseInv, closed, With, Busy
<1>3. ASSUME NEW s \in Run, s # r PROVE FateOf(s)'
  <2>1. sub'[s] = sub[s] /\ state'[s] = state[s]
    BY <1>3 DEF SubmitCheck, CreateRun, FindClosed, Refuse, CancelRun, Submitted, DomainsOK
  <2> QED BY <1>1, <2>1, FateStays DEF Fates
<1>4. FateOf(r)'
  <2>1. FateOf(r) /\ "cancelled" \in Terminal /\ "queued" \notin Terminal
    BY DEF Fates, Terminal
  <2>2. /\ sub[r] # "accepted" /\ sub'[r] # "accepted"
        /\ sub'[r] \in {"new", "open", "refused"} => state'[r] \in {"none"} \cup Terminal
        /\ state'[r] = state[r] \/ state'[r] \in {"queued", "cancelled"}
    BY <2>1 DEF SubmitCheck, CreateRun, FindClosed, Refuse, CancelRun, Submitted, DomainsOK, FateOf
  <2> QED BY <1>1, <2>1, <2>2 DEF FateOf
<1> QED BY <1>2, <1>3, <1>4 DEF Fates

LEMMA PushEnds == ASSUME IInv, EndsInv, NEW r \in Run, Push(r) PROVE EndsInv'
<1> USE PushDispatches DEF IInv, EndsInv
<1>1. ~closed /\ UNCHANGED <<closing, leaving>>
  BY DEF Push, closeVars
<1>2. CloseInv'
  BY <1>1 DEF CloseInv, closed
<1>3. ASSUME NEW s \in Run PROVE FateOf(s)'
  <2>1. FateOf(s) /\ "handed" \notin {"none", "finish", "release", "notify", "over"}
    BY DEF Fates
  <2>2. state'[s] = state[s] /\ outcome'[s] = outcome[s] /\ state[s] \in States
    BY DEF DomainsOK
  <2>3. sub'[s] = IF s = r THEN "accepted" ELSE sub[s]
    BY DEF DomainsOK
  <2>4. CASE exec'[s] = exec[s]
    <3>1. (exec'[s] = "none" /\ sub'[s] = "accepted") =>
             s \in (queue \cup leaving)' \/ state'[s] \in {"none"} \cup Terminal
      <4>1. CASE s \in queue \cup {r}
        <5>1. s \in queue' \/ exec'[s] = "handed" \/ state[s] # "queued"
          BY <4>1
        <5>2. exec[s] = "none" => state[s] # "running"
          BY <2>1 DEF FateOf
        <5> QED BY <2>2, <2>4, <5>1, <5>2 DEF States
      <4>2. CASE s \notin queue \cup {r}
        BY <1>1, <2>1, <2>2, <2>3, <2>4, <4>2 DEF FateOf
      <4> QED BY <4>1, <4>2
    <3> QED BY <2>1, <2>2, <2>3, <2>4, <3>1 DEF FateOf
  <2>5. CASE s \in queue \cup {r} /\ exec'[s] = "handed"
    BY <2>1, <2>5 DEF FateOf
  <2> QED BY <2>4, <2>5
<1> QED BY <1>2, <1>3 DEF Fates

LEMMA ReleaseEnds == ASSUME IInv, EndsInv, NEW r \in Run, Release(r) PROVE EndsInv'
<1> USE DEF IInv, EndsInv
<1>1. PICK e \in [Run -> Execs] :
         /\ exec[r] = "release" /\ sub' = sub /\ outcome' = outcome
         /\ e[r] = "notify" /\ \A s \in Run : s # r => e[s] = exec[s]
         /\ queue' \subseteq queue /\ state' = state /\ exec' \in [Run -> Execs]
         /\ \A s \in queue : e[s] = "none"
         /\ \A s \in Run : \/ exec'[s] = e[s]
                           \/ s \in queue /\ state[s] = "queued" /\ exec'[s] = "handed"
         /\ \A s \in queue \ queue' : exec'[s] = "handed" \/ state[s] # "queued"
  BY ReleaseDispatches
<1>2. UNCHANGED <<closing, leaving>>
  BY DEF Release, closeVars
<1>3. CloseInv'
  <2>1. closing # "closed"
    BY <1>1 DEF CloseInv, With, Busy
  <2> QED BY <1>1, <1>2, <2>1 DEF CloseInv, closed
<1>4. ASSUME NEW s \in Run PROVE FateOf(s)'
  <2>1. FateOf(s) /\ FateOf(r) /\ state[s] \in States /\ exec'[s] \in Execs
    BY <1>1 DEF Fates, DomainsOK
  <2>2. CASE s = r
    <3>1. exec'[s] = "notify" /\ state[s] \in Terminal
      BY <1>1, <2>1, <2>2 DEF FateOf
    <3>2. sub[s] = "accepted"
      BY <1>1, <2>2 DEF QueuedIsFresh
    <3> QED BY <1>1, <3>1, <3>2 DEF FateOf
  <2>3. CASE s # r /\ exec'[s] = exec[s]
    <3>1. (exec[s] = "none" /\ s \in queue \cup leaving) =>
             s \in (queue \cup leaving)' \/ state'[s] \in {"none"} \cup Terminal
      BY <1>1, <1>2, <2>1, <2>3 DEF FateOf, States
    <3> QED BY <1>1, <2>1, <2>3, <3>1, FateStays
  <2>4. CASE s # r /\ s \in queue /\ exec'[s] = "handed"
    <3>1. sub[s] = "accepted"
      BY <2>4 DEF QueuedIsFresh
    <3> QED BY <1>1, <2>4, <3>1 DEF FateOf
  <2> QED BY <1>1, <2>2, <2>3, <2>4
<1> QED BY <1>3, <1>4 DEF Fates

LEMMA ExecuteEnds ==
  ASSUME IInv, EndsInv, NEW r \in Run,
         Begin(r) \/ (\E o \in Terminal : AgentReturns(r, o)) \/ AgentPanics(r)
           \/ StoreOutcome(r) \/ Notify(r)
  PROVE  EndsInv'
<1> USE DEF IInv, EndsInv
<1>1. UNCHANGED <<queue, leaving, closing, sub>>
  BY DEF Begin, AgentReturns, AgentPanics, StoreOutcome, Notify, schedVars, closeVars
<1>2. /\ exec[r] \in {"handed"} \cup {"agent", "finish", "release", "notify"}
      /\ \A s \in Run : s # r => exec'[s] = exec[s] /\ state'[s] = state[s] /\ outcome'[s] = outcome[s]
  BY DEF Begin, AgentReturns, AgentPanics, StoreOutcome, Notify, Executed, DomainsOK
<1>3. CloseInv'
  <2>1. closing # "closed"
    BY <1>2 DEF CloseInv, With, Busy
  <2> QED BY <1>1, <2>1 DEF CloseInv, closed
<1>4. ASSUME NEW s \in Run, s # r PROVE FateOf(s)'
  BY <1>1, <1>2, <1>4, FateStays DEF Fates
<1>5. FateOf(r)'
  <2>1. FateOf(r) /\ sub[r] = "accepted"
    BY <1>2 DEF Fates, QueuedIsFresh
  <2>2. \/ exec'[r] \in {"agent", "dead"}
        \/ exec'[r] = "finish" /\ outcome'[r] \in Terminal
        \/ exec'[r] = "release" /\ state'[r] = outcome[r] /\ exec[r] = "finish"
        \/ exec'[r] = "over" /\ state'[r] = state[r] /\ exec[r] = "notify"
    BY DEF Begin, AgentReturns, AgentPanics, StoreOutcome, Notify, Executed, DomainsOK
  <2> QED BY <1>1, <2>1, <2>2 DEF FateOf
<1> QED BY <1>3, <1>4, <1>5 DEF Fates

LEMMA CallsEnds ==
  ASSUME IInv, EndsInv,
         \/ \E c \in Canceller : CancelStep(c) \/ \E r \in Run : CancelRead(c, r)
         \/ \E w \in Waiter : WaitRegister(w) \/ \E r \in Run : WaitRead(w, r)
  PROVE  EndsInv'
<1> USE DEF IInv, EndsInv
<1>1. UNCHANGED <<queue, leaving, closing, exec, outcome, sub>>
  BY DEF CancelStep, CancelRead, CancelWrite, CancelNotify, CancelSignal, WaitRead, WaitRegister,
         schedVars, closeVars
<1>2. \/ state' = state
      \/ \E r : state' = [state EXCEPT ![r] = "cancelled"]
  BY DEF CancelStep, CancelRead, CancelWrite, CancelNotify, CancelSignal, WaitRead, WaitRegister
<1>3. CloseInv'
  BY <1>1 DEF CloseInv, closed, With, Busy
<1>4. \A s \in Run : state'[s] = state[s] \/ state'[s] \in Terminal
  BY <1>2 DEF DomainsOK, Terminal
<1> QED BY <1>1, <1>3, <1>4, FateStays DEF Fates

LEMMA CloseEnds ==
  ASSUME IInv, EndsInv, CloseQueue \/ CloseStep \/ CloseDeadline
  PROVE  EndsInv'
<1> USE DEF IInv, EndsInv
<1>1. UNCHANGED <<exec, outcome, sub>>
  BY DEF CloseQueue, CloseStep, CloseItem, CloseSignal, CloseDrained, CloseDeadline, schedVars
<1>2. CASE CloseQueue
  <2>1. CloseInv'
    BY <1>2 DEF CloseQueue, CloseInv, closed
  <2>2. state' = state /\ (queue \cup leaving)' = queue \cup leaving
    BY <1>2 DEF CloseQueue, CloseInv
  <2> QED BY <1>1, <2>1, <2>2, FateStays DEF Fates
<1>3. ASSUME NEW r \in Run, CloseItem(r) PROVE EndsInv'
  <2>1. /\ closing = "items" /\ UNCHANGED <<queue, closing>> /\ leaving' = leaving \ {r}
        /\ \/ state[r] = "queued" /\ state' = [state EXCEPT ![r] = "cancelled"]
           \/ state[r] # "queued" /\ state' = state
    BY <1>3 DEF CloseItem, CancelRun, schedVars
  <2>2. CloseInv'
    BY <2>1 DEF CloseInv, closed
  <2>3. ASSUME NEW s \in Run PROVE FateOf(s)'
    <3>1. FateOf(s) /\ state[s] \in States /\ (state'[s] = state[s] \/ state'[s] \in Terminal)
      BY <2>1 DEF Fates, DomainsOK, Terminal
    <3>2. (exec[s] = "none" /\ s \in queue \cup leaving) =>
             s \in (queue \cup leaving)' \/ state'[s] \in {"none"} \cup Terminal
      <4>1. CASE s = r
        BY <2>1, <3>1, <4>1 DEF FateOf, States, DomainsOK, Terminal
      <4>2. CASE s # r
        BY <2>1, <4>2
      <4> QED BY <4>1, <4>2
    <3> QED BY <1>1, <3>1, <3>2, FateStays
  <2> QED BY <2>2, <2>3 DEF Fates
<1>4. CASE CloseSignal \/ CloseDrained \/ CloseDeadline
  <2>1. UNCHANGED <<queue, leaving, state>> /\ leaving = {} /\ closed
    BY <1>4 DEF CloseSignal, CloseDrained, CloseDeadline, schedVars, CloseInv, closed
  <2>2. closing' = "closed" => With(exec, {"handed"}) \cup Busy = {}
    BY <1>4 DEF CloseSignal, CloseDrained, CloseDeadline
  <2>3. CloseInv'
    BY <1>1, <2>1, <2>2 DEF CloseInv, With, Busy
  <2> QED BY <1>1, <2>1, <2>3, FateStays DEF Fates
<1> QED BY <1>2, <1>3, <1>4 DEF CloseStep

LEMMA StepEnds == IInv /\ EndsInv /\ [Next]_vars => EndsInv'
<1> SUFFICES ASSUME IInv, EndsInv, [Next]_vars PROVE EndsInv'
  OBVIOUS
<1>1. ASSUME NEW r \in Run, SubmitStep(r) \/ ExecuteStep(r) \/ AgentPanics(r) PROVE EndsInv'
  BY <1>1, SubmitEnds, PushEnds, ExecuteEnds, ReleaseEnds DEF SubmitStep, ExecuteStep
<1>2. CASE \/ \E c \in Canceller : CancelStep(c) \/ \E r \in Run : CancelRead(c, r)
           \/ \E w \in Waiter : WaitRegister(w) \/ \E r \in Run : WaitRead(w, r)
  BY <1>2, CallsEnds
<1>3. CASE CloseQueue \/ CloseStep \/ CloseDeadline
  BY <1>3, CloseEnds
<1>4. CASE UNCHANGED vars \/ CloseAgain
  BY <1>4, FateStays DEF CloseAgain, vars, EndsInv, Fates, CloseInv, closed, With, Busy
<1> QED BY <1>1, <1>2, <1>3, <1>4 DEF Next

\* A Close that returned nil left no run without its end: what was queued it
\* cancelled, what was handed over ran to the end, and a Submit that came too late
\* stored its run as cancelled.  Only the run of a panicked agent stays as it was.  A
\* later Close, which returns at once, leaves nothing to be dispatched.
THEOREM CloseEndsRuns == Spec => []ClosedMeansEnded
<1>1. Init => EndsInv
  <2> SUFFICES ASSUME Init PROVE EndsInv
    OBVIOUS
  <2>1. CloseInv
    BY DEF Init, CloseInv, closed
  <2>2. \A r \in Run : FateOf(r)
    BY DEF Init, FateOf
  <2> QED BY <2>1, <2>2 DEF EndsInv, Fates
<1>2. IInv /\ EndsInv => ClosedMeansEnded
  <2> SUFFICES ASSUME IInv, EndsInv, NEW r \in Run, Answered(r), ~Ended(r)
               PROVE  /\ closing # "closed"
                      /\ closed => r \in leaving \/ r \in With(exec, {"handed"}) \cup Busy
    BY DEF ClosedMeansEnded
  <2>1. FateOf(r) /\ exec[r] \in Execs
    BY DEF EndsInv, Fates, IInv, DomainsOK
  <2>2. CASE exec[r] \in {"handed", "agent", "finish", "release", "notify"}
    <3>1. r \in With(exec, {"handed"}) \cup Busy
      BY <2>2 DEF With, Busy
    <3> QED BY <3>1 DEF EndsInv, CloseInv
  <2>3. CASE exec[r] \in {"none", "over"}
    <3>1. r \in queue \cup leaving
      BY <2>1, <2>3 DEF FateOf, Answered, Ended
    <3> QED BY <3>1 DEF EndsInv, CloseInv, closed
  <2> QED BY <2>1, <2>2, <2>3 DEF Execs, Ended
<1> QED BY <1>1, <1>2, StepEnds, Invariance, PTL DEF Spec
=============================================================================

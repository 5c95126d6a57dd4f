------------------------------ MODULE Shutdown ------------------------------
(***************************************************************************)
(* The two coordinators that close a process's components within a budget  *)
(* of time (internal/lifecycle).  Manager (manager.go) takes components    *)
(* from Register, runs the workload, and closes them last first with one   *)
(* deadline for all; whoever registers after that closes at once, under    *)
(* the mutex.  EnhancedShutdown (enhanced_shutdown.go) runs its phases in  *)
(* order, each in a goroutine with a budget of its own, and leaves one     *)
(* that overruns running.  Which coordinator a behaviour has is chosen by  *)
(* its first state.                                                        *)
(*                                                                         *)
(* Time is counted in units: a context lets a component run for left units *)
(* more.  The coordinator's own steps take none.                           *)
(***************************************************************************)
EXTENDS ClosingPromises, Naturals, Sequences, FiniteSets

CONSTANTS
  Component,     \* what Register is called with, or the phases
  Stubborn,      \* the phases that may ignore their context (a Closer must not, manager.go:22)
  Caller, Role,  \* calls: "run", "shutdown", "execute"
  Coordinators,  \* to consider, of "manager" and "phases"
  Phases,        \* the phases in order, and the time each asks for
  Duration

ASSUME ShutdownAssumption ==
  /\ Stubborn \subseteq Component
  /\ Role \in [Caller -> {"run", "shutdown", "execute"}]
  /\ Coordinators \subseteq {"manager", "phases"}
  /\ Phases \in Seq(Component) /\ Duration \in [Component -> Nat \ {0}]
  /\ Timeout \in Nat \ {0} /\ "none" \notin Component

VARIABLES
  shutdown,   \* the manager's flag
  mutex,      \* the component in whose Register the mutex is held, or "none"
  entries,    \* the components registered, in that order
  register,   \* where the Register of each component is
  left,       \* the time its context leaves it
  caller,     \* where each caller is
  todo,       \* what the drain still has to close
  work,       \* the workload: "none", "running", "cancelled", "returned"; or
              \* "cancelled" when the context of Execute is
  grace       \* the time Run still gives a cancelled workload

vars == <<coordinator, shutdown, mutex, entries, register, comp, left, begun, drained, caller,
          todo, spent, work, grace>>

Init ==
  /\ coordinator \in Coordinators
  /\ shutdown = FALSE /\ mutex = "none" /\ entries = <<>>
  /\ register = [c \in Component |-> "new"]
  /\ comp = [c \in Component |-> "new"] /\ left = [c \in Component |-> 0]
  /\ begun = <<>> /\ drained = <<>>
  /\ caller = [k \in Caller |-> "new"]
  /\ todo = <<>> /\ spent = 0
  /\ work = "none" /\ grace = 0

Is(k, role) == Role[k] = role /\ coordinator = (IF role = "execute" THEN "phases" ELSE "manager")
Goes(k, to) == caller' = [caller EXCEPT ![k] = to]
Last(s) == s[Len(s)]
Front(s) == SubSeq(s, 1, Len(s) - 1)

\* A component's Close, or a phase, is called with a context of so many units.
Calls(c, time) ==
  /\ comp' = [comp EXCEPT ![c] = "running"]
  /\ left' = [left EXCEPT ![c] = time]

-----------------------------------------------------------------------------
(* Register *)

\* Slip: the flag is not looked at under the mutex.
OpenAtFirst == TRUE

\* The manager still takes components.
Open == ~shutdown

RegisterOpen(c) ==
  /\ coordinator = "manager" /\ register[c] = "new" /\ mutex = "none" /\ Open
  /\ entries' = Append(entries, c)
  /\ register' = [register EXCEPT ![c] = "done"]
  /\ UNCHANGED <<coordinator, shutdown, mutex, comp, left, begun, drained, caller, todo, spent,
                 work, grace>>

\* After the shutdown: closed at once, and the mutex is held until it has.
RegisterLate(c) ==
  /\ coordinator = "manager" /\ register[c] = "new" /\ mutex = "none" /\ ~Open
  /\ mutex' = c /\ Calls(c, Timeout)
  /\ register' = [register EXCEPT ![c] = "closing"]
  /\ UNCHANGED <<coordinator, shutdown, entries, begun, drained, caller, todo, spent, work, grace>>

RegisterReturns(c) ==
  /\ register[c] = "closing" /\ comp[c] = "closed"
  /\ mutex' = "none"
  /\ register' = [register EXCEPT ![c] = "done"]
  /\ UNCHANGED <<coordinator, shutdown, entries, comp, left, begun, drained, caller, todo, spent,
                 work, grace>>

-----------------------------------------------------------------------------
(* Run *)

RunBegins(k) ==
  /\ Is(k, "run") /\ caller[k] = "new" /\ mutex = "none"
  /\ IF shutdown
       THEN Goes(k, "done") /\ UNCHANGED work
       ELSE Goes(k, "working") /\ work' = "running"
  /\ UNCHANGED <<coordinator, shutdown, mutex, entries, register, comp, left, begun, drained, todo,
                 spent, grace>>

\* The signal: the workload's context is cancelled, and Run waits no longer than the budget.
ParentCancelled ==
  /\ work = "running"
  /\ work' = "cancelled" /\ grace' = Timeout
  /\ UNCHANGED <<coordinator, shutdown, mutex, entries, register, comp, left, begun, drained,
                 caller, todo, spent>>

WorkReturns ==
  /\ coordinator = "manager" /\ work \in {"running", "cancelled"}
  /\ work' = "returned"
  /\ UNCHANGED <<coordinator, shutdown, mutex, entries, register, comp, left, begun, drained,
                 caller, todo, spent, grace>>

RunShutsDown(k) ==
  /\ caller[k] = "working"
  /\ \/ work = "returned"
     \/ work = "cancelled" /\ grace = 0
  /\ Goes(k, "shutting")
  /\ UNCHANGED <<coordinator, shutdown, mutex, entries, register, comp, left, begun, drained, todo,
                 spent, work, grace>>

-----------------------------------------------------------------------------
(* shutdownNow *)

\* The first to find the flag down takes the components; the others return.
ShutdownNow(k) ==
  /\ mutex = "none"
  /\ \/ caller[k] = "shutting"
     \/ Is(k, "shutdown") /\ caller[k] = "new"
  /\ IF shutdown
       THEN Goes(k, "done") /\ UNCHANGED <<todo, drained, entries>>
       ELSE Goes(k, "draining") /\ todo' = entries /\ drained' = entries /\ entries' = <<>>
  /\ shutdown' = TRUE
  /\ UNCHANGED <<coordinator, mutex, register, comp, left, begun, spent, work, grace>>

\* Slip: the deadline is each component's own.
TimeLeftEach == Timeout

\* What is left until the deadline, the same for all.
TimeLeft == IF spent < Timeout THEN Timeout - spent ELSE 0

Skip(k) ==
  /\ caller[k] = "draining" /\ todo # <<>> /\ TimeLeft = 0
  /\ comp' = [comp EXCEPT ![IF coordinator = "manager" THEN Last(todo) ELSE Head(todo)] = "skipped"]
  /\ todo' = IF coordinator = "manager" THEN Front(todo) ELSE Tail(todo)
  /\ UNCHANGED <<coordinator, shutdown, mutex, entries, register, left, begun, drained, caller,
                 spent, work, grace>>

\* Slip: in the order of their registration.
NextToCloseFirst == 1

\* Where in todo the next is: the last registered.
NextToClose == Len(todo)

CloseNext(k) ==
  /\ coordinator = "manager" /\ caller[k] = "draining" /\ todo # <<>> /\ TimeLeft > 0
  /\ Calls(todo[NextToClose], TimeLeft)
  /\ begun' = Append(begun, todo[NextToClose])
  /\ todo' = SubSeq(todo, 1, NextToClose - 1) \o SubSeq(todo, NextToClose + 1, Len(todo))
  /\ Goes(k, "closing")
  /\ UNCHANGED <<coordinator, shutdown, mutex, entries, register, drained, spent, work, grace>>

\* Close has returned, with an error or without.
CloseReturns(k) ==
  /\ coordinator = "manager" /\ caller[k] = "closing" /\ comp[Last(begun)] = "closed"
  /\ Goes(k, "draining")
  /\ UNCHANGED <<coordinator, shutdown, mutex, entries, register, comp, left, begun, drained, todo,
                 spent, work, grace>>

Drained(k) ==
  /\ caller[k] = "draining" /\ todo = <<>>
  /\ Goes(k, "done")
  /\ UNCHANGED <<coordinator, shutdown, mutex, entries, register, comp, left, begun, drained, todo,
                 spent, work, grace>>

-----------------------------------------------------------------------------
(* EnhancedShutdown.Execute *)

Execute(k) ==
  /\ Is(k, "execute") /\ caller[k] = "new"
  /\ todo' = Phases /\ drained' = Phases
  /\ Goes(k, "draining")
  /\ UNCHANGED <<coordinator, shutdown, mutex, entries, register, comp, left, begun, spent, work,
                 grace>>

RunPhase(k) ==
  /\ coordinator = "phases" /\ caller[k] = "draining" /\ todo # <<>> /\ TimeLeft > 0
  /\ LET c == Head(todo)
     IN Calls(c, IF work = "cancelled" THEN 0
                 ELSE IF Duration[c] > TimeLeft THEN TimeLeft ELSE Duration[c])
  /\ begun' = Append(begun, Head(todo)) /\ todo' = Tail(todo)
  /\ Goes(k, "closing")
  /\ UNCHANGED <<coordinator, shutdown, mutex, entries, register, drained, spent, work, grace>>

\* The context given to Execute ends, and with it that of every phase.
ExecuteCancelled ==
  /\ coordinator = "phases" /\ work = "none"
  /\ work' = "cancelled" /\ left' = [c \in Component |-> 0]
  /\ UNCHANGED <<coordinator, shutdown, mutex, entries, register, comp, begun, drained, caller, todo,
                 spent, grace>>

\* The select of runPhase: the phase is done, or its time is up and it is left running.
PhaseOver(k) ==
  /\ coordinator = "phases" /\ caller[k] = "closing"
  /\ comp[Last(begun)] = "closed" \/ left[Last(begun)] = 0
  /\ Goes(k, "draining")
  /\ UNCHANGED <<coordinator, shutdown, mutex, entries, register, comp, left, begun, drained, todo,
                 spent, work, grace>>

-----------------------------------------------------------------------------
(* The components, and time *)

CompReturns(c) ==
  /\ comp[c] = "running"
  /\ comp' = [comp EXCEPT ![c] = "closed"]
  /\ UNCHANGED <<coordinator, shutdown, mutex, entries, register, left, begun, drained, caller, todo,
                 spent, work, grace>>

MayOverrun(c) == coordinator = "phases" /\ c \in Stubborn
Draining == \E k \in Caller : caller[k] \in {"draining", "closing"}
Less(n) == IF n > 0 THEN n - 1 ELSE 0

\* Somebody waits for time to pass, and nobody has something to do before it does:
\* who honours a context returns when it ends.
Tick ==
  /\ \/ \E c \in Component : comp[c] = "running" /\ left[c] > 0
     \/ work = "cancelled" /\ grace > 0
  /\ \A c \in Component : comp[c] = "running" => left[c] > 0 \/ MayOverrun(c)
  /\ \A k \in Caller :
       /\ caller[k] # "draining"
       /\ caller[k] = "closing" => comp[Last(begun)] = "running"
       /\ caller[k] = "closing" /\ coordinator = "phases" => left[Last(begun)] > 0
  /\ left' = [c \in Component |-> Less(left[c])]
  /\ grace' = Less(grace)
  /\ spent' = IF Draining THEN spent + 1 ELSE spent
  /\ UNCHANGED <<coordinator, shutdown, mutex, entries, register, comp, begun, drained, caller, todo,
                 work>>

-----------------------------------------------------------------------------
Proceeds(k) ==
  \/ RunShutsDown(k) \/ ShutdownNow(k) \/ Skip(k) \/ CloseNext(k) \/ CloseReturns(k) \/ Drained(k)
  \/ Execute(k) \/ RunPhase(k) \/ PhaseOver(k)

Registers(c) == RegisterOpen(c) \/ RegisterLate(c) \/ RegisterReturns(c)

Next ==
  \/ \E k \in Caller : RunBegins(k) \/ Proceeds(k)
  \/ \E c \in Component : Registers(c) \/ CompReturns(c)
  \/ ParentCancelled \/ WorkReturns \/ ExecuteCancelled \/ Tick

Spec == Init /\ [][Next]_vars

\* What was called runs on; time passes; a component that honours its context returns.
FairSpec ==
  /\ Spec /\ WF_vars(Tick)
  /\ \A k \in Caller : SF_vars(Proceeds(k))
  /\ \A c \in Component : SF_vars(Registers(c))
  /\ \A c \in Component : WF_vars(~MayOverrun(c) /\ CompReturns(c))

-----------------------------------------------------------------------------
(* Properties *)

TypeOK ==
  /\ coordinator \in Coordinators /\ shutdown \in BOOLEAN
  /\ mutex \in Component \cup {"none"}
  /\ entries \in Seq(Component) /\ todo \in Seq(Component)
  /\ begun \in Seq(Component) /\ drained \in Seq(Component)
  /\ register \in [Component -> {"new", "closing", "done"}]
  /\ comp \in [Component -> {"new", "running", "closed", "skipped"}]
  /\ left \in [Component -> Nat] /\ spent \in Nat /\ grace \in 0 .. Timeout
  /\ caller \in [Caller -> {"new", "working", "shutting", "draining", "closing", "done"}]
  /\ work \in {"none", "running", "cancelled", "returned"}

IsIn(s, c) == \E i \in DOMAIN s : s[i] = c

\* Once somebody shuts the manager down, a component that is registered, before
\* it or while it drains or later, is closed in the end, or skipped when the
\* time was spent; and so is every phase (one that overran may run on beside the next).
EveryComponentCloses ==
  []<>(\A c \in Component :
         \/ shutdown /\ register[c] = "done"
         \/ coordinator = "phases" /\ IsIn(drained, c)
         => \/ comp[c] = "closed"
            \/ comp[c] = "skipped" /\ spent >= Timeout
            \/ comp[c] = "running" /\ MayOverrun(c))

\* Refuted: "drains all Closers" (manager.go:99) of a second Shutdown, which returns at once.
ReturnedMeansDrained ==
  \A k \in Caller : caller[k] = "done" => \A c \in Component : comp[c] # "running"
=============================================================================

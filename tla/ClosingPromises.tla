-------------------------- MODULE ClosingPromises --------------------------
(***************************************************************************)
(* What both coordinators of Shutdown promise of the components they       *)
(* close: the order, once each, and the time it takes.                     *)
(***************************************************************************)
EXTENDS Naturals

CONSTANT Timeout  \* the budget

VARIABLES
  coordinator,  \* "manager" or "phases"
  comp,         \* what became of each component: "new", "running", "closed", "skipped"
  begun,        \* the components drained, in the order their Close was called
  drained,      \* the components the drain took, in the order of their registration
  spent         \* the time since the drain began

\* Whoever calls Shutdown, Run and Register at the same time, no component is
\* closed twice, and while one is closing those registered after it have been
\* closed, or skipped: what depends on it is gone (manager.go:16-18).
ClosedInReverse ==
  /\ \A i, j \in DOMAIN begun : i # j => begun[i] # begun[j]
  /\ coordinator = "manager" =>
       \A i, j \in DOMAIN drained :
         i < j /\ comp[drained[i]] # "new" => comp[drained[j]] \in {"closed", "skipped"}

\* The drain takes no longer than the budget, however many components there are
\* (if they honour their contexts), and the phases no longer whatever they do.
BudgetHolds == spent <= Timeout
=============================================================================

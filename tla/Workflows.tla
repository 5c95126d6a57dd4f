------------------------------ MODULE Workflows ------------------------------
(***************************************************************************)
(* The workflows that share the worker's task queue and nothing else, in   *)
(* one state space: a behaviour is of one membership or of the sagas.      *)
(***************************************************************************)
EXTENDS Membership, FiniteSets

CONSTANTS Exec, Flow, About, Scenarios, Large, Gateway, MaxRetries, MaxSagaTrouble

VARIABLES
  workflow,  \* "membership" or "saga"
  step, tries, verdict, did, keys, unpaid, lost, gaveUp, crashed, problems

sagaVars == <<step, tries, verdict, did, keys, unpaid, lost, gaveUp, crashed, problems>>

Saga == INSTANCE Sagas
          WITH at <- step, attempt <- tries, trouble <- problems, MaxTrouble <- MaxSagaTrouble

ASSUME WorkflowsAssumption ==
  /\ Flow \in [Exec -> Saga!Flows] /\ About \in [Exec -> Nat]
  /\ \A x \in Exec : Flow[x] = "payment" => Gateway[x] \in {"stripe", "paypal", "alipay"}
  /\ Scenarios \subseteq SUBSET Exec
  /\ MaxRetries \in Nat \ {0} /\ MaxSagaTrouble \in Nat

\* The membership's initial state is of no account in a behaviour of the sagas.
WorkflowsInit ==
  /\ Init /\ Saga!Init
  /\ workflow = IF \A x \in Exec : step[x] = "done" THEN "membership" ELSE "saga"
  /\ workflow = "saga" => trial = (CHOOSE t \in Trial : TRUE)

MembershipSteps == workflow = "membership" /\ Next /\ UNCHANGED <<workflow, sagaVars>>
SagaSteps == workflow = "saga" /\ Saga!Next /\ UNCHANGED <<workflow, vars>>

WorkflowsSpec ==
  /\ WorkflowsInit
  /\ [][MembershipSteps \/ SagaSteps]_<<workflow, vars, sagaVars>>
  /\ WF_vars(workflow = "membership" /\ Proceeds /\ UNCHANGED <<workflow, sagaVars>>)

\* Of the executions of the sagas, whichever share a subject: what one may do
\* once is done once.
OncePerSubject == Saga!OncePerSubject

\* A saga that reports a rollback has undone what it did.
RolledBackIsUndone == Saga!RolledBackIsUndone

\* What a saga reports is what happened outside.
ClaimsAreTrue == Saga!ClaimsAreTrue
=============================================================================

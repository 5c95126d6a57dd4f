-------------------------------- MODULE Sagas --------------------------------
(***************************************************************************)
(* The workflows that move money, stock and orders by a fixed list of      *)
(* steps and undo what they did when a later one fails: PaymentSaga-,      *)
(* ReturnsSaga-, OrderAggregator- and VendorOnboardingWorkflow of          *)
(* internal/workflow, each step an activity that Temporal attempts again,  *)
(* and the two directions of TikTokInventorySync (internal/sync), plain    *)
(* calls under a key kept in memory.                                       *)
(*                                                                         *)
(* An attempt may fail before its effect, or after it when its reply is    *)
(* lost.  A table per workflow says where a step leads when it is          *)
(* answered, answered no, or given up, and what the run reports then.      *)
(* A gateway may also answer a charge that it was not paid: an answer like *)
(* any other to the workflow, and a charge of nobody.                      *)
(***************************************************************************)
EXTENDS Naturals

CONSTANTS
  Exec,        \* executions, and what each is of and about
  Flow, About,
  Scenarios,   \* the sets of executions to consider together
  Large,       \* the returns whose refund is not below the threshold
  Gateway,     \* the gateway of a payment; Alipay's stands for WeChat Pay's too
  MaxAttempts, \* of an activity
  MaxRetries,  \* of a charge
  MaxTrouble   \* bound on failures, lost replies and crashes

Flows == {"payment", "returns", "orders", "vendor", "stock", "sale"}

VARIABLES
  at,       \* the step an execution is at, or "done"
  attempt,  \* its attempts that failed
  verdict,  \* what the execution reports
  did,      \* how often each of its steps took effect
  keys,     \* the dedup store and the idempotency keys
  unpaid,   \* the payments that were answered as not paid
  lost,     \* the steps that took effect and were seen to fail
  gaveUp,   \* the steps whose attempts ran out
  crashed,  \* the process with the idempotency keys has died
  trouble

vars == <<at, attempt, verdict, did, keys, unpaid, lost, gaveUp, crashed, trouble>>

-----------------------------------------------------------------------------
(* The workflows *)

PaymentSaga ==
  [ok |-> [select |-> "charge", charge |-> "markPaid", markPaid |-> "publishPaid",
           publishPaid |-> "done", markFailed |-> "alert", alert |-> "publishFailed",
           publishFailed |-> "done"],
   no |-> [charge |-> "publishFailed"], unpaid |-> [charge |-> "markPaid"],
   error |-> [select |-> "markFailed", charge |-> "markFailed", markPaid |-> "publishPaid",
              publishPaid |-> "done", markFailed |-> "alert", alert |-> "publishFailed",
              publishFailed |-> "done"]]

PaymentSays ==
  [ok |-> [charge |-> "completed"], no |-> [charge |-> "pending"],
   unpaid |-> [charge |-> "completed"],
   error |-> [select |-> "failed", charge |-> "failed"]]

\* Slip: the stock that was put back stays.
RollbackForgets(labelGenerated, inventoryAdjusted) ==
  IF labelGenerated THEN "cancelLabel" ELSE "alert"

\* Where the compensations begin.
Rollback(labelGenerated, inventoryAdjusted) ==
  IF inventoryAdjusted THEN "reverse" ELSE IF labelGenerated THEN "cancelLabel" ELSE "alert"

\* Slip: like the errors of the notifications, this one is dropped.
RefundFailsUnseen == "inventory"

RefundFails == Rollback(TRUE, FALSE)

ReturnsSaga ==
  [ok |-> [eligibility |-> "approval", approval |-> "label", label |-> "notify",
           notify |-> "refund", refund |-> "inventory", inventory |-> "channel",
           channel |-> "publish", reverse |-> "cancelLabel", cancelLabel |-> "alert",
           alert |-> "publish", publish |-> "done"],
   no |-> [approval |-> "publish"],
   error |-> [eligibility |-> "publish", approval |-> "publish", label |-> Rollback(FALSE, FALSE),
              notify |-> Rollback(TRUE, FALSE), refund |-> RefundFails,
              inventory |-> Rollback(TRUE, FALSE), channel |-> Rollback(TRUE, TRUE),
              reverse |-> "cancelLabel", cancelLabel |-> "alert", alert |-> "publish",
              publish |-> "done"]]

ReturnsSays ==
  [ok |-> [channel |-> "completed"], no |-> [approval |-> "pending_approval"],
   error |-> [a \in {"eligibility", "approval", "label", "notify", "refund", "inventory", "channel"} |->
                IF a = "approval" THEN "pending_approval" ELSE "rolled_back"]]

OrderAggregator ==
  [ok |-> [normalise |-> "dedup", dedup |-> "publish", publish |-> "done"],
   no |-> [dedup |-> "done"],
   error |-> [normalise |-> "done", dedup |-> "done", publish |-> "done"]]

OrderSays ==
  [ok |-> [publish |-> "normalised"], no |-> [dedup |-> "duplicate"],
   error |-> [a \in {"normalise", "dedup", "publish"} |-> "failure"]]

VendorOnboarding ==
  [ok |-> [verify |-> "gate", gate |-> "create", create |-> "notify", notify |-> "done",
           rollback |-> "done"],
   no |-> [verify |-> "notify"],
   error |-> [verify |-> "done", gate |-> "done", create |-> "rollback", notify |-> "done",
              rollback |-> "done"]]

VendorSays ==
  [ok |-> [create |-> "approved"], no |-> [verify |-> "rejected"],
   error |-> [a \in {"verify", "gate", "create"} |-> "error"]]

\* ApplyWCFulfilment; ApplyTikTokOrder leaves the source alone.
InventorySync(source, unsource) ==
  [ok |-> [reserve |-> source, source |-> "target", target |-> "done", unsource |-> "release",
           release |-> "done"],
   no |-> [reserve |-> "done"],
   error |-> [source |-> "release", target |-> unsource, unsource |-> "release"]]

InventorySays ==
  [ok |-> [target |-> "ok"], no |-> [reserve |-> "duplicate"],
   error |-> [source |-> "source_failed", target |-> "rolled_back", unsource |-> "rollback_failed"]]

Table ==
  [payment |-> PaymentSaga, returns |-> ReturnsSaga, orders |-> OrderAggregator,
   vendor |-> VendorOnboarding, stock |-> InventorySync("source", "unsource"),
   sale |-> InventorySync("target", "release")]

Says ==
  [payment |-> PaymentSays, returns |-> ReturnsSays, orders |-> OrderSays, vendor |-> VendorSays,
   stock |-> InventorySays, sale |-> InventorySays]

First ==
  [payment |-> "select", returns |-> "eligibility", orders |-> "normalise", vendor |-> "verify",
   stock |-> "reserve", sale |-> "reserve"]

Steps(f) == DOMAIN Table[f].ok
InMemory == {"stock", "sale"}

Init ==
  /\ \E active \in Scenarios :
       at = [x \in Exec |-> IF x \in active THEN First[Flow[x]] ELSE "done"]
  /\ attempt = [x \in Exec |-> 0] /\ verdict = [x \in Exec |-> "none"]
  /\ did = [x \in Exec |-> [a \in Steps(Flow[x]) |-> 0]]
  /\ keys = {} /\ unpaid = {} /\ lost = {} /\ gaveUp = {} /\ crashed = FALSE /\ trouble = 0

-----------------------------------------------------------------------------
(* The steps *)

Key(x) == <<Flow[x], About[x]>>
Of(f, s) == {x \in Exec : Flow[x] = f /\ About[x] = s}

\* Slip: no store is wired.
TakenNever(x) == FALSE

\* Reserve answers that the key is taken.
Taken(x) == Key(x) \in keys

\* A gateway that was told the order, by an idempotency key or as the number of
\* the trade, knows the charge when it is asked again.
KnowsTheCharge(x) == at[x] = "charge" /\ Gateway[x] # "paypal" /\ did[x].charge > 0

\* Stripe also answers that the customer has not paid, and answers so again.
StripeAnswers(x) ==
  IF x \in unpaid THEN {"unpaid"}
  ELSE IF KnowsTheCharge(x) THEN {"ok", "no"} ELSE {"ok", "no", "unpaid"}

\* A capture that is declined is an error, a trade is always pending.
PayPalAnswers == {"ok", "no"}
AlipayAnswers == {"no"}

ChargeAnswers(x) ==
  [stripe |-> StripeAnswers(x), paypal |-> PayPalAnswers, alipay |-> AlipayAnswers][Gateway[x]]

\* How a step that is carried out may be answered.
Answers(x) ==
  CASE at[x] = "charge" -> ChargeAnswers(x)
    [] at[x] = "approval" -> IF About[x] \in Large THEN {"no"} ELSE {"ok"}
    [] at[x] \in {"dedup", "reserve"} -> IF Taken(x) THEN {"no"} ELSE {"ok"}
    [] at[x] = "verify" -> IF \E y \in Of("vendor", About[x]) : did[y].create > 0
                             THEN {"no"} ELSE {"ok"}
    [] OTHER -> {"ok"}

\* How often a step is attempted before it is given up.
Limit(x) ==
  CASE at[x] = "charge" -> MaxRetries
    [] Flow[x] \in {"payment"} \cup InMemory -> 1
    [] OTHER -> MaxAttempts

TakesEffect(x, answer) ==
  /\ did' = IF answer = "unpaid" \/ KnowsTheCharge(x) THEN did ELSE [did EXCEPT ![x][at[x]] = @ + 1]
  /\ unpaid' = IF answer = "unpaid" THEN unpaid \cup {x} ELSE unpaid
  /\ keys' = CASE at[x] \in {"dedup", "reserve"} -> keys \cup {Key(x)}
               [] at[x] = "release" -> keys \ {Key(x)}
               [] OTHER -> keys

Leads(x, answer) ==
  LET says == Says[Flow[x]][answer]
  IN /\ at' = [at EXCEPT ![x] = Table[Flow[x]][answer][at[x]]]
     /\ attempt' = [attempt EXCEPT ![x] = 0]
     /\ verdict' = [verdict EXCEPT ![x] = IF at[x] \in DOMAIN says THEN says[at[x]] ELSE @]

Answered(x) ==
  /\ at[x] # "done"
  /\ \E answer \in Answers(x) : TakesEffect(x, answer) /\ Leads(x, answer)
  /\ UNCHANGED <<lost, gaveUp, crashed, trouble>>

\* The attempt is seen to fail: the next one, or the step is given up.
SeenToFail(x) ==
  /\ at[x] \notin {"done", "reserve", "release"}
  /\ trouble < MaxTrouble /\ trouble' = trouble + 1
  /\ IF attempt[x] + 1 < Limit(x)
       THEN /\ attempt' = [attempt EXCEPT ![x] = @ + 1]
            /\ UNCHANGED <<at, verdict, gaveUp>>
       ELSE Leads(x, "error") /\ gaveUp' = gaveUp \cup {<<x, at[x]>>}
  /\ UNCHANGED crashed

AttemptFails(x) == SeenToFail(x) /\ UNCHANGED <<did, keys, unpaid, lost>>

ReplyLost(x) ==
  /\ SeenToFail(x)
  /\ \E answer \in Answers(x) : TakesEffect(x, answer)
  /\ lost' = IF did' = did THEN lost ELSE lost \cup {<<x, at[x]>>}

\* The calls of the inventory sync die with their process, and the keys are gone.
Crash ==
  /\ \E x \in Exec : Flow[x] \in InMemory /\ at[x] # "done"
  /\ trouble < MaxTrouble /\ trouble' = trouble + 1
  /\ crashed' = TRUE
  /\ keys' = {k \in keys : k[1] \notin InMemory}
  /\ at' = [x \in Exec |-> IF Flow[x] \in InMemory THEN "done" ELSE at[x]]
  /\ verdict' = [x \in Exec |-> IF at'[x] # at[x] THEN "none" ELSE verdict[x]]
  /\ UNCHANGED <<attempt, did, unpaid, lost, gaveUp>>

Next == (\E x \in Exec : Answered(x) \/ AttemptFails(x) \/ ReplyLost(x)) \/ Crash

Spec == Init /\ [][Next]_vars

-----------------------------------------------------------------------------
(* Properties *)

TypeOK ==
  /\ \A x \in Exec : at[x] \in Steps(Flow[x]) \cup {"done"} /\ attempt[x] \in 0 .. Limit(x)
  /\ \A x \in Exec : did[x] \in [Steps(Flow[x]) -> Nat]
  /\ keys \subseteq Flows \X {About[x] : x \in Exec}
  /\ trouble \in 0 .. MaxTrouble /\ crashed \in BOOLEAN

DoneBy(X, a) == {x \in X : did[x][a] > 0}
Once(X, a) == \A x, y \in DoneBy(X, a) : x = y /\ did[x][a] = 1
AnyOf(S, X, a) == \E x \in X : <<x, a>> \in S
Closed(X) == \A x \in X : at[x] = "done"
Subject == {About[x] : x \in Exec}

\* However many executions or calls there are for one order or one stock
\* movement, and whatever fails in them, the order is announced once and the
\* target adjusted once, and so the source, but for who put it back; unless
\* a reply was lost there, a compensation was given up or the keys died with
\* their process.  A payment charges once unless the reply of a charge was lost
\* and its gateway was not told the order.
OncePerSubject ==
  /\ \A s \in Subject :
       /\ Once(Of("orders", s), "publish") \/ AnyOf(lost, Of("orders", s), "publish")
       /\ \A f \in InMemory :
            LET X == Of(f, s)
            IN crashed
               \/ /\ Once(X, "target") \/ AnyOf(lost, X, "target")
                  /\ \/ Once(X \ DoneBy(X, "unsource"), "source")
                     \/ AnyOf(lost, X, "source") \/ AnyOf(gaveUp, X, "unsource")
  /\ \A x \in Exec :
       Flow[x] = "payment" /\ did[x].charge > 1 =>
         Gateway[x] = "paypal" /\ <<x, "charge">> \in lost

\* What was rolled back was undone: the return's stock and label, and the
\* source's stock, unless a reply hid an effect or a compensation was given up.
RolledBackIsUndone ==
  \A x \in Exec :
    at[x] = "done" /\ verdict[x] = "rolled_back" =>
      /\ Flow[x] = "returns" =>
           /\ \/ did[x].inventory = did[x].reverse
              \/ {<<x, "inventory">>, <<x, "reverse">>} \cap (lost \cup gaveUp) # {}
           /\ \/ did[x].label = did[x].cancelLabel
              \/ {<<x, "label">>, <<x, "cancelLabel">>} \cap (lost \cup gaveUp) # {}
      /\ Flow[x] = "stock" => did[x].source = did[x].unsource
      /\ Flow[x] \in InMemory => did[x].target = 0 \/ <<x, "target">> \in lost

ReturnIsTrue(x) ==
  /\ verdict[x] = "completed" =>
       \A a \in {"label", "notify", "refund", "inventory", "channel"} : did[x][a] > 0
  /\ did[x].refund > 0 => About[x] \notin Large
  /\ verdict[x] = "pending_approval" => did[x].label = 0

PaymentIsTrue(x) ==
  /\ verdict[x] = "pending" => did[x].charge > 0
  /\ verdict[x] = "completed" \/ did[x].markPaid > 0 => did[x].charge > 0 \/ x \in unpaid
  /\ verdict[x] = "failed" => did[x].charge = 0 \/ <<x, "charge">> \in lost

OrderIsTrue(x) ==
  LET X == Of("orders", About[x])
  IN /\ verdict[x] = "normalised" => did[x].publish > 0
     /\ verdict[x] = "duplicate" /\ Closed(X) =>
          \/ DoneBy(X, "publish") # {}
          \/ AnyOf(gaveUp, X, "publish") \/ AnyOf(lost, X, "dedup")

StockIsTrue(x) ==
  verdict[x] = "ok" => did[x].target > 0 /\ (Flow[x] = "stock" => did[x].source > 0)

\* What an execution reports is what happened outside, whatever was attempted
\* again: a completed return was carried out to its last step, a refund was
\* below the threshold, a failed payment charged nobody unless the reply of a
\* charge was lost, a completed one was charged or its gateway answered that it
\* was not paid, a pending one is with its gateway, and an order called a duplicate
\* was announced, unless that is what failed or the reply of its reservation was lost.
ClaimsAreTrue ==
  \A x \in Exec :
    /\ Flow[x] = "returns" => ReturnIsTrue(x)
    /\ Flow[x] = "payment" => PaymentIsTrue(x)
    /\ Flow[x] = "orders" => OrderIsTrue(x)
    /\ Flow[x] \in InMemory => StockIsTrue(x)
    /\ verdict[x] = "approved" => did[x].create > 0

\* Refuted: a rollback of a return leaves the customer his refund.
RolledBackIsNotRefunded ==
  \A x \in Exec : Flow[x] = "returns" /\ verdict[x] = "rolled_back" => did[x].refund = 0

\* Refuted: an order that was received and did not fail was announced (its
\* reservation stays when the reply was lost).
NoOrderIsDropped ==
  \A x \in Exec :
    Flow[x] = "orders" /\ Closed(Of("orders", About[x]))
      /\ (\A y \in Of("orders", About[x]) : verdict[y] = "duplicate")
      => DoneBy(Of("orders", About[x]), "publish") # {}

\* Refuted: a vendor's name is given once (two runs verify it before either creates).
VendorNameOnce == \A s \in Subject : Once(Of("vendor", s), "create")

\* Refuted: an order that is marked paid was charged (the gateway answers without
\* an error that it was not paid, and the workflow tells only pending apart).
PaidIsCharged == \A x \in Exec : Flow[x] = "payment" /\ did[x].markPaid > 0 => did[x].charge > 0

\* Refuted: a payment that is charged by PayPal is charged once (a lost reply).
PaymentChargesOnce == \A x \in Exec : Flow[x] = "payment" => did[x].charge <= 1

\* Refuted: what is announced as failed was not charged (a pending payment is).
AnnouncedFailedIsFailed ==
  \A x \in Exec :
    Flow[x] = "payment" /\ did[x].publishFailed > 0 => verdict[x] = "failed"
=============================================================================

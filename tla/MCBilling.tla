------------------------------ MODULE MCBilling ------------------------------
(* Small instances of Billing. *)
EXTENDS Billing, TLC

CONSTANTS h1, h2, a1, i1

\* One status of each fate: kept as it is, mapped to another, out of the table's reach.
SomeStatuses == {"active", "past_due", "unpaid", "paused"}
=============================================================================

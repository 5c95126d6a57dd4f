---------------------------- MODULE GatedListing ----------------------------
(***************************************************************************)
(* What the publish gate promises (package comment of                      *)
(* internal/publishgate/publishgate.go), without ledger, leases, retries   *)
(* or requests: each workflow is decided at most once, what the store      *)
(* sells under the SKU changes only to a version of the product published  *)
(* by an approved workflow, and only a mishap, which the implementation    *)
(* names, puts a second product beside the first.                          *)
(***************************************************************************)
EXTENDS Naturals, Sequences

CONSTANTS Workflow, Content, InitialStore

VARIABLES
  decision,   \* what was decided of each workflow
  listing,    \* the products on sale under the SKU
  mishap      \* publishers have worked side by side

Init ==
  /\ decision = [w \in Workflow |-> "none"]
  /\ listing = InitialStore
  /\ mishap = FALSE

\* The first decision of a workflow is the one kept.
Decide(w) ==
  /\ decision[w] = "none"
  /\ \E d \in {"approved", "rejected"} : decision' = [decision EXCEPT ![w] = d]
  /\ UNCHANGED <<listing, mishap>>

\* An approved workflow puts a version of the product on sale: in place of one that
\* is there, or as the first.
Publish(w, c) ==
  /\ decision[w] = "approved"
  /\ \/ \E i \in DOMAIN listing : listing' = [listing EXCEPT ![i] = c]
     \/ listing = <<>> /\ listing' = <<c>>
  /\ UNCHANGED <<decision, mishap>>

\* An approved workflow puts it on sale beside what is there.
PublishBeside(w, c) ==
  /\ decision[w] = "approved"
  /\ listing' = Append(listing, c)
  /\ mishap'
  /\ UNCHANGED decision

Next ==
  \E w \in Workflow :
    Decide(w) \/ \E c \in Content : Publish(w, c) \/ PublishBeside(w, c)

Spec == Init /\ [][Next]_<<decision, listing, mishap>>

=============================================================================

------------------------------- MODULE Billing -------------------------------
(* The Stripe side of internal/billing as cmd/mc-api wires it: the webhook     *)
(* handler, the dispatcher, the subscription service and the in-memory         *)
(* repository, with the administrators' cancel, pause and resume.  Every call  *)
(* of the repository holds its mutex, so it is one step; a handler is the      *)
(* sequence of its calls, and two requests interleave between them.            *)
(*                                                                             *)
(* One tenant and one subscription: rows of different subscriptions never      *)
(* meet.  Of a row the state is kept, of an event its kind and what it says.   *)
EXTENDS Naturals, Sequences

CONSTANTS
    Handlers,     \* webhook requests served at the same time
    Admins,       \* administrators' requests served at the same time
    Invoices,     \* Stripe invoice ids
    Statuses,     \* what Stripe reports of a subscription that lives
    MaxEvents,    \* bound on Stripe's history when all is calm
    MaxRaced,     \* bound on Stripe's history otherwise
    MaxRestarts,  \* bound on restarts of mc-api
    Weather       \* subset of BOOLEAN: the values calm may have

ASSUME BillingAssumption ==
    /\ Statuses \subseteq {"trialing", "active", "past_due", "unpaid", "paused", "incomplete"}
    /\ {"active", "past_due"} \subseteq Statuses
    /\ MaxEvents \in Nat /\ MaxRaced \in 0 .. MaxEvents
    /\ MaxRestarts \in Nat /\ Weather \subseteq BOOLEAN

VARIABLES
    history,   \* Stripe: the events it has emitted, the index is the event id
    status,    \* Stripe: the status of the subscription
    acked,     \* Stripe: the events answered with 200
    sub,       \* the state of the row in InMemoryRepository.subs, or Absent
    invoice,   \* the status in InMemoryRepository.invoices, or Absent
    recorded,  \* InMemoryRepository.events
    handler,   \* the webhook requests
    admin,     \* the administrators' requests
    restarts,  \* restarts so far
    calm       \* constant of a behaviour: one request at a time with Stripe's events
               \* in order, nobody else writes and mc-api stays up

stripe == <<history, status, acked>>
repo == <<sub, invoice, recorded>>
vars == <<stripe, repo, handler, admin, restarts, calm>>

Absent == "absent"
States == {"trialing", "active", "past_due", "paused", "canceled"}

\* transitionTable of state.go.
TransitionTable ==
    { <<"trialing", "activate", "active">>,   <<"trialing", "cancel", "canceled">>,
      <<"active", "mark_past_due", "past_due">>, <<"active", "pause", "paused">>,
      <<"active", "cancel", "canceled">>,     <<"past_due", "recover", "active">>,
      <<"past_due", "cancel", "canceled">>,   <<"paused", "resume", "active">>,
      <<"paused", "cancel", "canceled">> }

Legal(s, t) == \E x \in States : <<s, t, x>> \in TransitionTable
NextState(s, t) == CHOOSE x \in States : <<s, t, x>> \in TransitionTable

\* The canonical state of a status; one the table does not know is active.
MapStripeStatus(s) ==
    CASE s \in {"trialing", "active", "past_due", "paused", "canceled"} -> s
      [] s = "unpaid" -> "past_due"
      [] OTHER -> "active"

Upserted(s) == [kind |-> "upsert", says |-> s]
Deleted == [kind |-> "deleted", says |-> "canceled"]
Paid(i) == [kind |-> "paid", says |-> i]
Failed(i) == [kind |-> "failed", says |-> i]
Events == {Upserted(s) : s \in Statuses} \cup {Deleted}
              \cup {Paid(i) : i \in Invoices} \cup {Failed(i) : i \in Invoices}

Idle == [pc |-> "idle", event |-> 0, new |-> Absent]
AdminIdle == [pc |-> "idle", new |-> Absent]
EventOf(h) == history[handler[h].event]

TypeOK ==
    /\ history \in Seq(Events) /\ Len(history) <= MaxEvents
    /\ status \in Statuses \cup {"canceled", Absent}
    /\ acked \subseteq 1 .. Len(history)
    /\ sub \in States \cup {Absent}
    /\ invoice \in [Invoices -> {"paid", "uncollectible", Absent}]
    /\ recorded \subseteq 1 .. Len(history)
    /\ handler \in [Handlers -> [pc : {"idle", "invoice", "load", "save", "create", "record"},
                                 event : 0 .. Len(history), new : States \cup {Absent}]]
    /\ admin \in [Admins -> [pc : {"idle", "save"}, new : States \cup {Absent}]]
    /\ restarts \in 0 .. MaxRestarts
    /\ calm \in Weather

Init ==
    /\ history = <<>> /\ status = Absent /\ acked = {}
    /\ sub = Absent /\ invoice = [i \in Invoices |-> Absent] /\ recorded = {}
    /\ handler = [h \in Handlers |-> Idle]
    /\ admin = [a \in Admins |-> AdminIdle]
    /\ restarts = 0
    /\ calm \in Weather
-----------------------------------------------------------------------------
(* Stripe.  It reports a payment and the change of status it causes by two    *)
(* events, in either order.                                                   *)

Emit(s, events) ==
    /\ Len(history) + Len(events) <= IF calm THEN MaxEvents ELSE MaxRaced
    /\ history' = history \o events
    /\ status' = s
    /\ UNCHANGED <<acked, repo, handler, admin, restarts, calm>>

StripeReports(s) ==
    /\ status # "canceled"
    /\ Emit(s, <<Upserted(s)>>)

StripeDeletes ==
    /\ status \notin {"canceled", Absent}
    /\ Emit("canceled", <<Deleted>>)

StripeCollects(i) ==
    \/ /\ status = "active"
       /\ Emit(status, <<Paid(i)>>)
    \/ /\ status \in {"past_due", "unpaid"}
       /\ \/ Emit("active", <<Paid(i), Upserted("active")>>)
          \/ Emit("active", <<Upserted("active"), Paid(i)>>)

StripeFailsToCollect(i) ==
    /\ status = "active"
    /\ \/ Emit("past_due", <<Failed(i), Upserted("past_due")>>)
       \/ Emit("past_due", <<Upserted("past_due"), Failed(i)>>)
-----------------------------------------------------------------------------
(* The webhook handler. *)

Goto(h, pc, new) ==
    handler' = [handler EXCEPT ![h] = [pc |-> pc, event |-> handler[h].event, new |-> new]]

\* Where the dispatcher starts with event n.
Dispatched(h, n) ==
    handler' = [handler EXCEPT ![h] =
        [pc |-> IF history[n].kind \in {"paid", "failed"} THEN "invoice" ELSE "load",
         event |-> n, new |-> Absent]]

Due(h, n) ==
    /\ handler[h].pc = "idle" /\ n \in 1 .. Len(history)
    /\ calm => 1 .. n - 1 \subseteq acked /\ \A g \in Handlers : handler[g].pc = "idle"

\* Slip: no look at the recorded events.
DeliverUnseen(h, n) ==
    /\ Due(h, n) /\ Dispatched(h, n)
    /\ UNCHANGED <<stripe, repo, admin, restarts, calm>>

\* Slip: the event is recorded when it is first seen.
DeliverAndRecord(h, n) ==
    /\ Due(h, n)
    /\ recorded' = recorded \cup {n}
    /\ \/ n \in recorded /\ acked' = acked \cup {n} /\ UNCHANGED handler
       \/ n \notin recorded /\ Dispatched(h, n) /\ UNCHANGED acked
    /\ UNCHANGED <<history, status, sub, invoice, admin, restarts, calm>>

\* Slip: an event that was seen is answered with an error.
DeliverSeenRefused(h, n) ==
    /\ Due(h, n) /\ n \notin recorded /\ Dispatched(h, n)
    /\ UNCHANGED <<stripe, repo, admin, restarts, calm>>

\* A request with event n passes the signature check and StripeEventSeen.
\* Stripe sends an event until one of its requests is answered with 200, and
\* may send one it already has an answer for.
Deliver(h, n) ==
    /\ Due(h, n)
    /\ \/ n \in recorded /\ acked' = acked \cup {n} /\ UNCHANGED handler
       \/ n \notin recorded /\ Dispatched(h, n) /\ UNCHANGED acked
    /\ UNCHANGED <<history, status, repo, admin, restarts, calm>>

\* handleInvoicePaid and handleInvoiceFailed store the invoice first, whatever
\* the row says.
StoreInvoice(h) ==
    /\ handler[h].pc = "invoice"
    /\ invoice' = [invoice EXCEPT ![EventOf(h).says] =
                      IF EventOf(h).kind = "paid" THEN "paid" ELSE "uncollectible"]
    /\ Goto(h, "load", Absent)
    /\ UNCHANGED <<stripe, sub, recorded, admin, restarts, calm>>

\* The dispatcher returns nil.
Returns(h) == Goto(h, "record", Absent)

\* The request is answered with 500.
Fails(h) == handler' = [handler EXCEPT ![h] = Idle]

\* UpsertSubscriptionFromStripe reads the row by its Stripe id and takes over
\* the reported state; the transition table has no say.
LoadForUpsert(h) ==
    /\ handler[h].pc = "load" /\ EventOf(h).kind = "upsert"
    /\ Goto(h, IF sub = Absent THEN "create" ELSE "save", MapStripeStatus(EventOf(h).says))
    /\ UNCHANGED <<stripe, repo, admin, restarts, calm>>

\* handleSubscriptionDeleted ends by Service.Cancel, whose error it returns.
\* The row it looks up first only gives Cancel the id, and rows are not
\* removed: its two reads are one.
LoadForDelete(h) ==
    /\ handler[h].pc = "load" /\ EventOf(h).kind = "deleted"
    /\ \/ sub = Absent /\ Returns(h)
       \/ sub # Absent /\ Legal(sub, "cancel") /\ Goto(h, "save", NextState(sub, "cancel"))
       \/ sub # Absent /\ ~Legal(sub, "cancel") /\ Fails(h)
    /\ UNCHANGED <<stripe, repo, admin, restarts, calm>>

\* The move an invoice asks for, when the row is in a state from which the
\* handler tries it.  An illegal move is dropped with its error.
InvoiceMove(kind) == IF kind = "paid" THEN "recover" ELSE "mark_past_due"
TriedFrom(kind) == IF kind = "paid" THEN {"past_due"} ELSE {"active", "trialing"}

\* The handler looks at the row and transition reads it again; the move is made
\* exactly when the second read allows it, so the reads are one.
LoadForInvoice(h) ==
    LET kind == EventOf(h).kind
        moves == sub \in TriedFrom(kind) /\ Legal(sub, InvoiceMove(kind)) IN
    /\ handler[h].pc = "load" /\ kind \in {"paid", "failed"}
    /\ IF moves
       THEN Goto(h, "save", NextState(sub, InvoiceMove(kind)))
       ELSE Returns(h)
    /\ UNCHANGED <<stripe, repo, admin, restarts, calm>>

\* SaveSubscription stores what was computed from the row read earlier.
Save(h) ==
    /\ handler[h].pc = "save"
    /\ sub' = handler[h].new
    /\ Returns(h)
    /\ UNCHANGED <<stripe, invoice, recorded, admin, restarts, calm>>

\* CreateSubscription refuses a row that another request created meanwhile.
Create(h) ==
    /\ handler[h].pc = "create"
    /\ \/ sub = Absent /\ sub' = handler[h].new /\ Returns(h)
       \/ sub # Absent /\ UNCHANGED sub /\ Fails(h)
    /\ UNCHANGED <<stripe, invoice, recorded, admin, restarts, calm>>

\* StripeEventRecord, then the answer, which may be lost.
Record(h) ==
    /\ handler[h].pc = "record"
    /\ recorded' = recorded \cup {handler[h].event}
    /\ acked' \in {acked, acked \cup {handler[h].event}}
    /\ handler' = [handler EXCEPT ![h] = Idle]
    /\ UNCHANGED <<history, status, sub, invoice, admin, restarts, calm>>
-----------------------------------------------------------------------------
(* The administrators, and the process. *)

\* Service.transition reads the row and applies the move; a move that is not
\* legal, or a row that is absent, ends the request here.
AdminLoad(a, t) ==
    /\ ~calm /\ admin[a].pc = "idle" /\ sub # Absent /\ Legal(sub, t)
    /\ admin' = [admin EXCEPT ![a] = [pc |-> "save", new |-> NextState(sub, t)]]
    /\ UNCHANGED <<stripe, repo, handler, restarts, calm>>

AdminSave(a) ==
    /\ admin[a].pc = "save"
    /\ sub' = admin[a].new
    /\ admin' = [admin EXCEPT ![a] = AdminIdle]
    /\ UNCHANGED <<stripe, invoice, recorded, handler, restarts, calm>>

\* mc-api dies and starts again: the repository it builds is a new one.
Restart ==
    /\ ~calm /\ restarts < MaxRestarts
    /\ restarts' = restarts + 1
    /\ sub' = Absent /\ invoice' = [i \in Invoices |-> Absent] /\ recorded' = {}
    /\ handler' = [h \in Handlers |-> Idle]
    /\ admin' = [a \in Admins |-> AdminIdle]
    /\ UNCHANGED <<stripe, calm>>

HandlerStep(h) ==
    \/ StoreInvoice(h) \/ LoadForUpsert(h) \/ LoadForDelete(h) \/ LoadForInvoice(h)
    \/ Save(h) \/ Create(h) \/ Record(h)

Next ==
    \/ \E s \in Statuses : StripeReports(s)
    \/ StripeDeletes
    \/ \E i \in Invoices : StripeCollects(i) \/ StripeFailsToCollect(i)
    \/ \E h \in Handlers, n \in 1 .. MaxEvents : Deliver(h, n)
    \/ \E h \in Handlers : HandlerStep(h)
    \/ \E a \in Admins, t \in {"cancel", "pause", "resume"} : AdminLoad(a, t)
    \/ \E a \in Admins : AdminSave(a)
    \/ Restart

Spec == Init /\ [][Next]_vars

\* A request that was accepted runs to its answer, and Stripe sends an event
\* until it is answered with 200.
FairSpec ==
    /\ Spec
    /\ \A h \in Handlers : WF_vars(HandlerStep(h))
    /\ \A n \in 1 .. MaxEvents : SF_vars(n \notin acked /\ \E h \in Handlers : Deliver(h, n))
-----------------------------------------------------------------------------
(* Properties *)

\* An event the repository will answer as seen has left its trace there: a
\* report of the subscription its row, a report of a payment its invoice.
\* Recording before dispatching, or recording a dispatch that failed, would
\* turn Stripe's retry into a 200 and the event would be lost for good.
RecordedHasEffect ==
    \A n \in recorded :
        /\ history[n].kind = "upsert" => sub # Absent
        /\ history[n].kind \in {"paid", "failed"} => invoice[history[n].says] # Absent

\* The last event about invoice i.
LastAbout(i) ==
    LET about == {n \in 1 .. Len(history) : history[n] \in {Paid(i), Failed(i)}} IN
    IF about = {} THEN Absent
    ELSE history[CHOOSE n \in about : \A m \in about : m <= n].kind

\* When Stripe delivers in order, to one request at a time and with any number
\* of repetitions of answered events, the repository agrees with Stripe
\* whenever every event has been answered.
MirrorsStripe ==
    (calm /\ acked = 1 .. Len(history) /\ \A h \in Handlers : handler[h].pc = "idle") =>
        /\ sub = IF status = Absent THEN Absent ELSE MapStripeStatus(status)
        /\ \A i \in Invoices :
               invoice[i] = CASE LastAbout(i) = "paid" -> "paid"
                              [] LastAbout(i) = "failed" -> "uncollectible"
                              [] OTHER -> Absent

\* "StateCanceled is terminal: no further transitions out" (state.go:23): a
\* canceled row stays canceled, whoever writes it.
CanceledIsTerminal == [][sub = "canceled" => sub' = "canceled"]_vars

\* "Duplicate deliveries return 200 OK without side effects" (CHANGELOG.md,
\* v2.5.0): when the dispatch of an event has returned, no other dispatch of it
\* has, neither one that is recorded nor one about to be.
AppliedOnce ==
    \A h \in Handlers : handler[h].pc = "record" =>
        /\ handler[h].event \notin recorded
        /\ \A g \in Handlers \ {h} :
               ~(handler[g].pc = "record" /\ handler[g].event = handler[h].event)

\* "Production wiring uses internal/adapter/postgres.BillingRepository"
\* (inmemory.go:12-13): what mc-api has acknowledged to Stripe it still knows,
\* so a subscription Stripe was told is stored has a row.
AckedIsKept ==
    \A n \in acked : history[n].kind = "upsert" => sub # Absent

\* "StatePastDue is reached when an invoice payment fails" (state.go:18): when
\* the handler of a failed payment, alone at work, has dealt with the row, the
\* row does not sit in a state from which the handler means to move it.
FailureMarks ==
    \A h \in Handlers :
        (handler[h].pc = "record" /\ EventOf(h).kind = "failed") =>
            sub \notin TriedFrom("failed")

\* Event n is the deletion of a row that is canceled already.
DeletesCanceled(n) ==
    n \in 1 .. Len(history) /\ history[n].kind = "deleted" /\ sub = "canceled"

\* Every event Stripe emits is in the end answered with 200: two first events
\* racing to create the row, duplicates, retries and a restart included.  Only a
\* deletion may be refused for ever, and only of a row that is canceled and stays so.
EveryEventAcked ==
    \A n \in 1 .. MaxEvents :
        n <= Len(history) ~> (n \in acked \/ []DeletesCanceled(n))
=============================================================================

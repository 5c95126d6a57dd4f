---------------------------- MODULE TenantProofs ----------------------------
(* Theorems about a tenant: its subscription (Billing), for any number of      *)
(* requests, administrators, invoices, events and restarts and for every order *)
(* of delivery; and its registration (TenantRegistration), for any number of   *)
(* requests, addresses, slugs, calls and failures: a slug is given to one      *)
(* call, and a tenant made for a request was made after its address was        *)
(* verified.                                                                   *)
EXTENDS Billing, TenantPromises, TLAPS

\* What event n must have left in the repository before it may be recorded.
HasEffect(n) ==
    /\ history[n].kind = "upsert" => sub # Absent
    /\ history[n].kind \in {"paid", "failed"} => invoice[history[n].says] # Absent

\* A request at work is about an event Stripe has emitted.
WorkInv ==
    \A h \in Handlers :
        handler[h].pc # "idle" => handler[h].event \in 1 .. Len(history)

\* A request about to record its event has had its effect; one that was
\* dispatched on an invoice has stored the invoice before it looks at the row.
DispatchedOK(h) ==
    /\ handler[h].pc \in {"save", "create"} => handler[h].new \in States
    /\ (handler[h].pc \in {"load", "save", "create"} /\ EventOf(h).kind \in {"paid", "failed"})
           => invoice[EventOf(h).says] # Absent
    /\ handler[h].pc = "invoice" => EventOf(h).kind \in {"paid", "failed"}
    /\ handler[h].pc = "record" => HasEffect(handler[h].event)
DispatchInv == \A h \in Handlers : DispatchedOK(h)

AdminInv == \A a \in Admins : admin[a].pc = "save" => admin[a].new \in States

IInv == TypeOK /\ WorkInv /\ DispatchInv /\ AdminInv /\ RecordedHasEffect

\* A legal move ends in a state of the table.
LEMMA NextStateInStates ==
    ASSUME NEW s, NEW t, Legal(s, t)
    PROVE  NextState(s, t) \in States
BY DEF Legal, NextState

\* Whatever Stripe says of a subscription is stored as a state of the table.
LEMMA MapInStates ==
    ASSUME NEW s
    PROVE  MapStripeStatus(s) \in States
<1>1. CASE s \in {"trialing", "active", "past_due", "paused", "canceled"}
  BY <1>1 DEF MapStripeStatus, States
<1>2. CASE s = "unpaid"
  BY <1>2 DEF MapStripeStatus, States
<1>3. CASE s # "unpaid" /\ s \notin {"trialing", "active", "past_due", "paused", "canceled"}
  BY <1>3 DEF MapStripeStatus, States
<1> QED BY <1>1, <1>2, <1>3

LEMMA AbsentIsNoState == Absent \notin States
BY DEF Absent, States

\* Events keep their number and their content when Stripe emits others.
LEMMA HistoryGrows ==
    ASSUME NEW S, NEW h \in Seq(S), NEW e \in Seq(S), NEW n \in 1 .. Len(h)
    PROVE  /\ n \in 1 .. Len(h \o e)
           /\ (h \o e)[n] = h[n]
OBVIOUS

\* What Stripe emits, by kind.
LEMMA KindsOfEvents ==
    ASSUME NEW e \in Events
    PROVE  /\ e.kind \in {"upsert", "deleted", "paid", "failed"}
           /\ e.kind = "upsert" => e.says \in Statuses
           /\ e.kind \in {"paid", "failed"} => e.says \in Invoices
BY DEF Events, Upserted, Deleted, Paid, Failed

\* What Stripe emits about a payment.
LEMMA CollectEvents ==
    ASSUME NEW i \in Invoices
    PROVE  /\ <<Paid(i)>> \in Seq(Events)
           /\ <<Paid(i), Upserted("active")>> \in Seq(Events)
           /\ <<Upserted("active"), Paid(i)>> \in Seq(Events)
           /\ <<Failed(i), Upserted("past_due")>> \in Seq(Events)
           /\ <<Upserted("past_due"), Failed(i)>> \in Seq(Events)
<1>1. Paid(i) \in Events /\ Failed(i) \in Events
  BY DEF Events
<1>2. Upserted("active") \in Events /\ Upserted("past_due") \in Events
  BY BillingAssumption DEF Events, BillingAssumption
<1> QED BY <1>1, <1>2

-----------------------------------------------------------------------------
(* Types. *)

\* More history leaves every index in range.
LEMMA EmitKeepsTypes ==
    ASSUME TypeOK, NEW s \in Statuses \cup {"canceled"}, NEW e \in Seq(Events), Emit(s, e)
    PROVE  TypeOK'
<1>1. history' \in Seq(Events) /\ Len(history) <= Len(history') /\ Len(history') \in Nat
  BY DEF TypeOK, Emit
<1>2. Len(history') <= MaxEvents
  <2>1. Len(history') <= IF calm THEN MaxEvents ELSE MaxRaced
    BY DEF TypeOK, Emit
  <2> QED BY <2>1, <1>1, BillingAssumption DEF BillingAssumption
<1>3. 1 .. Len(history) \subseteq 1 .. Len(history') /\ 0 .. Len(history) \subseteq 0 .. Len(history')
  BY <1>1 DEF TypeOK
<1>4. status' \in Statuses \cup {"canceled", Absent}
  BY DEF Emit
<1>5. acked' \subseteq 1 .. Len(history') /\ recorded' \subseteq 1 .. Len(history')
  BY <1>3 DEF TypeOK, Emit, repo
<1>6. \A h \in Handlers : handler[h].event \in 0 .. Len(history')
  BY <1>3 DEF TypeOK
<1>7. handler' \in [Handlers -> [pc : {"idle", "invoice", "load", "save", "create", "record"},
                                 event : 0 .. Len(history'), new : States \cup {Absent}]]
  BY <1>6 DEF TypeOK, Emit
<1> QED
  BY <1>1, <1>2, <1>4, <1>5, <1>7 DEF TypeOK, Emit, repo

\* The domain of handler.
HandlerType ==
    [Handlers -> [pc : {"idle", "invoice", "load", "save", "create", "record"},
                  event : 0 .. Len(history), new : States \cup {Absent}]]

\* A request keeps its event while it moves on.
LEMMA GotoKeepsTypes ==
    ASSUME TypeOK, NEW h \in Handlers, NEW new \in States \cup {Absent},
           NEW pc \in {"idle", "invoice", "load", "save", "create", "record"},
           Goto(h, pc, new)
    PROVE  handler' \in HandlerType
BY DEF TypeOK, Goto, HandlerType

LEMMA IdleKeepsTypes ==
    ASSUME TypeOK, NEW h \in Handlers, handler' = [handler EXCEPT ![h] = Idle]
    PROVE  handler' \in HandlerType
BY DEF TypeOK, Idle, HandlerType

LEMMA DispatchKeepsTypes ==
    ASSUME TypeOK, NEW h \in Handlers, NEW n \in 1 .. Len(history), Dispatched(h, n)
    PROVE  handler' \in HandlerType
BY DEF TypeOK, Dispatched, HandlerType

LEMMA TypeStep == TypeOK /\ WorkInv /\ [Next]_vars => TypeOK'
<1> SUFFICES ASSUME TypeOK, WorkInv, [Next]_vars PROVE TypeOK'
  OBVIOUS
<1> USE BillingAssumption
<1>1. CASE \E s \in Statuses : StripeReports(s)
  <2>1. PICK s \in Statuses : Emit(s, <<Upserted(s)>>)
    BY <1>1 DEF StripeReports
  <2>2. <<Upserted(s)>> \in Seq(Events)
    BY DEF Events
  <2> QED BY <2>1, <2>2, EmitKeepsTypes
<1>2. CASE StripeDeletes
  <2>1. <<Deleted>> \in Seq(Events)
    BY DEF Events
  <2> QED BY <1>2, <2>1, EmitKeepsTypes DEF StripeDeletes
<1>3. CASE \E i \in Invoices : StripeCollects(i) \/ StripeFailsToCollect(i)
  <2>1. PICK i \in Invoices : StripeCollects(i) \/ StripeFailsToCollect(i)
    BY <1>3
  <2>3. /\ "active" \in Statuses \cup {"canceled"}
        /\ "past_due" \in Statuses \cup {"canceled"}
        /\ status = "active" => status \in Statuses \cup {"canceled"}
    BY DEF BillingAssumption
  <2>4. CASE StripeCollects(i)
    BY <2>3, <2>4, CollectEvents, EmitKeepsTypes DEF StripeCollects
  <2>5. CASE StripeFailsToCollect(i)
    BY <2>3, <2>5, CollectEvents, EmitKeepsTypes DEF StripeFailsToCollect
  <2> QED BY <2>1, <2>4, <2>5
<1>4. CASE \E h \in Handlers, n \in 1 .. MaxEvents : Deliver(h, n)
  <2>1. PICK h \in Handlers, n \in 1 .. MaxEvents : Deliver(h, n)
    BY <1>4
  <2>2. n \in 1 .. Len(history)
    BY <2>1 DEF Deliver, Due
  <2>3. handler' \in HandlerType
    BY <2>1, <2>2, DispatchKeepsTypes DEF Deliver, TypeOK, HandlerType
  <2>4. acked' \subseteq 1 .. Len(history)
    BY <2>1, <2>2 DEF Deliver, TypeOK
  <2> QED BY <2>1, <2>3, <2>4 DEF TypeOK, Deliver, repo, HandlerType
<1>5. CASE \E h \in Handlers : HandlerStep(h)
  <2>1. PICK h \in Handlers : HandlerStep(h)
    BY <1>5
  <2>2. CASE StoreInvoice(h)
    <3>1. handler' \in HandlerType
      BY <2>2, GotoKeepsTypes DEF StoreInvoice
    <3> QED BY <2>2, <3>1 DEF TypeOK, StoreInvoice, stripe, HandlerType
  <2>3. CASE LoadForUpsert(h)
    <3>1. handler' \in HandlerType
      BY <2>3, MapInStates, GotoKeepsTypes DEF LoadForUpsert
    <3> QED BY <2>3, <3>1 DEF TypeOK, LoadForUpsert, stripe, repo, HandlerType
  <2>4. CASE LoadForDelete(h)
    <3>1. handler' \in HandlerType
      BY <2>4, NextStateInStates, GotoKeepsTypes, IdleKeepsTypes DEF LoadForDelete, Returns, Fails
    <3> QED BY <2>4, <3>1 DEF TypeOK, LoadForDelete, stripe, repo, HandlerType
  <2>5. CASE LoadForInvoice(h)
    <3>1. handler' \in HandlerType
      BY <2>5, NextStateInStates, GotoKeepsTypes DEF LoadForInvoice, Returns
    <3> QED BY <2>5, <3>1 DEF TypeOK, LoadForInvoice, stripe, repo, HandlerType
  <2>6. CASE Save(h)
    <3>1. handler' \in HandlerType
      BY <2>6, GotoKeepsTypes DEF Save, Returns
    <3> QED BY <2>6, <3>1 DEF TypeOK, Save, stripe, HandlerType
  <2>7. CASE Create(h)
    <3>1. handler' \in HandlerType
      BY <2>7, GotoKeepsTypes, IdleKeepsTypes DEF Create, Returns, Fails
    <3> QED BY <2>7, <3>1 DEF TypeOK, Create, stripe, HandlerType
  <2>8. CASE Record(h)
    <3>1. handler' \in HandlerType
      BY <2>8, IdleKeepsTypes DEF Record
    <3>2. handler[h].event \in 1 .. Len(history)
      BY <2>8 DEF Record, WorkInv
    <3> QED BY <2>8, <3>1, <3>2 DEF TypeOK, Record, HandlerType
  <2> QED
    BY <2>1, <2>2, <2>3, <2>4, <2>5, <2>6, <2>7, <2>8 DEF HandlerStep
<1>6. CASE \E a \in Admins, t \in {"cancel", "pause", "resume"} : AdminLoad(a, t)
  BY <1>6, NextStateInStates DEF TypeOK, AdminLoad, stripe, repo
<1>7. CASE \E a \in Admins : AdminSave(a)
  BY <1>7 DEF TypeOK, AdminSave, AdminIdle, stripe
<1>8. CASE Restart
  BY <1>8 DEF TypeOK, Restart, Idle, AdminIdle, stripe
<1>9. CASE UNCHANGED vars
  BY <1>9 DEF TypeOK, vars, stripe, repo
<1> QED
  BY <1>1, <1>2, <1>3, <1>4, <1>5, <1>6, <1>7, <1>8, <1>9 DEF Next

LEMMA WorkStep == TypeOK /\ WorkInv /\ [Next]_vars => WorkInv'
<1> SUFFICES ASSUME TypeOK, WorkInv, [Next]_vars,
                    NEW g \in Handlers, handler'[g].pc # "idle"
             PROVE  handler'[g].event \in 1 .. Len(history')
  BY DEF WorkInv
<1>1. Len(history) \in Nat /\ (handler[g].pc # "idle" => handler[g].event \in 1 .. Len(history))
  BY DEF TypeOK, WorkInv
<1>2. ASSUME NEW s, NEW e \in Seq(Events), Emit(s, e)
      PROVE  handler'[g].event \in 1 .. Len(history')
  BY <1>1, <1>2, HistoryGrows DEF Emit, TypeOK
<1>3. CASE \E s \in Statuses : StripeReports(s)
  <2>1. PICK s \in Statuses : Emit(s, <<Upserted(s)>>)
    BY <1>3 DEF StripeReports
  <2>2. <<Upserted(s)>> \in Seq(Events)
    BY DEF Events
  <2> QED BY <1>2, <2>1, <2>2
<1>4. CASE StripeDeletes
  <2>1. <<Deleted>> \in Seq(Events)
    BY DEF Events
  <2> QED BY <1>2, <1>4, <2>1 DEF StripeDeletes
<1>5. CASE \E i \in Invoices : StripeCollects(i) \/ StripeFailsToCollect(i)
  <2>1. PICK i \in Invoices : StripeCollects(i) \/ StripeFailsToCollect(i)
    BY <1>5
  <2> QED BY <1>2, <2>1, CollectEvents DEF StripeCollects, StripeFailsToCollect
<1>6. CASE \E h \in Handlers, n \in 1 .. MaxEvents : Deliver(h, n)
  BY <1>1, <1>6 DEF TypeOK, Deliver, Due, Dispatched
<1>7. CASE \E h \in Handlers : HandlerStep(h)
  <2>1. PICK h \in Handlers : HandlerStep(h)
    BY <1>7
  <2>2. handler[h].pc # "idle" /\ UNCHANGED history
    BY <2>1 DEF HandlerStep, StoreInvoice, LoadForUpsert, LoadForDelete, LoadForInvoice, Save,
                Create, Record, stripe
  <2>3. \/ \E pc, new : Goto(h, pc, new)
        \/ handler' = [handler EXCEPT ![h] = Idle]
    BY <2>1 DEF HandlerStep, StoreInvoice, LoadForUpsert, LoadForDelete, LoadForInvoice, Save,
                Create, Record, Returns, Fails
  <2>4. CASE \E pc, new : Goto(h, pc, new)
    <3>1. PICK pc, new : Goto(h, pc, new)
      BY <2>4
    <3>2. handler'[g].event = handler[g].event
      BY <3>1 DEF Goto, TypeOK
    <3>3. handler[g].pc # "idle"
      BY <2>2, <3>1 DEF Goto, TypeOK
    <3> QED BY <1>1, <2>2, <3>2, <3>3
  <2>5. CASE handler' = [handler EXCEPT ![h] = Idle]
    BY <1>1, <2>2, <2>5 DEF TypeOK, Idle
  <2> QED BY <2>3, <2>4, <2>5
<1>8. CASE \E a \in Admins, t \in {"cancel", "pause", "resume"} : AdminLoad(a, t)
  BY <1>1, <1>8 DEF AdminLoad, stripe
<1>9. CASE \E a \in Admins : AdminSave(a)
  BY <1>1, <1>9 DEF AdminSave, stripe
<1>10. CASE Restart
  BY <1>10 DEF Restart, Idle
<1>11. CASE UNCHANGED vars
  BY <1>1, <1>11 DEF vars, stripe
<1> QED
  BY <1>3, <1>4, <1>5, <1>6, <1>7, <1>8, <1>9, <1>10, <1>11 DEF Next

LEMMA TypeInit == Init => TypeOK /\ WorkInv
BY BillingAssumption DEF Init, TypeOK, WorkInv, Idle, AdminIdle, BillingAssumption

\* Every variable stays within its Go type and its bound, for any number of
\* requests, administrators, invoices, events and restarts.
THEOREM TypeCorrect == Spec => []TypeOK
<1>1. TypeOK /\ WorkInv /\ [Next]_vars => (TypeOK /\ WorkInv)'
  BY TypeStep, WorkStep
<1> QED BY <1>1, TypeInit, PTL DEF Spec

-----------------------------------------------------------------------------
(* Effects. *)

\* Nothing but a restart takes a row, an invoice or an event away.
Persists ==
    /\ sub # Absent => sub' # Absent
    /\ \A i \in Invoices : invoice[i] # Absent => invoice'[i] # Absent
    /\ \A n \in 1 .. Len(history) : history'[n] = history[n]

\* An effect that was had stays.
LEMMA EffectStays ==
    ASSUME TypeOK, Persists, NEW n \in 1 .. Len(history), HasEffect(n)
    PROVE  HasEffect(n)'
<1>1. history[n] \in Events /\ history'[n] = history[n]
  BY DEF TypeOK, Persists
<1> QED BY <1>1, KindsOfEvents DEF HasEffect, Persists

\* A request that does not move stays as it should be.
LEMMA UnmovedStays ==
    ASSUME TypeOK, WorkInv, Persists, NEW g \in Handlers, DispatchedOK(g),
           handler'[g] = handler[g]
    PROVE  DispatchedOK(g)'
<1>1. CASE handler[g].pc = "idle"
  BY <1>1 DEF DispatchedOK
<1>2. CASE handler[g].pc # "idle"
  <2>1. handler[g].event \in 1 .. Len(history)
    BY <1>2 DEF WorkInv
  <2>2. history[handler[g].event] \in Events /\ EventOf(g)' = EventOf(g)
    BY <2>1 DEF TypeOK, Persists, EventOf
  <2>3. HasEffect(handler[g].event) => HasEffect(handler[g].event)'
    BY <2>1, EffectStays
  <2>4. EventOf(g).kind \in {"paid", "failed"} => EventOf(g).says \in Invoices
    BY <2>2, KindsOfEvents DEF EventOf
  <2>5. handler[g].pc = "record" => HasEffect(handler[g].event)'
    BY <2>3 DEF DispatchedOK
  <2> QED BY <2>2, <2>4, <2>5 DEF DispatchedOK, Persists
<1> QED BY <1>1, <1>2

\* Stripe emitting more changes nothing the requests rely on.
LEMMA EmitPersists ==
    ASSUME TypeOK, NEW s, NEW e \in Seq(Events), Emit(s, e)
    PROVE  Persists /\ UNCHANGED <<repo, handler, admin>>
BY HistoryGrows DEF Emit, Persists, repo, TypeOK

\* The steps of a request, one by one: what it leaves it in, and that nothing is lost.
LEMMA HandlerStepEffect ==
    ASSUME IInv, NEW h \in Handlers, HandlerStep(h)
    PROVE  Persists /\ DispatchedOK(h)'
<1> DEFINE n == handler[h].event
<1>1. /\ handler[h].pc # "idle" => n \in 1 .. Len(history) /\ EventOf(h) \in Events
      /\ DispatchedOK(h)
  BY DEF IInv, TypeOK, WorkInv, DispatchInv, EventOf
<1>2. EventOf(h) \in Events =>
        (/\ EventOf(h).kind \in {"upsert", "deleted", "paid", "failed"}
         /\ EventOf(h).kind \in {"paid", "failed"} => EventOf(h).says \in Invoices)
  BY KindsOfEvents
<1> USE AbsentIsNoState
<1>3. CASE StoreInvoice(h)
  <2>1. Persists
    BY <1>3 DEF StoreInvoice, Persists, stripe, IInv, TypeOK, Absent
  <2>2. handler'[h] = [pc |-> "load", event |-> n, new |-> Absent] /\ EventOf(h)' = EventOf(h)
    BY <1>3 DEF StoreInvoice, Goto, IInv, TypeOK, stripe, EventOf
  <2>3. invoice'[EventOf(h).says] # Absent
    BY <1>1, <1>2, <1>3 DEF StoreInvoice, IInv, TypeOK, Absent, DispatchedOK
  <2> QED BY <2>1, <2>2, <2>3 DEF DispatchedOK
<1>4. CASE LoadForUpsert(h)
  <2>1. Persists /\ UNCHANGED <<repo, stripe>>
    BY <1>4 DEF LoadForUpsert, Persists, repo, stripe
  <2>2. PICK pc \in {"create", "save"} :
           handler'[h] = [pc |-> pc, event |-> n, new |-> MapStripeStatus(EventOf(h).says)]
    BY <1>4 DEF LoadForUpsert, Goto, IInv, TypeOK
  <2>3. EventOf(h)' = EventOf(h) /\ EventOf(h).kind = "upsert"
    BY <1>4, <2>1, <2>2 DEF LoadForUpsert, EventOf, stripe
  <2> QED BY <2>1, <2>2, <2>3, MapInStates DEF DispatchedOK
<1>5. CASE LoadForDelete(h)
  <2>1. Persists /\ UNCHANGED <<repo, stripe>>
    BY <1>5 DEF LoadForDelete, Persists, repo, stripe
  <2>2. \/ handler'[h] = Idle
        \/ handler'[h] = [pc |-> "record", event |-> n, new |-> Absent]
        \/ handler'[h] = [pc |-> "save", event |-> n, new |-> NextState(sub, "cancel")]
             /\ Legal(sub, "cancel")
    BY <1>5 DEF LoadForDelete, Goto, Returns, Fails, IInv, TypeOK
  <2>3. EventOf(h).kind = "deleted"
    BY <1>5 DEF LoadForDelete
  <2>4. CASE handler'[h] = Idle
    BY <2>1, <2>4 DEF DispatchedOK, Idle
  <2>5. CASE handler'[h].event = n
    <3>1. EventOf(h)' = EventOf(h)
      BY <2>1, <2>5 DEF EventOf, stripe
    <3> QED BY <2>1, <2>2, <2>3, <2>5, <3>1, NextStateInStates DEF DispatchedOK, HasEffect, EventOf, Idle
  <2> QED BY <2>1, <2>2, <2>4, <2>5
<1>6. CASE LoadForInvoice(h)
  <2>1. Persists /\ UNCHANGED <<repo, stripe>>
    BY <1>6 DEF LoadForInvoice, Persists, repo, stripe
  <2>2. \/ handler'[h] = [pc |-> "record", event |-> n, new |-> Absent]
        \/ /\ handler'[h] = [pc |-> "save", event |-> n,
                              new |-> NextState(sub, InvoiceMove(EventOf(h).kind))]
           /\ Legal(sub, InvoiceMove(EventOf(h).kind))
    BY <1>6 DEF LoadForInvoice, Goto, Returns, IInv, TypeOK
  <2>3. EventOf(h).kind \in {"paid", "failed"} /\ invoice[EventOf(h).says] # Absent
    BY <1>1, <1>6 DEF LoadForInvoice, DispatchedOK
  <2>4. EventOf(h)' = EventOf(h)
    BY <2>1, <2>2 DEF EventOf, stripe
  <2> QED BY <2>1, <2>2, <2>3, <2>4, NextStateInStates DEF DispatchedOK, HasEffect, EventOf, repo
<1>7. CASE Save(h)
  <2>1. sub' # Absent /\ UNCHANGED <<stripe, invoice>>
    BY <1>1, <1>7 DEF Save, DispatchedOK
  <2>2. Persists
    BY <2>1 DEF Persists, stripe
  <2>3. handler'[h] = [pc |-> "record", event |-> n, new |-> Absent]
    BY <1>7 DEF Save, Returns, Goto, IInv, TypeOK
  <2>4. EventOf(h)' = EventOf(h)
    BY <2>1, <2>3 DEF EventOf, stripe
  <2>5. EventOf(h).kind \in {"paid", "failed"} => invoice[EventOf(h).says] # Absent
    BY <1>1, <1>7 DEF Save, DispatchedOK
  <2> QED BY <2>1, <2>2, <2>3, <2>4, <2>5 DEF DispatchedOK, HasEffect, EventOf
<1>8. CASE Create(h)
  <2>1. Persists /\ UNCHANGED <<stripe, invoice>>
    BY <1>8 DEF Create, Persists, stripe
  <2>2. \/ handler'[h] = Idle
        \/ handler'[h] = [pc |-> "record", event |-> n, new |-> Absent] /\ sub' # Absent
    BY <1>1, <1>8 DEF Create, Returns, Fails, Goto, IInv, TypeOK, DispatchedOK
  <2>3. EventOf(h).kind \in {"paid", "failed"} => invoice[EventOf(h).says] # Absent
    BY <1>1, <1>8 DEF Create, DispatchedOK
  <2>4. CASE handler'[h] = Idle
    BY <2>1, <2>4 DEF DispatchedOK, Idle
  <2>5. CASE handler'[h] = [pc |-> "record", event |-> n, new |-> Absent] /\ sub' # Absent
    <3>1. EventOf(h)' = EventOf(h)
      BY <2>1, <2>5 DEF EventOf, stripe
    <3> QED BY <2>1, <2>3, <2>5, <3>1 DEF DispatchedOK, HasEffect, EventOf
  <2> QED BY <2>2, <2>4, <2>5
<1>9. CASE Record(h)
  BY <1>9 DEF Record, Persists, DispatchedOK, Idle, IInv, TypeOK
<1> QED
  BY <1>3, <1>4, <1>5, <1>6, <1>7, <1>8, <1>9 DEF HandlerStep

\* What a request records has had its effect; the other steps record nothing.
LEMMA RecordStep ==
    ASSUME IInv, NEW h \in Handlers, HandlerStep(h), NEW n \in recorded'
    PROVE  n \in 1 .. Len(history) /\ HasEffect(n)
<1>1. CASE n \in recorded
  BY <1>1 DEF IInv, TypeOK, RecordedHasEffect, HasEffect
<1>2. CASE n \notin recorded
  <2>1. Record(h) /\ n = handler[h].event
    BY <1>2 DEF HandlerStep, StoreInvoice, LoadForUpsert, LoadForDelete, LoadForInvoice, Save,
                Create, Record, stripe, repo
  <2> QED BY <2>1 DEF Record, IInv, WorkInv, DispatchInv, DispatchedOK
<1> QED BY <1>1, <1>2

LEMMA EffectStep == IInv /\ [Next]_vars => IInv'
<1> SUFFICES ASSUME IInv, [Next]_vars PROVE IInv'
  OBVIOUS
<1>1. TypeOK' /\ WorkInv' /\ TypeOK /\ WorkInv
  BY TypeStep, WorkStep DEF IInv
<1>2. ASSUME Persists, UNCHANGED recorded
      PROVE  RecordedHasEffect'
  <2> SUFFICES ASSUME NEW n \in recorded PROVE HasEffect(n)'
    BY <1>2 DEF RecordedHasEffect, HasEffect
  <2>1. n \in 1 .. Len(history) /\ HasEffect(n)
    BY DEF IInv, TypeOK, RecordedHasEffect, HasEffect
  <2> QED BY <1>1, <1>2, <2>1, EffectStays
<1>3. ASSUME Persists, UNCHANGED handler
      PROVE  DispatchInv'
  BY <1>1, <1>3, UnmovedStays DEF DispatchInv, IInv
<1>4. ASSUME NEW s, NEW e \in Seq(Events), Emit(s, e)
      PROVE  IInv'
  <2>1. Persists /\ UNCHANGED <<repo, handler, admin>>
    BY <1>1, <1>4, EmitPersists
  <2>2. AdminInv'
    BY <2>1 DEF IInv, AdminInv
  <2> QED BY <1>1, <1>2, <1>3, <2>1, <2>2 DEF IInv, repo
<1>5. CASE \E s \in Statuses : StripeReports(s)
  <2>1. PICK s \in Statuses : Emit(s, <<Upserted(s)>>)
    BY <1>5 DEF StripeReports
  <2>2. <<Upserted(s)>> \in Seq(Events)
    BY DEF Events
  <2> QED BY <1>4, <2>1, <2>2
<1>6. CASE StripeDeletes
  <2>1. <<Deleted>> \in Seq(Events)
    BY DEF Events
  <2> QED BY <1>4, <1>6, <2>1 DEF StripeDeletes
<1>7. CASE \E i \in Invoices : StripeCollects(i) \/ StripeFailsToCollect(i)
  <2>1. PICK i \in Invoices : StripeCollects(i) \/ StripeFailsToCollect(i)
    BY <1>7
  <2> QED BY <1>4, <2>1, CollectEvents DEF StripeCollects, StripeFailsToCollect
<1>8. CASE \E h \in Handlers, n \in 1 .. MaxEvents : Deliver(h, n)
  <2>1. PICK h \in Handlers, n \in 1 .. MaxEvents : Deliver(h, n)
    BY <1>8
  <2>2. Persists /\ UNCHANGED <<history, repo, admin>>
    BY <2>1 DEF Deliver, Persists, repo
  <2>3. ASSUME NEW g \in Handlers PROVE DispatchedOK(g)'
    <3>1. CASE handler'[g] = handler[g]
      BY <1>1, <2>2, <3>1, UnmovedStays DEF IInv, DispatchInv
    <3>2. CASE handler'[g] # handler[g]
      <4>1. /\ handler'[g].pc = IF history[n].kind \in {"paid", "failed"} THEN "invoice" ELSE "load"
            /\ handler'[g].event = n
        BY <2>1, <3>2 DEF Deliver, Dispatched, IInv, TypeOK
      <4>2. EventOf(g)' = history[n]
        BY <2>2, <4>1 DEF EventOf
      <4> QED BY <4>1, <4>2 DEF DispatchedOK
    <3> QED BY <3>1, <3>2
  <2>4. DispatchInv' /\ AdminInv'
    BY <2>2, <2>3 DEF DispatchInv, IInv, AdminInv
  <2> QED BY <1>1, <1>2, <2>2, <2>4 DEF IInv, repo
<1>9. CASE \E h \in Handlers : HandlerStep(h)
  <2>1. PICK h \in Handlers : HandlerStep(h)
    BY <1>9
  <2>2. Persists /\ DispatchedOK(h)'
    BY <2>1, HandlerStepEffect
  <2>3. /\ UNCHANGED admin
        /\ \A g \in Handlers \ {h} : handler'[g] = handler[g]
    BY <2>1 DEF HandlerStep, StoreInvoice, LoadForUpsert, LoadForDelete, LoadForInvoice, Save,
                Create, Record, Returns, Fails, Goto, IInv, TypeOK
  <2>4. DispatchInv'
    BY <1>1, <2>2, <2>3, UnmovedStays DEF DispatchInv, IInv
  <2>5. ASSUME NEW n \in recorded' PROVE HasEffect(n)'
    BY <1>1, <2>1, <2>2, RecordStep, EffectStays
  <2>6. RecordedHasEffect'
    BY <2>5 DEF RecordedHasEffect, HasEffect
  <2> QED BY <1>1, <2>3, <2>4, <2>6 DEF IInv, AdminInv
<1>10. CASE \E a \in Admins, t \in {"cancel", "pause", "resume"} : AdminLoad(a, t)
  <2>1. Persists /\ UNCHANGED <<recorded, handler>>
    BY <1>10 DEF AdminLoad, Persists, stripe, repo
  <2>2. AdminInv'
    BY <1>10, NextStateInStates DEF AdminLoad, AdminInv, IInv, TypeOK
  <2> QED BY <1>1, <1>2, <1>3, <2>1, <2>2 DEF IInv
<1>11. CASE \E a \in Admins : AdminSave(a)
  <2>1. PICK a \in Admins : AdminSave(a)
    BY <1>11
  <2>2. Persists /\ UNCHANGED <<recorded, handler>>
    BY <2>1, AbsentIsNoState DEF AdminSave, Persists, stripe, IInv, AdminInv
  <2>3. AdminInv'
    BY <2>1 DEF AdminSave, AdminInv, AdminIdle, IInv, TypeOK
  <2> QED BY <1>1, <1>2, <1>3, <2>2, <2>3 DEF IInv
<1>12. CASE Restart
  <2>1. DispatchInv' /\ AdminInv' /\ RecordedHasEffect'
    BY <1>12 DEF Restart, DispatchInv, DispatchedOK, AdminInv, RecordedHasEffect, Idle, AdminIdle
  <2> QED BY <1>1, <2>1 DEF IInv
<1>13. CASE UNCHANGED vars
  <2>1. Persists /\ UNCHANGED <<recorded, handler, admin>>
    BY <1>13 DEF vars, stripe, repo, Persists
  <2> QED BY <1>1, <1>2, <1>3, <2>1 DEF IInv, AdminInv
<1> QED
  BY <1>5, <1>6, <1>7, <1>8, <1>9, <1>10, <1>11, <1>12, <1>13 DEF Next

\* Whatever races, retries and restarts, an event the repository answers as seen
\* has left its row or its invoice there (processStripeWebhook records after the
\* dispatch has returned nil, and every path to nil stores first).
THEOREM RecordedIsApplied == Spec => []RecordedHasEffect
<1>1. Init => IInv
  BY TypeInit DEF IInv, Init, DispatchInv, DispatchedOK, AdminInv, RecordedHasEffect, Idle,
                  AdminIdle
<1>2. IInv => RecordedHasEffect
  BY DEF IInv
<1> QED BY <1>1, <1>2, EffectStep, PTL DEF Spec

-----------------------------------------------------------------------------
(* Order.  When all is calm, the row after k events is what event k alone says *)
(* it is, since Stripe emits an event about a payment or a deletion only when  *)
(* the row the events before it leave is one the handler's move starts from.   *)

\* The row an event leaves when it is handled in Stripe's order.
RowOf(e) ==
    CASE e.kind = "upsert"  -> MapStripeStatus(e.says)
      [] e.kind = "deleted" -> "canceled"
      [] e.kind = "paid"    -> "active"
      [] e.kind = "failed"  -> "past_due"
RowAfter(k) == IF k = 0 THEN Absent ELSE RowOf(history[k])

\* Event e may come after events that leave the row so.
Follows(row, e) ==
    /\ e.kind \in {"paid", "failed"} => row \in {"active", "past_due"}
    /\ e.kind = "deleted" => row \in {"trialing", "active", "past_due", "paused"}

StatusRow == IF status = Absent THEN Absent ELSE MapStripeStatus(status)

HistoryInv ==
    /\ \A n \in 1 .. Len(history) : Follows(RowAfter(n - 1), history[n])
    /\ RowAfter(Len(history)) = StatusRow

\* What the repository holds of invoice i when it has stored the first k events.
About(i, n) == history[n] \in {Paid(i), Failed(i)}
InvoiceAfter(i, k) ==
    \/ /\ invoice[i] = Absent
       /\ \A n \in 1 .. k : ~About(i, n)
    \/ \E n \in 1 .. k :
           /\ About(i, n) /\ \A m \in n + 1 .. k : ~About(i, m)
           /\ invoice[i] = IF history[n].kind = "paid" THEN "paid" ELSE "uncollectible"

\* The first k events are recorded, and at most one request is at work, on the
\* next one: where it stands, the row and the invoices are as far as it has got.
Answered(k) ==
    /\ k \in 0 .. Len(history) /\ recorded = 1 .. k
    /\ acked \subseteq 1 .. k /\ 1 .. k - 1 \subseteq acked
OneAtWork(k) ==
    \A h \in Handlers : handler[h].pc # "idle" =>
        /\ handler[h].event = k + 1 /\ k \in acked \cup {0}
        /\ \A g \in Handlers \ {h} : handler[g].pc = "idle"
RowAsFar(k) ==
    /\ (\A h \in Handlers : handler[h].pc # "record") => sub = RowAfter(k)
    /\ \A h \in Handlers :
           /\ handler[h].pc = "record" => sub = RowAfter(k + 1)
           /\ handler[h].pc \in {"save", "create"} => handler[h].new = RowAfter(k + 1)
           /\ handler[h].pc = "create" => sub = Absent
InvoicesAsFar(k) ==
    /\ (\A h \in Handlers : handler[h].pc \in {"idle", "invoice"}) =>
           \A i \in Invoices : InvoiceAfter(i, k)
    /\ (\E h \in Handlers : handler[h].pc \notin {"idle", "invoice"}) =>
           \A i \in Invoices : InvoiceAfter(i, k + 1)

InStep(k) == Answered(k) /\ OneAtWork(k) /\ RowAsFar(k) /\ InvoicesAsFar(k)
CalmInv ==
    calm => /\ \A a \in Admins : admin[a].pc = "idle"
            /\ \E k \in 0 .. Len(history) : InStep(k)

\* What Stripe says of a subscription that lives is a row that can still move.
LEMMA MapFacts ==
    /\ \A s \in Statuses : /\ MapStripeStatus(s) \in {"trialing", "active", "past_due", "paused"}
                           /\ s # Absent /\ s # "canceled"
    /\ MapStripeStatus("active") = "active" /\ MapStripeStatus("past_due") = "past_due"
    /\ MapStripeStatus("unpaid") = "past_due" /\ MapStripeStatus("canceled") = "canceled"
<1>1. ASSUME NEW s \in Statuses
      PROVE  /\ MapStripeStatus(s) \in {"trialing", "active", "past_due", "paused"}
             /\ s # Absent /\ s # "canceled"
  <2>1. s \in {"trialing", "active", "past_due", "unpaid", "paused", "incomplete"}
    BY BillingAssumption DEF BillingAssumption
  <2>2. CASE s \in {"trialing", "active", "past_due", "paused"}
    BY <2>2 DEF MapStripeStatus, Absent
  <2>3. CASE s = "unpaid"
    BY <2>3 DEF MapStripeStatus, Absent
  <2>4. CASE s = "incomplete"
    BY <2>4 DEF MapStripeStatus, Absent
  <2> QED BY <2>1, <2>2, <2>3, <2>4
<1>2. /\ MapStripeStatus("active") = "active" /\ MapStripeStatus("past_due") = "past_due"
      /\ MapStripeStatus("unpaid") = "past_due" /\ MapStripeStatus("canceled") = "canceled"
  BY DEF MapStripeStatus
<1> QED BY <1>1, <1>2

\* The row each event leaves.
LEMMA RowsOfEvents ==
    /\ \A s : RowOf(Upserted(s)) = MapStripeStatus(s)
    /\ RowOf(Deleted) = "canceled"
    /\ \A i : RowOf(Paid(i)) = "active" /\ RowOf(Failed(i)) = "past_due"
BY DEF RowOf, Upserted, Deleted, Paid, Failed

\* More history leaves the rows and the invoices of the events before it alone.
LEMMA InStepStays ==
    ASSUME TypeOK, WorkInv, CalmInv, Len(history') \in Nat,
           \A n \in 1 .. Len(history) : n \in 1 .. Len(history') /\ history'[n] = history[n],
           UNCHANGED <<acked, repo, handler, admin, calm>>
    PROVE  CalmInv'
<1> SUFFICES ASSUME calm, NEW k \in 0 .. Len(history), InStep(k)
             PROVE  k \in 0 .. Len(history') /\ InStep(k)'
  BY DEF CalmInv
<1>1. Len(history) \in Nat /\ k \in 0 .. Len(history')
  <2>1. Len(history) \in Nat
    BY DEF TypeOK
  <2>2. CASE k = 0
    BY <2>2
  <2>3. CASE k # 0
    BY <2>1, <2>3
  <2> QED BY <2>1, <2>2, <2>3
<1>2. ASSUME NEW m \in 0 .. Len(history) PROVE RowAfter(m)' = RowAfter(m)
  BY <1>1 DEF RowAfter
<1>3. ASSUME NEW i \in Invoices, NEW m \in 0 .. Len(history), InvoiceAfter(i, m)
      PROVE  InvoiceAfter(i, m)'
  <2>1. \A n \in 1 .. m : history'[n] = history[n] /\ (About(i, n)' <=> About(i, n))
    BY <1>1 DEF About
  <2>2. invoice' = invoice
    BY DEF repo
  <2>3. CASE invoice[i] = Absent /\ \A n \in 1 .. m : ~About(i, n)
    BY <2>1, <2>2, <2>3 DEF InvoiceAfter
  <2>4. ASSUME NEW n \in 1 .. m, About(i, n), \A j \in n + 1 .. m : ~About(i, j),
               invoice[i] = IF history[n].kind = "paid" THEN "paid" ELSE "uncollectible"
        PROVE  InvoiceAfter(i, m)'
    <3>1. \A j \in n + 1 .. m : j \in 1 .. m
      BY <1>1
    <3> QED BY <2>1, <2>2, <2>4, <3>1 DEF InvoiceAfter
  <2> QED BY <1>3, <2>3, <2>4 DEF InvoiceAfter
<1>4. \A h \in Handlers : handler[h].pc # "idle" => k + 1 \in 1 .. Len(history)
  BY DEF WorkInv, InStep, OneAtWork
<1>5. Answered(k)' /\ OneAtWork(k)'
  BY <1>1 DEF InStep, Answered, OneAtWork, repo
<1>6. RowAsFar(k)'
  <2>1. RowAfter(k)' = RowAfter(k) /\ sub' = sub /\ handler' = handler
    BY <1>2 DEF repo
  <2>2. \A h \in Handlers : handler[h].pc # "idle" => RowAfter(k + 1)' = RowAfter(k + 1)
    BY <1>1, <1>2, <1>4
  <2> QED BY <2>1, <2>2 DEF InStep, RowAsFar
<1>7. InvoicesAsFar(k)'
  <2>1. CASE \A h \in Handlers : handler[h].pc \in {"idle", "invoice"}
    BY <1>3, <2>1 DEF InStep, InvoicesAsFar
  <2>2. CASE ~\A h \in Handlers : handler[h].pc \in {"idle", "invoice"}
    <3>1. k + 1 \in 0 .. Len(history)
      BY <1>1, <1>4, <2>2
    <3> QED BY <1>3, <2>2, <3>1 DEF InStep, InvoicesAsFar
  <2> QED BY <2>1, <2>2
<1> QED BY <1>1, <1>5, <1>6, <1>7 DEF InStep

\* Events that follow on the row Stripe's status means keep the history in order.
LEMMA EmitKeepsOrder ==
    ASSUME TypeOK, WorkInv, HistoryInv, CalmInv, NEW s, NEW e \in Seq(Events), Emit(s, e),
           s # Absent, e # <<>>, Follows(StatusRow, e[1]),
           \A j \in 2 .. Len(e) : Follows(RowOf(e[j - 1]), e[j]),
           RowOf(e[Len(e)]) = MapStripeStatus(s)
    PROVE  HistoryInv' /\ CalmInv'
<1>0. PICK l \in Nat : l = Len(history)
  BY DEF TypeOK
<1>1. /\ l \in Nat /\ Len(e) \in Nat \ {0} /\ Len(history') = l + Len(e)
      /\ \A n \in 1 .. l : history'[n] = history[n]
      /\ \A j \in 1 .. Len(e) : history'[l + j] = e[j]
      /\ status' = s
      /\ UNCHANGED <<acked, repo, handler, admin, calm>>
  BY <1>0 DEF TypeOK, Emit
<1>2. CalmInv'
  BY <1>0, <1>1, InStepStays
<1>3. \A n \in 0 .. l : RowAfter(n)' = RowAfter(n)
  BY <1>1 DEF RowAfter
<1>4. ASSUME NEW j \in 1 .. Len(e) PROVE RowAfter(l + j)' = RowOf(e[j])
  <2>1. l + j # 0 /\ history'[l + j] = e[j]
    BY <1>1
  <2> QED BY <2>1 DEF RowAfter
<1>5. ASSUME NEW n \in 1 .. Len(history') PROVE Follows(RowAfter(n - 1)', history'[n])
  <2>1. CASE n \in 1 .. l
    BY <1>0, <1>1, <1>3, <2>1 DEF HistoryInv
  <2>2. CASE n = l + 1
    BY <1>0, <1>1, <1>3, <2>2 DEF HistoryInv
  <2>3. CASE n > l + 1
    <3> DEFINE j == n - l
    <3>1. /\ j \in 2 .. Len(e) /\ j \in 1 .. Len(e) /\ j - 1 \in 1 .. Len(e)
          /\ n = l + j /\ n - 1 = l + (j - 1)
      BY <1>1, <2>3
    <3> HIDE DEF j
    <3>2. RowAfter(l + (j - 1))' = RowOf(e[j - 1]) /\ history'[l + j] = e[j]
      BY <1>1, <1>4, <3>1
    <3> QED BY <3>1, <3>2
  <2> QED BY <1>1, <2>1, <2>2, <2>3
<1>6. RowAfter(Len(history))' = StatusRow'
  <2>1. Len(e) \in 1 .. Len(e) /\ StatusRow' = MapStripeStatus(s)
    BY <1>1 DEF StatusRow
  <2>2. RowAfter(l + Len(e))' = RowOf(e[Len(e)])
    BY <1>4, <2>1
  <2>3. RowAfter(Len(history))' = RowAfter(l + Len(e))'
    BY <1>1 DEF RowAfter
  <2> QED BY <2>1, <2>2, <2>3
<1> QED BY <1>2, <1>5, <1>6 DEF HistoryInv

\* What a request at work may rely on.
LEMMA AtWork ==
    ASSUME TypeOK, WorkInv, NEW k \in 0 .. Len(history), InStep(k), NEW h \in Handlers,
           handler[h].pc # "idle"
    PROVE  /\ handler[h].event = k + 1 /\ k + 1 \in 1 .. Len(history)
           /\ EventOf(h) = history[k + 1] /\ EventOf(h) \in Events
           /\ acked = 1 .. k /\ recorded = 1 .. k
           /\ \A g \in Handlers \ {h} : handler[g].pc = "idle"
           /\ sub = IF handler[h].pc = "record" THEN RowAfter(k + 1) ELSE RowAfter(k)
           /\ handler[h].pc = "invoice" => \A i \in Invoices : InvoiceAfter(i, k)
           /\ handler[h].pc # "invoice" => \A i \in Invoices : InvoiceAfter(i, k + 1)
<1>1. /\ handler[h].event = k + 1 /\ k \in acked \cup {0}
      /\ \A g \in Handlers \ {h} : handler[g].pc = "idle"
  BY DEF InStep, OneAtWork
<1>2. k + 1 \in 1 .. Len(history) /\ EventOf(h) = history[k + 1]
  BY <1>1 DEF WorkInv, EventOf
<1>3. EventOf(h) \in Events
  BY <1>2 DEF TypeOK
<1>4. acked = 1 .. k /\ recorded = 1 .. k
  <2>1. k \in Nat /\ acked \subseteq 1 .. k /\ 1 .. k - 1 \subseteq acked /\ recorded = 1 .. k
    BY DEF InStep, Answered, TypeOK
  <2>2. ASSUME NEW n \in 1 .. k PROVE n \in acked
    BY <1>1, <2>1
  <2> QED BY <2>1, <2>2
<1>5. sub = IF handler[h].pc = "record" THEN RowAfter(k + 1) ELSE RowAfter(k)
  BY <1>1 DEF InStep, RowAsFar
<1>6. /\ handler[h].pc = "invoice" => \A i \in Invoices : InvoiceAfter(i, k)
      /\ handler[h].pc # "invoice" => \A i \in Invoices : InvoiceAfter(i, k + 1)
  BY <1>1 DEF InStep, InvoicesAsFar
<1> QED BY <1>1, <1>2, <1>3, <1>4, <1>5, <1>6

\* It is enough to look at the request that goes on.
LEMMA GoesOn ==
    ASSUME TypeOK, WorkInv, NEW k \in 0 .. Len(history), NEW h \in Handlers,
           NEW p \in {"invoice", "load", "save", "create", "record"}, NEW x,
           k + 1 \in 1 .. Len(history), acked = 1 .. k, recorded = 1 .. k,
           \A g \in Handlers \ {h} : handler[g].pc = "idle",
           handler' = [handler EXCEPT ![h] = [pc |-> p, event |-> k + 1, new |-> x]],
           UNCHANGED <<history, acked, recorded>>,
           sub' = IF p = "record" THEN RowAfter(k + 1) ELSE RowAfter(k),
           p \in {"save", "create"} => x = RowAfter(k + 1),
           p = "create" => sub' = Absent,
           p = "invoice" => \A i \in Invoices : InvoiceAfter(i, k)',
           p # "invoice" => \A i \in Invoices : InvoiceAfter(i, k + 1)'
    PROVE  InStep(k)'
<1>1. /\ handler'[h] = [pc |-> p, event |-> k + 1, new |-> x]
      /\ \A g \in Handlers \ {h} : handler'[g].pc = "idle"
  BY DEF TypeOK
<1>2. Answered(k)'
  BY DEF Answered, TypeOK
<1>3. OneAtWork(k)'
  <2>1. k \in acked' \cup {0}
    BY DEF TypeOK
  <2> QED BY <1>1, <2>1 DEF OneAtWork
<1>4. RowAfter(k)' = RowAfter(k) /\ RowAfter(k + 1)' = RowAfter(k + 1)
  BY DEF RowAfter
<1>5. RowAsFar(k)'
  BY <1>1, <1>4 DEF RowAsFar
<1>6. InvoicesAsFar(k)'
  BY <1>1 DEF InvoicesAsFar
<1> QED BY <1>2, <1>3, <1>5, <1>6 DEF InStep

\* An event that is not about a payment leaves the invoices as they are; one
\* about invoice i is the last word on i.
LEMMA InvoiceMoves ==
    ASSUME TypeOK, NEW k \in 0 .. Len(history), k + 1 \in 1 .. Len(history),
           NEW i \in Invoices, InvoiceAfter(i, k), history' = history,
           \/ ~About(i, k + 1) /\ invoice'[i] = invoice[i]
           \/ About(i, k + 1) /\ invoice'[i] = IF history[k + 1].kind = "paid" THEN "paid"
                                               ELSE "uncollectible"
    PROVE  InvoiceAfter(i, k + 1)'
<1>1. /\ k \in Nat /\ \A n \in 1 .. k + 1 : n = k + 1 \/ n \in 1 .. k
      /\ 1 .. k \subseteq 1 .. k + 1 /\ k + 1 + 1 .. k + 1 = {}
      /\ \A n : About(i, n)' <=> About(i, n)
  <2>1. k \in Nat
    BY DEF TypeOK
  <2> QED BY <2>1 DEF About
<1>2. CASE About(i, k + 1) /\ invoice'[i] = IF history[k + 1].kind = "paid" THEN "paid"
                                            ELSE "uncollectible"
  <2>1. k + 1 \in 1 .. k + 1
    BY <1>1
  <2> QED BY <1>1, <1>2, <2>1 DEF InvoiceAfter
<1>3. CASE ~About(i, k + 1) /\ invoice'[i] = invoice[i]
  <2>1. CASE invoice[i] = Absent /\ \A n \in 1 .. k : ~About(i, n)
    BY <1>1, <1>3, <2>1 DEF InvoiceAfter
  <2>2. ASSUME NEW n \in 1 .. k, About(i, n), \A m \in n + 1 .. k : ~About(i, m),
               invoice[i] = IF history[n].kind = "paid" THEN "paid" ELSE "uncollectible"
        PROVE  InvoiceAfter(i, k + 1)'
    <3>1. \A m \in n + 1 .. k + 1 : m = k + 1 \/ m \in n + 1 .. k
      BY <1>1
    <3>2. \A m \in n + 1 .. k + 1 : ~About(i, m)'
      BY <1>1, <1>3, <2>2, <3>1
    <3> QED BY <1>1, <1>3, <2>2, <3>2 DEF InvoiceAfter
  <2> QED BY <2>1, <2>2 DEF InvoiceAfter
<1> QED BY <1>2, <1>3

\* What Stripe emits follows on what it emitted before.
LEMMA StripeKeepsOrder ==
    ASSUME TypeOK, WorkInv, HistoryInv, CalmInv,
           \/ \E s \in Statuses : StripeReports(s)
           \/ StripeDeletes
           \/ \E i \in Invoices : StripeCollects(i) \/ StripeFailsToCollect(i)
    PROVE  HistoryInv' /\ CalmInv'
<1> USE MapFacts, RowsOfEvents
<1>1. /\ "active" # Absent /\ "past_due" # Absent /\ "canceled" # Absent /\ status \in Statuses \cup {"canceled", Absent}
      /\ \A s : Upserted(s).kind = "upsert" /\ Deleted.kind = "deleted"
      /\ \A i : Paid(i).kind = "paid" /\ Failed(i).kind = "failed"
  BY DEF Absent, TypeOK, Upserted, Deleted, Paid, Failed
<1>2. ASSUME NEW s, NEW x \in Events, Emit(s, <<x>>), s # Absent, Follows(StatusRow, x),
             RowOf(x) = MapStripeStatus(s)
      PROVE  HistoryInv' /\ CalmInv'
  <2>1. <<x>> \in Seq(Events) /\ <<x>> # <<>> /\ <<x>>[1] = x /\ Len(<<x>>) = 1
    BY <1>2
  <2>2. \A j \in 2 .. Len(<<x>>) : Follows(RowOf(<<x>>[j - 1]), <<x>>[j])
    BY <2>1
  <2> HIDE DEF Emit
  <2> QED BY <1>2, <2>1, <2>2, EmitKeepsOrder
<1>3. ASSUME NEW s, NEW x \in Events, NEW y \in Events, Emit(s, <<x, y>>), s # Absent,
             Follows(StatusRow, x), Follows(RowOf(x), y), RowOf(y) = MapStripeStatus(s)
      PROVE  HistoryInv' /\ CalmInv'
  <2>1. /\ <<x, y>> \in Seq(Events) /\ <<x, y>> # <<>> /\ Len(<<x, y>>) = 2
        /\ <<x, y>>[1] = x /\ <<x, y>>[2] = y
    BY <1>3
  <2>2. \A j \in 2 .. Len(<<x, y>>) : Follows(RowOf(<<x, y>>[j - 1]), <<x, y>>[j])
    <3>1. \A j \in 2 .. 2 : j = 2 /\ j - 1 = 1
      OBVIOUS
    <3> QED BY <1>3, <2>1, <3>1
  <2> QED BY <1>3, <2>1, <2>2, EmitKeepsOrder
<1>4. CASE \E s \in Statuses : StripeReports(s)
  <2>1. PICK s \in Statuses : Emit(s, <<Upserted(s)>>)
    BY <1>4 DEF StripeReports
  <2>2. Upserted(s) \in Events /\ Follows(StatusRow, Upserted(s))
    BY <1>1 DEF Events, Follows
  <2> QED BY <1>2, <2>1, <2>2
<1>5. CASE StripeDeletes
  <2>1. Emit("canceled", <<Deleted>>) /\ status \in Statuses /\ Deleted \in Events
    BY <1>1, <1>5 DEF StripeDeletes, Events
  <2>2. Follows(StatusRow, Deleted)
    BY <1>1, <2>1 DEF Follows, StatusRow
  <2> QED BY <1>1, <1>2, <2>1, <2>2
<1>6. CASE \E i \in Invoices : StripeCollects(i) \/ StripeFailsToCollect(i)
  <2>1. PICK i \in Invoices : StripeCollects(i) \/ StripeFailsToCollect(i)
    BY <1>6
  <2>2. /\ Paid(i) \in Events /\ Failed(i) \in Events
        /\ Upserted("active") \in Events /\ Upserted("past_due") \in Events
    BY BillingAssumption DEF Events, BillingAssumption
  <2>3. /\ status = "active" => StatusRow = "active"
        /\ status \in {"past_due", "unpaid"} => StatusRow = "past_due"
    BY <1>1 DEF StatusRow, Absent
  <2>4. /\ \A row : Follows(row, Upserted("active")) /\ Follows(row, Upserted("past_due"))
        /\ \A row \in {"active", "past_due"} : Follows(row, Paid(i)) /\ Follows(row, Failed(i))
    BY <1>1 DEF Follows
  <2>5. CASE status = "active" /\ Emit(status, <<Paid(i)>>)
    BY <1>1, <1>2, <2>2, <2>3, <2>4, <2>5
  <2>6. CASE status \in {"past_due", "unpaid"} /\ Emit("active", <<Paid(i), Upserted("active")>>)
    BY <1>1, <1>3, <2>2, <2>3, <2>4, <2>6
  <2>7. CASE status \in {"past_due", "unpaid"} /\ Emit("active", <<Upserted("active"), Paid(i)>>)
    BY <1>1, <1>3, <2>2, <2>3, <2>4, <2>7
  <2>8. CASE status = "active" /\ Emit("past_due", <<Failed(i), Upserted("past_due")>>)
    BY <1>1, <1>3, <2>2, <2>3, <2>4, <2>8
  <2>9. CASE status = "active" /\ Emit("past_due", <<Upserted("past_due"), Failed(i)>>)
    BY <1>1, <1>3, <2>2, <2>3, <2>4, <2>9
  <2> QED BY <2>1, <2>5, <2>6, <2>7, <2>8, <2>9 DEF StripeCollects, StripeFailsToCollect
<1> QED BY <1>4, <1>5, <1>6

\* In calm an event that is new to the repository is the next one, and all before
\* it are answered.
LEMMA DeliverInStep ==
    ASSUME TypeOK, WorkInv, calm, NEW k \in 0 .. Len(history), InStep(k),
           NEW h \in Handlers, NEW n \in 1 .. MaxEvents, Deliver(h, n)
    PROVE  InStep(k)'
<1>1. /\ k \in Nat /\ n \in 1 .. Len(history) /\ 1 .. n - 1 \subseteq acked
      /\ \A g \in Handlers : handler[g].pc = "idle"
      /\ UNCHANGED <<history, sub, invoice, recorded>>
      /\ recorded = 1 .. k /\ acked \subseteq 1 .. k /\ 1 .. k - 1 \subseteq acked
      /\ sub = RowAfter(k) /\ \A i \in Invoices : InvoiceAfter(i, k)
  BY DEF Deliver, Due, repo, InStep, Answered, RowAsFar, InvoicesAsFar, TypeOK
<1>2. \A i \in Invoices : InvoiceAfter(i, k)'
  BY <1>1 DEF InvoiceAfter, About
<1>3. CASE n \in recorded /\ acked' = acked \cup {n} /\ UNCHANGED handler
  <2>1. Answered(k)'
    BY <1>1, <1>3 DEF Answered
  <2>2. OneAtWork(k)' /\ RowAsFar(k)' /\ InvoicesAsFar(k)'
    BY <1>1, <1>2, <1>3 DEF OneAtWork, RowAsFar, InvoicesAsFar, RowAfter
  <2> QED BY <2>1, <2>2 DEF InStep
<1>4. CASE n \notin recorded /\ Dispatched(h, n) /\ UNCHANGED acked
  <2>1. n = k + 1 /\ acked = 1 .. k
    <3>1. n > k
      BY <1>1, <1>4
    <3>2. \A m \in 1 .. n - 1 : m \in 1 .. k
      BY <1>1
    <3>3. n - 1 <= k
      <4>1. CASE n = 1
        BY <1>1, <4>1
      <4>2. CASE n # 1
        BY <1>1, <3>2, <4>2
      <4> QED BY <4>1, <4>2
    <3>4. n = k + 1 /\ n - 1 = k
      BY <1>1, <3>1, <3>3
    <3>5. 1 .. k \subseteq acked
      BY <1>1, <3>4
    <3> QED BY <1>1, <3>4, <3>5
  <2> DEFINE p == IF history[n].kind \in {"paid", "failed"} THEN "invoice" ELSE "load"
  <2>2. handler' = [handler EXCEPT ![h] = [pc |-> p, event |-> k + 1, new |-> Absent]]
    BY <1>4, <2>1 DEF Dispatched
  <2>3. p # "invoice" => \A i \in Invoices : InvoiceAfter(i, k + 1)'
    <3> SUFFICES ASSUME p # "invoice", NEW i \in Invoices PROVE InvoiceAfter(i, k + 1)'
      OBVIOUS
    <3>1. ~About(i, k + 1)
      BY <2>1 DEF About, Paid, Failed
    <3> QED BY <1>1, <2>1, <3>1, InvoiceMoves
  <2>4. p \in {"invoice", "load"}
    OBVIOUS
  <2> HIDE DEF p
  <2> QED BY <1>1, <1>2, <1>4, <2>1, <2>2, <2>3, <2>4, GoesOn
<1> QED BY <1>3, <1>4 DEF Deliver

\* The moves of the table that events ask for.
LEMMA MovesOfEvents ==
    /\ \A s \in {"trialing", "active", "past_due", "paused"} :
           Legal(s, "cancel") /\ NextState(s, "cancel") = "canceled"
    /\ Legal("past_due", "recover") /\ NextState("past_due", "recover") = "active"
    /\ Legal("active", "mark_past_due") /\ NextState("active", "mark_past_due") = "past_due"
BY DEF Legal, NextState, TransitionTable, States

\* A request that goes on goes on in step.
LEMMA HandlerInStep ==
    ASSUME TypeOK, WorkInv, DispatchInv, HistoryInv, NEW k \in 0 .. Len(history), InStep(k),
           NEW h \in Handlers, HandlerStep(h)
    PROVE  InStep(k)' \/ (k + 1 \in 0 .. Len(history) /\ InStep(k + 1)')
<1> DEFINE e == EventOf(h)
<1>0. handler[h].pc # "idle"
  BY DEF HandlerStep, StoreInvoice, LoadForUpsert, LoadForDelete, LoadForInvoice, Save,
         Create, Record
<1>1. /\ handler[h].event = k + 1 /\ k + 1 \in 1 .. Len(history)
      /\ e = history[k + 1] /\ e \in Events
      /\ acked = 1 .. k /\ recorded = 1 .. k
      /\ \A g \in Handlers \ {h} : handler[g].pc = "idle"
      /\ sub = IF handler[h].pc = "record" THEN RowAfter(k + 1) ELSE RowAfter(k)
      /\ handler[h].pc = "invoice" => \A i \in Invoices : InvoiceAfter(i, k)
      /\ handler[h].pc # "invoice" => \A i \in Invoices : InvoiceAfter(i, k + 1)
  BY <1>0, AtWork
<1>2. /\ k \in Nat /\ k + 1 # 0 /\ RowAfter(k + 1) = RowOf(e)
      /\ Follows(RowAfter(k), e)
  <2>1. k \in Nat /\ k + 1 # 0 /\ (k + 1) - 1 = k
    BY DEF TypeOK
  <2> QED BY <1>1, <2>1 DEF RowAfter, HistoryInv
<1>3. /\ handler[h].pc \in {"save", "create"} => handler[h].new = RowAfter(k + 1)
      /\ handler[h].pc = "create" => sub = Absent
  BY DEF InStep, RowAsFar
<1> HIDE DEF e
<1>4. ASSUME history' = history, NEW m \in Nat
      PROVE  RowAfter(m)' = RowAfter(m)
  BY <1>4 DEF RowAfter
<1>5. ASSUME history' = history, invoice' = invoice, NEW i \in Invoices, InvoiceAfter(i, k + 1)
      PROVE  InvoiceAfter(i, k + 1)'
  BY <1>5 DEF InvoiceAfter, About
<1>6. CASE StoreInvoice(h)
  <2>1. /\ e.kind \in {"paid", "failed"} /\ handler[h].pc = "invoice"
        /\ invoice' = [invoice EXCEPT ![e.says] = IF e.kind = "paid" THEN "paid" ELSE "uncollectible"]
        /\ handler' = [handler EXCEPT ![h] = [pc |-> "load", event |-> k + 1, new |-> Absent]]
        /\ UNCHANGED <<history, acked, sub, recorded>>
    BY <1>1, <1>6 DEF StoreInvoice, DispatchInv, DispatchedOK, Goto, stripe, e
  <2>2. e \in {Paid(e.says), Failed(e.says)} /\ e.says \in Invoices
    <3>1. \/ \E s \in Statuses : e = Upserted(s)
          \/ e = Deleted
          \/ \E i \in Invoices : e = Paid(i) \/ e = Failed(i)
      BY <1>1 DEF Events
    <3>2. PICK i \in Invoices : e = Paid(i) \/ e = Failed(i)
      BY <2>1, <3>1 DEF Upserted, Deleted
    <3>3. e.says = i
      BY <3>2 DEF Paid, Failed
    <3> QED BY <3>2, <3>3
  <2>3. \A i \in Invoices : InvoiceAfter(i, k + 1)'
    <3> TAKE i \in Invoices
    <3>1. CASE i = e.says
      <4>1. About(i, k + 1)
        BY <1>1, <2>2, <3>1 DEF About
      <4>2. invoice'[i] = IF history[k + 1].kind = "paid" THEN "paid" ELSE "uncollectible"
        BY <1>1, <2>1, <3>1 DEF TypeOK
      <4> QED BY <1>1, <2>1, <4>1, <4>2, InvoiceMoves
    <3>2. CASE i # e.says
      <4>1. ~About(i, k + 1) /\ invoice'[i] = invoice[i]
        BY <1>1, <2>1, <2>2, <3>2 DEF About, TypeOK, Paid, Failed
      <4> QED BY <1>1, <2>1, <4>1, InvoiceMoves
    <3> QED BY <3>1, <3>2
  <2> QED BY <1>1, <2>1, <2>3, GoesOn
<1>7. CASE LoadForUpsert(h)
  <2>1. /\ e.kind = "upsert" /\ handler[h].pc = "load"
        /\ UNCHANGED <<history, acked, sub, invoice, recorded>>
    BY <1>7 DEF LoadForUpsert, stripe, repo, e
  <2>2. RowOf(e) = MapStripeStatus(e.says)
    BY <2>1 DEF RowOf
  <2> DEFINE p == IF sub = Absent THEN "create" ELSE "save"
  <2>3. handler' = [handler EXCEPT ![h] = [pc |-> p, event |-> k + 1, new |-> RowOf(e)]]
    BY <1>1, <1>7, <2>2 DEF LoadForUpsert, Goto, e
  <2>4. p \in {"create", "save"} /\ (p = "create" => sub = Absent)
    OBVIOUS
  <2> HIDE DEF p
  <2>5. \A i \in Invoices : InvoiceAfter(i, k + 1)'
    BY <1>1, <1>5, <2>1
  <2> QED BY <1>1, <1>2, <2>1, <2>3, <2>4, <2>5, GoesOn
<1>8. CASE LoadForDelete(h)
  <2>1. /\ e.kind = "deleted" /\ handler[h].pc = "load"
        /\ UNCHANGED <<history, acked, sub, invoice, recorded>>
    BY <1>8 DEF LoadForDelete, stripe, repo, e
  <2>2. sub \in {"trialing", "active", "past_due", "paused"} /\ RowOf(e) = "canceled"
    BY <1>1, <1>2, <2>1 DEF Follows, RowOf
  <2>3. sub # Absent /\ Legal(sub, "cancel") /\ NextState(sub, "cancel") = "canceled"
    BY <2>2, MovesOfEvents DEF Absent
  <2>4. handler' = [handler EXCEPT ![h] = [pc |-> "save", event |-> k + 1, new |-> RowOf(e)]]
    BY <1>1, <1>8, <2>2, <2>3 DEF LoadForDelete, Goto
  <2>5. \A i \in Invoices : InvoiceAfter(i, k + 1)'
    BY <1>1, <1>5, <2>1
  <2> QED BY <1>1, <1>2, <2>1, <2>4, <2>5, GoesOn
<1>9. CASE LoadForInvoice(h)
  <2>1. /\ e.kind \in {"paid", "failed"} /\ handler[h].pc = "load"
        /\ UNCHANGED <<history, acked, sub, invoice, recorded>>
    BY <1>9 DEF LoadForInvoice, stripe, repo, e
  <2>2. /\ sub \in {"active", "past_due"}
        /\ RowOf(e) = IF e.kind = "paid" THEN "active" ELSE "past_due"
    BY <1>1, <1>2, <2>1 DEF Follows, RowOf
  <2> DEFINE moves == sub \in TriedFrom(e.kind) /\ Legal(sub, InvoiceMove(e.kind))
  <2>3. /\ moves => NextState(sub, InvoiceMove(e.kind)) = RowOf(e)
        /\ ~moves => sub = RowOf(e)
    BY <2>1, <2>2, MovesOfEvents DEF TriedFrom, InvoiceMove
  <2>4. handler' = [handler EXCEPT ![h] =
            [pc |-> IF moves THEN "save" ELSE "record", event |-> k + 1,
             new |-> IF moves THEN RowOf(e) ELSE Absent]]
    BY <1>1, <1>9, <2>3 DEF LoadForInvoice, Returns, Goto, e
  <2> HIDE DEF moves
  <2>5. \A i \in Invoices : InvoiceAfter(i, k + 1)'
    BY <1>1, <1>5, <2>1
  <2>6. CASE moves
    BY <1>1, <1>2, <2>1, <2>4, <2>5, <2>6, GoesOn
  <2>7. CASE ~moves
    BY <1>1, <1>2, <2>1, <2>3, <2>4, <2>5, <2>7, GoesOn
  <2> QED BY <2>6, <2>7
<1>10. CASE Save(h) \/ Create(h)
  <2>1. /\ handler[h].pc \in {"save", "create"} /\ sub' = RowAfter(k + 1)
        /\ handler' = [handler EXCEPT ![h] = [pc |-> "record", event |-> k + 1, new |-> Absent]]
        /\ UNCHANGED <<history, acked, invoice, recorded>>
    BY <1>1, <1>3, <1>10 DEF Save, Create, Returns, Goto, stripe
  <2>2. \A i \in Invoices : InvoiceAfter(i, k + 1)'
    BY <1>1, <1>5, <2>1
  <2> QED BY <1>1, <2>1, <2>2, GoesOn
<1>11. CASE Record(h)
  <2>1. /\ handler[h].pc = "record" /\ recorded' = recorded \cup {k + 1}
        /\ acked' \in {acked, acked \cup {k + 1}}
        /\ handler' = [handler EXCEPT ![h] = Idle]
        /\ UNCHANGED <<history, sub, invoice>>
    BY <1>1, <1>11 DEF Record
  <2>2. recorded' = 1 .. k + 1
    BY <1>1, <1>2, <2>1
  <2>3. acked' \subseteq 1 .. k + 1 /\ 1 .. (k + 1) - 1 \subseteq acked'
    BY <1>1, <1>2, <2>1
  <2>4. k + 1 \in 0 .. Len(history)
    BY <1>1, <1>2
  <2>5. Answered(k + 1)'
    BY <2>1, <2>2, <2>3, <2>4 DEF Answered
  <2>6. \A g \in Handlers : handler'[g].pc = "idle"
    BY <1>1, <2>1 DEF TypeOK, Idle
  <2>7. \A i \in Invoices : InvoiceAfter(i, k + 1)'
    BY <1>1, <1>5, <2>1
  <2>8. RowAfter(k + 1)' = RowAfter(k + 1)
    BY <1>2, <1>4, <2>1
  <2>9. OneAtWork(k + 1)' /\ RowAsFar(k + 1)' /\ InvoicesAsFar(k + 1)'
    BY <1>1, <2>1, <2>6, <2>7, <2>8 DEF OneAtWork, RowAsFar, InvoicesAsFar
  <2> QED BY <2>4, <2>5, <2>9 DEF InStep
<1> QED
  BY <1>6, <1>7, <1>8, <1>9, <1>10, <1>11 DEF HandlerStep

LEMMA OrderStep == IInv /\ HistoryInv /\ CalmInv /\ [Next]_vars => (HistoryInv /\ CalmInv)'
<1> SUFFICES ASSUME IInv, HistoryInv, CalmInv, [Next]_vars PROVE (HistoryInv /\ CalmInv)'
  OBVIOUS
<1> USE DEF IInv
<1>1. ASSUME UNCHANGED <<history, status>> PROVE HistoryInv'
  BY <1>1 DEF HistoryInv, RowAfter, StatusRow
<1>2. CASE \/ \E s \in Statuses : StripeReports(s)
           \/ StripeDeletes
           \/ \E i \in Invoices : StripeCollects(i) \/ StripeFailsToCollect(i)
  BY <1>2, StripeKeepsOrder
<1>3. CASE \E h \in Handlers, n \in 1 .. MaxEvents : Deliver(h, n)
  <2>1. PICK h \in Handlers, n \in 1 .. MaxEvents : Deliver(h, n)
    BY <1>3
  <2>2. UNCHANGED <<history, status, admin, calm>>
    BY <2>1 DEF Deliver
  <2>3. CalmInv'
    BY <2>1, <2>2, DeliverInStep DEF CalmInv
  <2> QED BY <1>1, <2>2, <2>3
<1>4. CASE \E h \in Handlers : HandlerStep(h)
  <2>1. PICK h \in Handlers : HandlerStep(h)
    BY <1>4
  <2>2. UNCHANGED <<history, status, admin, calm>>
    BY <2>1 DEF HandlerStep, StoreInvoice, LoadForUpsert, LoadForDelete, LoadForInvoice, Save,
                Create, Record, stripe
  <2>3. CalmInv'
    BY <2>1, <2>2, HandlerInStep DEF CalmInv
  <2> QED BY <1>1, <2>2, <2>3
<1>5. CASE \/ \E a \in Admins, t \in {"cancel", "pause", "resume"} : AdminLoad(a, t)
           \/ \E a \in Admins : AdminSave(a)
           \/ Restart
  <2>1. ~calm' /\ UNCHANGED <<history, status>>
    BY <1>5 DEF AdminLoad, AdminSave, Restart, stripe, CalmInv
  <2> QED BY <1>1, <2>1 DEF CalmInv
<1>6. CASE UNCHANGED vars
  <2>1. UNCHANGED <<history, status, acked, repo, handler, admin, calm>>
    BY <1>6 DEF vars, stripe
  <2>2. Len(history') \in Nat
    BY <2>1 DEF TypeOK
  <2>3. CalmInv'
    BY <2>1, <2>2, InStepStays
  <2> QED BY <1>1, <2>1, <2>3
<1> QED BY <1>2, <1>3, <1>4, <1>5, <1>6 DEF Next

LEMMA OrderInit == Init => HistoryInv /\ CalmInv
<1> SUFFICES ASSUME Init PROVE HistoryInv /\ CalmInv
  OBVIOUS
<1>1. /\ history = <<>> /\ Len(history) = 0 /\ status = Absent /\ acked = {} /\ recorded = {}
      /\ sub = Absent /\ \A i \in Invoices : invoice[i] = Absent
      /\ \A h \in Handlers : handler[h].pc = "idle"
      /\ \A a \in Admins : admin[a].pc = "idle"
  BY DEF Init, Idle, AdminIdle
<1>2. HistoryInv
  BY <1>1 DEF HistoryInv, RowAfter, StatusRow
<1>3. Answered(0)
  BY <1>1 DEF Answered
<1>4. OneAtWork(0) /\ RowAsFar(0) /\ InvoicesAsFar(0)
  BY <1>1 DEF OneAtWork, RowAsFar, InvoicesAsFar, InvoiceAfter, RowAfter
<1>5. 0 \in 0 .. Len(history)
  BY <1>1
<1> QED BY <1>1, <1>2, <1>3, <1>4, <1>5 DEF CalmInv, InStep

\* The last event about an invoice is the one the repository holds it by.
LEMMA LastIsHeld ==
    ASSUME TypeOK, NEW i \in Invoices, InvoiceAfter(i, Len(history))
    PROVE  invoice[i] = CASE LastAbout(i) = "paid" -> "paid"
                          [] LastAbout(i) = "failed" -> "uncollectible"
                          [] OTHER -> Absent
<1> DEFINE about == {n \in 1 .. Len(history) : history[n] \in {Paid(i), Failed(i)}}
<1>1. CASE invoice[i] = Absent /\ \A n \in 1 .. Len(history) : ~About(i, n)
  <2>1. LastAbout(i) = Absent
    BY <1>1 DEF LastAbout, About
  <2> QED BY <1>1, <2>1 DEF Absent
<1>2. ASSUME NEW n \in 1 .. Len(history), About(i, n),
             \A m \in n + 1 .. Len(history) : ~About(i, m),
             invoice[i] = IF history[n].kind = "paid" THEN "paid" ELSE "uncollectible"
      PROVE  invoice[i] = CASE LastAbout(i) = "paid" -> "paid"
                            [] LastAbout(i) = "failed" -> "uncollectible"
                            [] OTHER -> Absent
  <2>1. n \in about /\ \A m \in about : m <= n
    <3>1. Len(history) \in Nat
      BY DEF TypeOK
    <3> QED BY <1>2, <3>1 DEF About
  <2>2. \A x \in about : (\A m \in about : m <= x) => x = n
    BY <2>1
  <2>3. n = CHOOSE x \in about : \A m \in about : m <= x
    BY <2>1, <2>2
  <2>4. LastAbout(i) = history[n].kind
    BY <2>1, <2>3 DEF LastAbout
  <2>5. history[n].kind \in {"paid", "failed"}
    BY <1>2 DEF About, Paid, Failed
  <2> QED BY <1>2, <2>4, <2>5
<1> QED BY <1>1, <1>2 DEF InvoiceAfter

\* In calm, when every event has been answered, the row and the invoices say what
\* Stripe says: however long the history, whatever Stripe repeats and however
\* often the answer to a recorded event is lost.
THEOREM RepositoryMirrors == Spec => []MirrorsStripe
<1>1. Init => IInv
  BY TypeInit DEF IInv, Init, DispatchInv, DispatchedOK, AdminInv, RecordedHasEffect, Idle,
                  AdminIdle
<1>2. IInv /\ HistoryInv /\ CalmInv => MirrorsStripe
  <2> SUFFICES ASSUME IInv, HistoryInv, CalmInv, calm, acked = 1 .. Len(history),
                      \A h \in Handlers : handler[h].pc = "idle"
               PROVE  /\ sub = StatusRow
                      /\ \A i \in Invoices :
                             invoice[i] = CASE LastAbout(i) = "paid" -> "paid"
                                            [] LastAbout(i) = "failed" -> "uncollectible"
                                            [] OTHER -> Absent
    BY DEF MirrorsStripe, StatusRow
  <2>1. PICK k \in 0 .. Len(history) : InStep(k)
    BY DEF CalmInv
  <2>2. k = Len(history)
    <3>1. /\ k \in Nat /\ Len(history) \in Nat /\ k <= Len(history)
          /\ \A n \in 1 .. Len(history) : n \in 1 .. k
      BY <2>1 DEF InStep, Answered, IInv, TypeOK
    <3>2. CASE Len(history) = 0
      BY <3>1, <3>2
    <3>3. CASE Len(history) # 0
      BY <3>1, <3>3
    <3> QED BY <3>2, <3>3
  <2>3. sub = RowAfter(k) /\ \A i \in Invoices : InvoiceAfter(i, k)
    BY <2>1 DEF InStep, RowAsFar, InvoicesAsFar
  <2> QED BY <2>2, <2>3, LastIsHeld DEF IInv, HistoryInv
<1> QED BY <1>1, <1>2, EffectStep, OrderInit, OrderStep, PTL DEF Spec

-----------------------------------------------------------------------------
(* Registration *)

CONSTANTS Email, EmailOf, SlugOf, Kinds, MaxFaults
VARIABLES byEmail, faults

Reg == INSTANCE TenantRegistration

Moving == {"active", "suspended", "archived"}

RowTypes ==
  /\ request \in [Req -> [status : Reg!Statuses \cup {"none"}, tenant : Slug \cup {"none"}]]
  /\ byEmail \in [Email -> Req \cup {"none"}]
  /\ tenant \in [Slug -> [status : {"none", "provisioning"} \cup Moving, by : Call \cup {"none"}]]
CallTypes ==
  call \in [Call -> [kind : Reg!KindsOfCall \cup {"none"}, req : Req \cup {"none"},
                     slug : Slug \cup {"none"}, step : Reg!Steps,
                     read : Reg!Statuses \cup {"none", "suspended", "archived"}]]
FaultTypes == faults \in 0 .. MaxFaults

\* What a call is, is settled when it begins: it is of a slug, and of a request if
\* it verifies or onboards.
Settled ==
  \A c \in Call :
    /\ call[c].step = "new" <=> call[c].kind = "none"
    /\ call[c].step # "new" => call[c].slug \in Slug
    /\ call[c].kind \in {"verify", "onboard", "workflow"} => call[c].req \in Req
    /\ call[c].kind = "verify" => call[c].step \in {"save", "done", "refused"}
    /\ call[c].step = "close" => call[c].kind = "onboard"
    /\ call[c].step = "put" => call[c].read \in Moving
    /\ call[c].step \in {"look", "insert"} => call[c].kind \in Creators
    /\ \A s \in Slug : tenant[s].by = c => call[c].kind \in Creators

\* From its insert on, a creator that was not refused has the tenant of its slug.
Mine == {"get", "put", "close", "done"}
InsertedIsMine ==
  \A c \in Call : call[c].kind \in Creators /\ call[c].step \in Mine =>
    tenant[call[c].slug].by = c

\* An active request names a tenant that an onboarding of it made.
ActiveHasTenant ==
  \A r \in Req : request[r].status = "active" =>
    \E c \in Call : /\ call[c].kind = "onboard" /\ call[c].req = r /\ call[c].slug = request[r].tenant
                    /\ tenant[call[c].slug].by = c

\* A call that was let past MayOnboard, whatever became of it, and the maker of a
\* tenant, is of a request that was verified and has not fallen back.
LetIn(c) == call[c].step # "refused" \/ \E s \in Slug : tenant[s].by = c
OnboardsVerified ==
  \A c \in Call : call[c].kind \in {"onboard", "workflow"} /\ LetIn(c) =>
    request[call[c].req].status \in {"verified", "active"}

RegistrationInv ==
  /\ RowTypes /\ CallTypes /\ FaultTypes /\ Settled
  /\ InsertedIsMine /\ ActiveHasTenant /\ OnboardsVerified

-----------------------------------------------------------------------------
\* A step to another place of a call leaves what the call is alone.
LEMMA GoesKeeps ==
  ASSUME CallTypes, NEW c \in Call, NEW to \in Reg!Steps, Reg!Goes(c, to)
  PROVE  /\ CallTypes'
         /\ call'[c] = [call[c] EXCEPT !.step = to] /\ call'[c].step = to
         /\ call'[c].kind = call[c].kind /\ call'[c].req = call[c].req
         /\ call'[c].slug = call[c].slug /\ call'[c].read = call[c].read
         /\ \A d \in Call \ {c} : call'[d] = call[d]
BY DEF CallTypes, Reg!Goes

\* The call goes on, or gives up, before it has written anything.
LEMMA MoveInv ==
  ASSUME RegistrationInv, NEW c \in Call, NEW to \in {"insert", "refused"}, Reg!Goes(c, to),
         call[c].step # "new", to = "insert" => call[c].step = "look",
         UNCHANGED <<request, byEmail, tenant>>, FaultTypes'
  PROVE  RegistrationInv'
<1> USE DEF RegistrationInv
<1>1. /\ CallTypes' /\ call'[c].step = to
      /\ call'[c].kind = call[c].kind /\ call'[c].req = call[c].req
      /\ call'[c].slug = call[c].slug
      /\ \A d \in Call \ {c} : call'[d] = call[d]
  BY GoesKeeps DEF Reg!Steps
<1>2. RowTypes'
  BY DEF RowTypes
<1>3. Settled'
  BY <1>1 DEF Settled, Creators
<1>4. InsertedIsMine'
  BY <1>1 DEF InsertedIsMine, Mine
<1>5. ActiveHasTenant'
  BY <1>1 DEF ActiveHasTenant
<1>6. OnboardsVerified'
  BY <1>1 DEF OnboardsVerified, LetIn
<1> QED BY <1>1, <1>2, <1>3, <1>4, <1>5, <1>6

\* A call begins: whatever it is, it has made no tenant yet.
LEMMA BeginInv ==
  ASSUME RegistrationInv, NEW c \in Call, call[c].step = "new",
         UNCHANGED <<request, byEmail, tenant, faults>>,
         NEW k \in Reg!KindsOfCall, NEW r \in Req \cup {"none"}, NEW s \in Slug,
         NEW to \in {"save", "look", "get", "refused"}, NEW rd \in Reg!Statuses \cup {"none"},
         call' = [call EXCEPT ![c] = [kind |-> k, req |-> r, slug |-> s, step |-> to, read |-> rd]],
         k \in {"verify", "onboard", "workflow"} => r \in Req,
         k = "verify" => to \in {"save", "refused"},
         to = "save" => k = "verify", to = "look" => k \in Creators,
         to = "get" => k \notin Creators,
         k \in {"onboard", "workflow"} => to = "refused" \/ request[r].status = "verified"
  PROVE  RegistrationInv'
<1> USE DEF RegistrationInv
<1>1. /\ call'[c] = [kind |-> k, req |-> r, slug |-> s, step |-> to, read |-> rd]
      /\ \A d \in Call \ {c} : call'[d] = call[d]
      /\ call[c].kind = "none"
  BY DEF CallTypes, Settled
<1>2. CallTypes'
  <2>1. [kind |-> k, req |-> r, slug |-> s, step |-> to, read |-> rd]
          \in [kind : Reg!KindsOfCall \cup {"none"}, req : Req \cup {"none"},
               slug : Slug \cup {"none"}, step : Reg!Steps,
               read : Reg!Statuses \cup {"none", "suspended", "archived"}]
    BY DEF Reg!Steps
  <2> QED BY <2>1 DEF CallTypes
<1>3. RowTypes' /\ FaultTypes'
  BY DEF RowTypes, FaultTypes
<1>4. Settled'
  <2>1. \A s_1 \in Slug : tenant'[s_1].by # c
    BY <1>1 DEF Settled, Creators
  <2>2. /\ call'[c].step = to /\ to # "new" /\ call'[c].kind = k /\ k # "none"
        /\ call'[c].slug = s /\ call'[c].req = r
        /\ to \notin {"close", "put", "insert"}
    BY <1>1 DEF Reg!KindsOfCall
  <2>3. to = "look" => k \in Creators
    OBVIOUS
  <2> QED BY <1>1, <2>1, <2>2, <2>3 DEF Settled
<1>5. InsertedIsMine'
  BY <1>1 DEF InsertedIsMine, Mine
<1>6. ActiveHasTenant'
  BY <1>1 DEF ActiveHasTenant
<1>7. OnboardsVerified'
  <2> SUFFICES ASSUME NEW d \in Call, call'[d].kind \in {"onboard", "workflow"}, LetIn(d)'
               PROVE  request'[call'[d].req].status \in {"verified", "active"}
    BY DEF OnboardsVerified
  <2>1. CASE d # c
    BY <1>1, <2>1 DEF OnboardsVerified, LetIn
  <2>2. CASE d = c
    BY <1>1, <2>2 DEF LetIn, Settled, Creators
  <2> QED BY <2>1, <2>2
<1> QED BY <1>2, <1>3, <1>4, <1>5, <1>6, <1>7

LEMMA BeginsInv ==
  ASSUME Reg!RegistrationAssumption, RegistrationInv, NEW c \in Call,
         \/ \E r \in Req : Reg!VerifyLoad(c, r) \/ Reg!OnboardLoad(c, r)
         \/ \E s \in Slug :
              \/ Reg!AdminCreate(c, s)
              \/ \E r \in Req : Reg!WorkflowValidate(c, r, s)
              \/ \E k \in {"activate", "suspend", "archive"} : Reg!AdminMove(c, s, k)
  PROVE  RegistrationInv'
<1> USE DEF RegistrationInv
<1>1. ASSUME NEW r \in Req, NEW s \in Slug,
             Reg!VerifyLoad(c, r) \/ Reg!OnboardLoad(c, r) \/ Reg!WorkflowValidate(c, r, s)
      PROVE  RegistrationInv'
  <2>1. /\ call[c].step = "new" /\ request[r].status \in Reg!Statuses /\ SlugOf[r] \in Slug
        /\ UNCHANGED <<request, byEmail, tenant, faults>>
    BY <1>1, Reg!RegistrationAssumption
    DEF Reg!VerifyLoad, Reg!OnboardLoad, Reg!WorkflowValidate, Reg!Begins, Reg!At, RowTypes,
        Reg!RegistrationAssumption
  <2>2. \E k \in {"verify", "onboard", "workflow"}, to \in {"save", "look", "refused"},
           asked \in {SlugOf[r], s} :
          /\ Reg!ReadRequest(c, r, asked, k, to)
          /\ k = "verify" => to \in {"save", "refused"}
          /\ to = "save" => k = "verify"
          /\ to = "look" => k \in {"onboard", "workflow"}
          /\ k \in {"onboard", "workflow"} => to = "refused" \/ request[r].status = "verified"
    BY <1>1 DEF Reg!VerifyLoad, Reg!OnboardLoad, Reg!WorkflowValidate, Reg!MayOnboard
  <2>3. PICK k \in {"verify", "onboard", "workflow"}, to \in {"save", "look", "refused"},
             asked \in {SlugOf[r], s} :
          /\ call' = [call EXCEPT ![c] = [kind |-> k, req |-> r, slug |-> asked,
                                          step |-> to, read |-> request[r].status]]
          /\ k = "verify" => to \in {"save", "refused"}
          /\ to = "save" => k = "verify"
          /\ to = "look" => k \in {"onboard", "workflow"}
          /\ k \in {"onboard", "workflow"} => to = "refused" \/ request[r].status = "verified"
    BY <2>2 DEF Reg!ReadRequest, Reg!CallOf
  <2>4. /\ k \in Reg!KindsOfCall /\ r \in Req \cup {"none"} /\ to \in {"save", "look", "get", "refused"}
        /\ request[r].status \in Reg!Statuses \cup {"none"} /\ asked \in Slug
        /\ to = "look" => k \in Creators
        /\ to # "get"
    BY <2>1, <2>3 DEF Reg!KindsOfCall, Creators
  <2> QED BY <2>1, <2>3, <2>4, BeginInv
<1>2. ASSUME NEW s \in Slug, Reg!AdminCreate(c, s) PROVE RegistrationInv'
  <2>1. call' = [call EXCEPT ![c] = [kind |-> "create", req |-> "none", slug |-> s,
                                     step |-> "look", read |-> "none"]]
    BY <1>2 DEF Reg!AdminCreate, Reg!CallOf
  <2>2. call[c].step = "new" /\ UNCHANGED <<request, byEmail, tenant, faults>>
    BY <1>2 DEF Reg!AdminCreate, Reg!At
  <2>3. "create" \in Reg!KindsOfCall /\ "create" \in Creators
    BY DEF Reg!KindsOfCall, Creators
  <2> QED BY <2>1, <2>2, <2>3, BeginInv
<1>3. ASSUME NEW s \in Slug, NEW k \in {"activate", "suspend", "archive"},
             Reg!AdminMove(c, s, k)
      PROVE  RegistrationInv'
  <2>1. call' = [call EXCEPT ![c] = [kind |-> k, req |-> "none", slug |-> s,
                                     step |-> "get", read |-> "none"]]
    BY <1>3 DEF Reg!AdminMove, Reg!CallOf
  <2>2. call[c].step = "new" /\ UNCHANGED <<request, byEmail, tenant, faults>>
    BY <1>3 DEF Reg!AdminMove, Reg!At
  <2>3. k \in Reg!KindsOfCall /\ k \notin Creators
    BY DEF Reg!KindsOfCall, Creators
  <2> QED BY <2>1, <2>2, <2>3, BeginInv
<1> QED BY <1>1, <1>2, <1>3

-----------------------------------------------------------------------------
LEMMA InitRegistration == Reg!RegistrationAssumption /\ Reg!Init => RegistrationInv
<1> SUFFICES ASSUME Reg!RegistrationAssumption, Reg!Init PROVE RegistrationInv
  OBVIOUS
<1>1. RowTypes
  BY DEF Reg!Init, RowTypes, Reg!NoReq, Reg!NoTenant, Moving
<1>2. CallTypes
  BY DEF Reg!Init, CallTypes, Reg!Idle, Reg!CallOf, Reg!Steps
<1>3. FaultTypes
  BY Reg!RegistrationAssumption DEF Reg!Init, FaultTypes, Reg!RegistrationAssumption
<1>4. \A s \in Slug, c \in Call : tenant[s].by # c
  BY Reg!RegistrationAssumption DEF Reg!Init, Reg!NoTenant, Reg!RegistrationAssumption
<1>5. Settled /\ InsertedIsMine /\ ActiveHasTenant /\ OnboardsVerified
  BY <1>4 DEF Reg!Init, Reg!Idle, Reg!CallOf, Reg!NoReq, Settled, InsertedIsMine, Mine,
              ActiveHasTenant, OnboardsVerified, Creators
<1> QED BY <1>1, <1>2, <1>3, <1>5 DEF RegistrationInv

\* A new request is of no call yet.
LEMMA SubmitInv == ASSUME RegistrationInv, NEW r \in Req, Reg!Submit(r) PROVE RegistrationInv'
<1> USE DEF RegistrationInv
<1>1. /\ request[r].status = "none" /\ UNCHANGED <<tenant, call, faults>>
      /\ request' = [request EXCEPT ![r].status = "pending"]
      /\ byEmail' = [byEmail EXCEPT ![EmailOf[r]] = r]
  BY DEF Reg!Submit
<1>2. RowTypes'
  BY <1>1 DEF RowTypes, Reg!Statuses
<1>3. CallTypes' /\ FaultTypes' /\ Settled' /\ InsertedIsMine'
  BY <1>1 DEF CallTypes, FaultTypes, Settled, InsertedIsMine
<1>4. request'[r].status = "pending" /\ \A q \in Req \ {r} : request'[q] = request[q]
  BY <1>1 DEF RowTypes
<1>5. ActiveHasTenant'
  BY <1>1, <1>4 DEF ActiveHasTenant
<1>6. OnboardsVerified'
  <2> SUFFICES ASSUME NEW c \in Call, call[c].kind \in {"onboard", "workflow"}, LetIn(c)
               PROVE  request'[call[c].req].status \in {"verified", "active"}
    BY <1>1 DEF OnboardsVerified, LetIn
  <2>1. call[c].req \in Req /\ request[call[c].req].status \in {"verified", "active"}
    BY DEF OnboardsVerified, Settled
  <2> QED BY <1>1, <1>4, <2>1
<1> QED BY <1>2, <1>3, <1>5, <1>6

\* What a call writes to its request is verified or active.
LEMMA SaveInv ==
  ASSUME RegistrationInv, NEW c \in Call, Reg!VerifySave(c) \/ Reg!OnboardSave(c)
  PROVE  RegistrationInv'
<1> USE DEF RegistrationInv
<1>1. /\ Reg!Goes(c, "done") /\ UNCHANGED <<byEmail, tenant, faults>>
      /\ call[c].kind \in {"verify", "onboard"} /\ call[c].step \in {"save", "close"}
      /\ call[c].kind = "onboard" => call[c].step = "close"
      /\ request' = [request EXCEPT ![call[c].req] =
                       IF call[c].kind = "verify" THEN [status |-> "verified", tenant |-> "none"]
                       ELSE [status |-> "active", tenant |-> call[c].slug]]
  BY DEF Reg!VerifySave, Reg!OnboardSave, Reg!At
<1>2. /\ CallTypes' /\ call'[c].step = "done"
      /\ call'[c].kind = call[c].kind /\ call'[c].req = call[c].req
      /\ call'[c].slug = call[c].slug
      /\ \A d \in Call \ {c} : call'[d] = call[d]
  BY <1>1, GoesKeeps DEF Reg!Steps
<1>3. call[c].req \in Req /\ call[c].slug \in Slug
  BY <1>1 DEF Settled
<1>4. RowTypes' /\ FaultTypes'
  BY <1>1, <1>3 DEF RowTypes, FaultTypes, Reg!Statuses
<1>5. Settled'
  BY <1>1, <1>2 DEF Settled, Creators
<1>6. InsertedIsMine'
  BY <1>1, <1>2 DEF InsertedIsMine, Mine, Creators
<1>7. ActiveHasTenant'
  <2> SUFFICES ASSUME NEW r \in Req, request'[r].status = "active"
               PROVE  \E d \in Call : /\ call'[d].kind = "onboard" /\ call'[d].req = r
                                     /\ call'[d].slug = request'[r].tenant
                                     /\ tenant'[call'[d].slug].by = d
    BY DEF ActiveHasTenant
  <2>1. CASE r # call[c].req
    <3>1. request'[r] = request[r]
      BY <1>1, <2>1 DEF RowTypes
    <3>2. PICK d \in Call : /\ call[d].kind = "onboard" /\ call[d].req = r
                            /\ call[d].slug = request[r].tenant /\ tenant[call[d].slug].by = d
      BY <3>1 DEF ActiveHasTenant
    <3> QED BY <1>1, <1>2, <3>1, <3>2
  <2>2. CASE r = call[c].req
    <3>1. request'[r] = IF call[c].kind = "verify" THEN [status |-> "verified", tenant |-> "none"]
                        ELSE [status |-> "active", tenant |-> call[c].slug]
      BY <1>1, <1>3, <2>2 DEF RowTypes
    <3>2. call[c].kind = "onboard" /\ request'[r].tenant = call[c].slug
      BY <1>1, <3>1
    <3>3. tenant[call[c].slug].by = c
      BY <1>1, <3>2 DEF InsertedIsMine, Mine, Creators
    <3> QED BY <1>1, <1>2, <2>2, <3>2, <3>3
  <2> QED BY <2>1, <2>2
<1>8. OnboardsVerified'
  <2>1. \A r \in Req : \/ request'[r] = request[r]
                       \/ request'[r].status \in {"verified", "active"}
    BY <1>1, <1>3 DEF RowTypes
  <2>2. \A d \in Call : /\ call'[d].kind = call[d].kind /\ call'[d].req = call[d].req
                        /\ LetIn(d)' => LetIn(d)
    BY <1>1, <1>2 DEF LetIn
  <2> QED BY <2>1, <2>2 DEF OnboardsVerified, Settled
<1> QED BY <1>2, <1>4, <1>5, <1>6, <1>7, <1>8

\* A tenant is made where there was none, by a call that was let in.
LEMMA TenantMadeInv ==
  ASSUME Reg!RegistrationAssumption, RegistrationInv, NEW c \in Call, call[c].step = "insert", Reg!FreeSlug(call[c].slug),
         tenant' = [tenant EXCEPT ![call[c].slug] = Reg!Provisioned(c)],
         NEW to \in {"get", "done", "look"}, Reg!Goes(c, to),
         UNCHANGED <<request, byEmail>>, FaultTypes'
  PROVE  RegistrationInv'
<1> USE DEF RegistrationInv
<1>1. /\ CallTypes' /\ call'[c].step = to
      /\ call'[c].kind = call[c].kind /\ call'[c].req = call[c].req
      /\ call'[c].slug = call[c].slug
      /\ \A d \in Call \ {c} : call'[d] = call[d]
  BY GoesKeeps DEF Reg!Steps
<1>2. call[c].slug \in Slug /\ call[c].kind \in Creators
  BY DEF Settled
<1>3. /\ tenant'[call[c].slug].by = c
      /\ tenant[call[c].slug].by \notin Call
      /\ \A s \in Slug : s # call[c].slug => tenant'[s] = tenant[s]
  BY <1>2, Reg!RegistrationAssumption
  DEF RowTypes, Reg!Provisioned, Reg!FreeSlug, Reg!NoTenant, Reg!RegistrationAssumption
<1>4. RowTypes'
  BY <1>2 DEF RowTypes, Reg!Provisioned
<1>5. Settled'
  BY <1>1, <1>2, <1>3 DEF Settled, Creators
<1>6. InsertedIsMine'
  BY <1>1, <1>3 DEF InsertedIsMine, Mine, Settled
<1>7. ActiveHasTenant'
  <2> SUFFICES ASSUME NEW r \in Req, request[r].status = "active"
               PROVE  \E d \in Call : /\ call'[d].kind = "onboard" /\ call'[d].req = r
                                     /\ call'[d].slug = request[r].tenant
                                     /\ tenant'[call'[d].slug].by = d
    BY DEF ActiveHasTenant
  <2>1. PICK d \in Call : /\ call[d].kind = "onboard" /\ call[d].req = r
                          /\ call[d].slug = request[r].tenant /\ tenant[call[d].slug].by = d
    BY DEF ActiveHasTenant
  <2>2. call[d].slug \in Slug
    BY <2>1 DEF Settled
  <2>3. call[d].slug # call[c].slug
    BY <1>3, <2>1
  <2> QED BY <1>1, <1>3, <2>1, <2>2, <2>3
<1>8. OnboardsVerified'
  <2>1. LetIn(c)
    BY DEF LetIn
  <2>2. \A d \in Call : /\ call'[d].kind = call[d].kind /\ call'[d].req = call[d].req
                        /\ LetIn(d)' => LetIn(d)
    BY <1>1, <1>2, <1>3, <2>1 DEF LetIn
  <2> QED BY <2>2 DEF OnboardsVerified
<1> QED BY <1>1, <1>4, <1>5, <1>6, <1>7, <1>8

\* The table is asked; the call remembers the answer.
LEMMA GetInv == ASSUME RegistrationInv, NEW c \in Call, Reg!GetTenant(c) PROVE RegistrationInv'
<1> USE DEF RegistrationInv
<1>1. /\ call[c].step = "get" /\ UNCHANGED <<request, byEmail, tenant, faults>>
  BY DEF Reg!GetTenant, Reg!At
<1>2. CASE Reg!Goes(c, "refused")
  BY <1>1, <1>2, MoveInv DEF FaultTypes
<1>3. ASSUME NEW to \in Moving, call' = [call EXCEPT ![c].step = "put", ![c].read = to]
      PROVE  RegistrationInv'
  <2>1. /\ CallTypes' /\ call'[c].step = "put" /\ call'[c].read = to
        /\ call'[c].kind = call[c].kind /\ call'[c].req = call[c].req
        /\ call'[c].slug = call[c].slug
        /\ \A d \in Call \ {c} : call'[d] = call[d]
    BY <1>3 DEF CallTypes, Reg!Steps, Moving, Reg!Statuses
  <2>2. RowTypes' /\ FaultTypes'
    BY <1>1 DEF RowTypes, FaultTypes
  <2>3. Settled'
    BY <1>1, <2>1 DEF Settled, Creators
  <2>4. InsertedIsMine'
    BY <1>1, <2>1 DEF InsertedIsMine, Mine
  <2>5. ActiveHasTenant'
    BY <1>1, <2>1 DEF ActiveHasTenant
  <2>6. OnboardsVerified'
    BY <1>1, <2>1 DEF OnboardsVerified, LetIn
  <2> QED BY <2>1, <2>2, <2>3, <2>4, <2>5, <2>6
<1> QED BY <1>2, <1>3 DEF Reg!GetTenant, Moving

\* A move changes the status of a tenant, not its maker.
LEMMA PutInv == ASSUME RegistrationInv, NEW c \in Call, Reg!PutStatus(c) PROVE RegistrationInv'
<1> USE DEF RegistrationInv
<1>1. PICK to \in {"close", "done"} :
        /\ call[c].step = "put" /\ Reg!Goes(c, to) /\ (to = "close" => call[c].kind = "onboard")
        /\ tenant' = [tenant EXCEPT ![call[c].slug].status = call[c].read]
        /\ UNCHANGED <<request, byEmail, faults>>
  BY DEF Reg!PutStatus, Reg!At
<1>2. /\ CallTypes' /\ call'[c].step = to
      /\ call'[c].kind = call[c].kind /\ call'[c].req = call[c].req
      /\ call'[c].slug = call[c].slug
      /\ \A d \in Call \ {c} : call'[d] = call[d]
  BY <1>1, GoesKeeps DEF Reg!Steps
<1>3. call[c].slug \in Slug /\ call[c].read \in Moving
  BY <1>1 DEF Settled
<1>4. RowTypes' /\ FaultTypes'
  BY <1>1, <1>3 DEF RowTypes, FaultTypes
<1>5. \A s \in Slug : tenant'[s].by = tenant[s].by
  BY <1>1 DEF RowTypes
<1>6. Settled'
  BY <1>1, <1>2, <1>5 DEF Settled, Creators
<1>7. InsertedIsMine'
  BY <1>1, <1>2, <1>5 DEF InsertedIsMine, Mine, Settled
<1>8. ActiveHasTenant'
  BY <1>1, <1>2, <1>5 DEF ActiveHasTenant, Settled
<1>9. OnboardsVerified'
  BY <1>1, <1>2, <1>5 DEF OnboardsVerified, LetIn
<1> QED BY <1>2, <1>4, <1>6, <1>7, <1>8, <1>9

LEMMA RegistrationStep ==
  Reg!RegistrationAssumption /\ RegistrationInv /\ [Reg!Next]_(Reg!vars) => RegistrationInv'
<1> SUFFICES ASSUME Reg!RegistrationAssumption, RegistrationInv, [Reg!Next]_(Reg!vars)
             PROVE  RegistrationInv'
  OBVIOUS
<1>1. ASSUME NEW r \in Req, Reg!Submit(r) PROVE RegistrationInv'
  BY <1>1, SubmitInv
<1>2. ASSUME NEW c \in Call, Reg!Proceeds(c) PROVE RegistrationInv'
  <2> USE DEF RegistrationInv
  <2>1. CASE Reg!VerifySave(c) \/ Reg!OnboardSave(c)
    BY <2>1, SaveInv
  <2>2. CASE Reg!Look(c)
    BY <2>2, MoveInv DEF Reg!Look, Reg!At, FaultTypes
  <2>3. CASE Reg!Insert(c)
    BY <2>3, TenantMadeInv DEF Reg!Insert, Reg!At, Reg!AfterInsert, FaultTypes
  <2>4. CASE Reg!InsertRefused(c)
    BY <2>4, MoveInv DEF Reg!InsertRefused, Reg!At, FaultTypes
  <2>5. CASE Reg!GetTenant(c) \/ Reg!PutStatus(c)
    BY <2>5, GetInv, PutInv
  <2> QED BY <1>2, <2>1, <2>2, <2>3, <2>4, <2>5 DEF Reg!Proceeds
<1>3. ASSUME NEW c \in Call, Reg!WorkflowFails(c) \/ Reg!StoreFails(c) PROVE RegistrationInv'
  <2>1. FaultTypes'
    BY <1>3, Reg!RegistrationAssumption
    DEF Reg!WorkflowFails, Reg!StoreFails, RegistrationInv, FaultTypes, Reg!RegistrationAssumption
  <2>2. CASE Reg!StoreFails(c)
    BY <2>1, <2>2, MoveInv DEF Reg!StoreFails
  <2>3. CASE Reg!WorkflowFails(c)
    BY <2>1, <2>3, MoveInv, TenantMadeInv DEF Reg!WorkflowFails, Reg!At
  <2> QED BY <1>3, <2>2, <2>3
<1>4. ASSUME NEW c \in Call,
             \/ \E r \in Req : Reg!VerifyLoad(c, r) \/ Reg!OnboardLoad(c, r)
             \/ \E s \in Slug :
                  \/ Reg!AdminCreate(c, s)
                  \/ \E r \in Req : Reg!WorkflowValidate(c, r, s)
                  \/ \E k \in {"activate", "suspend", "archive"} : Reg!AdminMove(c, s, k)
      PROVE  RegistrationInv'
  BY <1>4, BeginsInv
<1>5. CASE UNCHANGED Reg!vars
  BY <1>5 DEF Reg!vars, RegistrationInv, RowTypes, CallTypes, FaultTypes, Settled, InsertedIsMine, ActiveHasTenant,
              OnboardsVerified, LetIn
<1> QED BY <1>1, <1>2, <1>3, <1>4, <1>5 DEF Reg!Next

-----------------------------------------------------------------------------
\* The invariant holds throughout: every call, fault and save keeps it.
THEOREM RegistrationInvariance == Reg!RegistrationAssumption => (Reg!Spec => []RegistrationInv)
<1> SUFFICES ASSUME Reg!RegistrationAssumption PROVE Reg!Spec => []RegistrationInv
  OBVIOUS
<1>1. Reg!Init => RegistrationInv
  BY InitRegistration
<1>2. RegistrationInv /\ [Reg!Next]_(Reg!vars) => RegistrationInv'
  BY RegistrationStep
<1> QED BY <1>1, <1>2, PTL DEF Reg!Spec

\* Rows and calls keep their types, and no call is left in a step of another kind.
THEOREM RegistrationTypes == Reg!RegistrationAssumption => (Reg!Spec => []Reg!TypeOK)
<1>1. RegistrationInv => Reg!TypeOK
  BY DEF RegistrationInv, RowTypes, CallTypes, FaultTypes, Moving, Reg!TypeOK
<1> QED BY <1>1, RegistrationInvariance, PTL

\* However the look at a slug and the insert of two calls interleave, fail and are
\* repeated, a call that answered with a tenant made it, and an active request
\* names a tenant that was made for it.
THEOREM SlugIsGivenOnce == Reg!RegistrationAssumption => (Reg!Spec => []SlugGivenOnce)
<1>1. RegistrationInv => SlugGivenOnce
  <2> SUFFICES ASSUME RegistrationInv PROVE SlugGivenOnce
    OBVIOUS
  <2>1. ASSUME NEW c \in Call, call[c].kind \in Creators, call[c].step = "done"
        PROVE  tenant[call[c].slug].by = c
    BY <2>1 DEF RegistrationInv, InsertedIsMine, Mine
  <2>2. ASSUME NEW r \in Req, request[r].status = "active"
        PROVE  \E c \in Call : /\ call[c].kind = "onboard" /\ call[c].req = r
                               /\ tenant[request[r].tenant].by = c
    BY <2>2 DEF RegistrationInv, ActiveHasTenant
  <2> QED BY <2>1, <2>2 DEF SlugGivenOnce
<1> QED BY <1>1, RegistrationInvariance, PTL

\* No tenant is made for an address that was not verified, and no late save of a
\* request falls back behind its verification.
THEOREM TenantsAreVerified == Reg!RegistrationAssumption => (Reg!Spec => []TenantIsVerified)
<1>1. RegistrationInv => TenantIsVerified
  BY DEF RegistrationInv, OnboardsVerified, LetIn, TenantIsVerified
<1> QED BY <1>1, RegistrationInvariance, PTL
=============================================================================

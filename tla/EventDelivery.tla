--------------------------- MODULE EventDelivery ---------------------------
(***************************************************************************)
(* Events on their way to the registered webhooks.  Over Redis Streams     *)
(* (internal/eventbus/streams.go) a consumer group hands each event to one *)
(* consumer, which acknowledges it when its handler returns nil; what is   *)
(* not acknowledged and has been idle is claimed by whoever asks next.     *)
(* Over the in-memory bus, the one cmd/mc-api wires (internal/eventbus/    *)
(* memory.go), the publisher runs the handler itself and drops its error.  *)
(* The handler is DeliverEvent of internal/webhook/outbound/service.go: it *)
(* posts the event to every registration and records each result.          *)
(*                                                                         *)
(* Which of the two buses a behaviour runs on is chosen by its first state *)
(* (bus); "consumer" is a StreamsConsumer, or a goroutine that publishes.  *)
(***************************************************************************)
EXTENDS Integers, Sequences, FiniteSets

CONSTANTS
  Event,        \* events, each published once
  Broken,       \* those whose message cannot be parsed
  Reg,          \* webhook registrations
  Founding,     \* those that are there from the start
  Flaky,        \* those whose endpoint may fail, be slow or refuse
  Consumer,
  Buses,        \* the buses to consider, of "streams" and "memory"
  Count,        \* messages of one read
  MaxAttempts,  \* posts of one delivery
  MaxTrouble    \* bound: failed calls of Redis or of the store, overtaken handlers,
                \* crashes, consumers closed, publishers' contexts cancelled

ASSUME DeliveryAssumption ==
  /\ Broken \subseteq Event /\ Founding \cup Flaky \subseteq Reg /\ "none" \notin Reg
  /\ IsFiniteSet(Reg) /\ IsFiniteSet(Consumer)
  /\ Buses \subseteq {"streams", "memory"}
  /\ Count \in Nat \ {0} /\ MaxAttempts \in Nat \ {0}
  /\ MaxTrouble \in Nat

VARIABLES
  bus,
  stream,   \* the messages, in the order of XADD
  group,    \* the consumer group: how many messages it has handed out
  pending,  \* its pending entries: "no", or handed out and how long ago
  acked,    \* events acknowledged; in memory, published with answer nil
  regs,     \* the registrations: "new", "on", "deleted"
  due,      \* of an event that parses, the registrations there when it was published
  results,  \* the recorded deliveries of a registration, per event
  up,       \* "up", "closing": its context is cancelled, "down"
  call,     \* the next call of its read loop: "claim" or "read"
  batch,    \* messages it still has to handle, the one in hand first
  job,      \* where its handler is
  trouble   \* how often something went wrong

redis == <<stream, group, pending, acked>>
store == <<regs, results>>
loop == <<up, call, batch>>
vars == <<bus, redis, due, store, loop, job, trouble>>

NoGroup == -1
Steps == {"idle", "next", "post", "record"}
Outcomes == {"ok", "failed", "cut"}
Free == [step |-> "idle", todo |-> {}, reg |-> "none", tries |-> 0, result |-> "ok"]

Init ==
  /\ bus \in Buses
  /\ stream = <<>> /\ group = NoGroup /\ pending = [e \in Event |-> "no"]
  /\ acked = {} /\ due = [e \in Event |-> {}]
  /\ regs = [r \in Reg |-> IF r \in Founding THEN "on" ELSE "new"]
  /\ results = [r \in Reg |-> [e \in Event |-> [o \in Outcomes |-> 0]]]
  /\ up = [c \in Consumer |-> IF bus = "memory" THEN "up" ELSE "down"]
  /\ call = [c \in Consumer |-> "claim"]
  /\ batch = [c \in Consumer |-> <<>>] /\ job = [c \in Consumer |-> Free]
  /\ trouble = 0

Published == {stream[i] : i \in DOMAIN stream}
InHand(e) == \E c \in Consumer : \E i \in DOMAIN batch[c] : batch[c][i] = e
On == {r \in Reg : regs[r] = "on"}
Trouble == trouble < MaxTrouble /\ trouble' = trouble + 1

-----------------------------------------------------------------------------
(* Registrations and publishers *)

Register(r) ==
  /\ regs[r] = "new"
  /\ regs' = [regs EXCEPT ![r] = "on"]
  /\ UNCHANGED <<bus, redis, due, results, loop, job, trouble>>

\* The deliveries of a registration go with it.
Delete(r) ==
  /\ regs[r] = "on"
  /\ regs' = [regs EXCEPT ![r] = "deleted"]
  /\ results' = [results EXCEPT ![r] = [e \in Event |-> [o \in Outcomes |-> 0]]]
  /\ UNCHANGED <<bus, redis, due, loop, job, trouble>>

Publish(e) ==
  /\ bus = "streams" /\ e \notin Published
  /\ stream' = Append(stream, e)
  /\ due' = [due EXCEPT ![e] = IF e \in Broken THEN {} ELSE On]
  /\ UNCHANGED <<bus, group, pending, acked, store, loop, job, trouble>>

\* In memory the publisher goes on to run the handler.
PublishInMemory(c, e) ==
  /\ bus = "memory" /\ e \notin Published
  /\ up[c] = "up" /\ batch[c] = <<>>
  /\ stream' = Append(stream, e)
  /\ due' = [due EXCEPT ![e] = IF e \in Broken THEN {} ELSE On]
  /\ batch' = [batch EXCEPT ![c] = <<e>>]
  /\ UNCHANGED <<bus, group, pending, acked, store, up, call, job, trouble>>

-----------------------------------------------------------------------------
(* The read loop *)

\* Slip: the group begins with the messages that come after it.
GroupStartNew == Len(stream)

\* XGROUP CREATE ... 0: the group begins with the first message.
GroupStart == 0

\* An existing group is kept: the error of creating it again is dropped.
Subscribe(c) ==
  /\ bus = "streams" /\ up[c] = "down"
  /\ up' = [up EXCEPT ![c] = "up"] /\ call' = [call EXCEPT ![c] = "claim"]
  /\ group' = IF group = NoGroup THEN GroupStart ELSE group
  /\ UNCHANGED <<bus, stream, pending, acked, due, store, batch, job, trouble>>

\* Time: a pending entry reaches the minimum idle time of XAUTOCLAIM.
EntryIdles(e) ==
  /\ pending[e] = "fresh" /\ ~InHand(e)
  /\ pending' = [pending EXCEPT ![e] = "idle"]
  /\ UNCHANGED <<bus, stream, group, acked, due, store, loop, job, trouble>>

\* ... while the consumer that has it is still at work on it, or on those before.
Overtake(e) ==
  /\ pending[e] = "fresh" /\ InHand(e) /\ Trouble
  /\ pending' = [pending EXCEPT ![e] = "idle"]
  /\ UNCHANGED <<bus, stream, group, acked, due, store, loop, job>>

Polls(c, what) ==
  /\ bus = "streams" /\ up[c] = "up" /\ batch[c] = <<>> /\ call[c] = what
  /\ call' = [call EXCEPT ![c] = IF what = "claim" THEN "read" ELSE "claim"]

\* Slip: every pending entry, however long ago it was handed out.
PendingAt == {i \in DOMAIN stream : pending[stream[i]] # "no"}

\* Where in the stream the entries are that may be claimed.
IdleAt == {i \in DOMAIN stream : pending[stream[i]] = "idle"}

\* The first Count of them, in the order of the stream.
FirstIdle ==
  {at \in UNION {[1 .. n -> IdleAt] : n \in 0 .. Count} :
     /\ \A m, n \in DOMAIN at : m < n => at[m] < at[n]
     /\ \A i \in IdleAt \ {at[n] : n \in DOMAIN at} : Len(at) = Count /\ at[Count] < i}

IdleEntries == {[n \in DOMAIN at |-> stream[at[n]]] : at \in FirstIdle}

Unread ==
  SubSeq(stream, group + 1, IF group + Count < Len(stream) THEN group + Count ELSE Len(stream))

HandedOut(s) ==
  pending' = [e \in Event |-> IF \E i \in DOMAIN s : s[i] = e THEN "fresh" ELSE pending[e]]

\* XAUTOCLAIM from 0-0, whoever had the entries.
Claim(c) ==
  /\ Polls(c, "claim")
  /\ \E s \in IdleEntries : HandedOut(s) /\ batch' = [batch EXCEPT ![c] = s]
  /\ UNCHANGED <<bus, stream, group, acked, due, store, up, job, trouble>>

\* XREADGROUP with >.
Read(c) ==
  /\ Polls(c, "read")
  /\ HandedOut(Unread) /\ batch' = [batch EXCEPT ![c] = Unread]
  /\ group' = group + Len(Unread)
  /\ UNCHANGED <<bus, stream, acked, due, store, up, job, trouble>>

\* Redis hands the messages out and the answer is lost.
ReplyLost(c) ==
  /\ Trouble
  /\ \/ /\ Polls(c, "claim") /\ UNCHANGED group
        /\ \E s \in IdleEntries \ {<<>>} : HandedOut(s)
     \/ /\ Polls(c, "read") /\ Unread # <<>>
        /\ HandedOut(Unread) /\ group' = group + Len(Unread)
  /\ UNCHANGED <<bus, stream, acked, due, store, up, batch, job>>

\* A message that does not parse is passed over, and not acknowledged.
SkipUnparsable(c) ==
  /\ batch[c] # <<>> /\ Head(batch[c]) \in Broken
  /\ batch' = [batch EXCEPT ![c] = Tail(@)]
  /\ UNCHANGED <<bus, redis, due, store, up, call, job, trouble>>

-----------------------------------------------------------------------------
(* The handler *)

At(c, step) == batch[c] # <<>> /\ Head(batch[c]) \notin Broken /\ job[c].step = step

\* The handler returns: on to the next message.
HandlerReturns(c) ==
  /\ batch' = [batch EXCEPT ![c] = Tail(@)]
  /\ job' = [job EXCEPT ![c] = Free]

\* Slip: an error of the handler is acknowledged too.
HandlerFailsAcked(c) ==
  /\ HandlerReturns(c)
  /\ pending' = [pending EXCEPT ![Head(batch[c])] = "no"]
  /\ acked' = acked \cup {Head(batch[c])}

\* An error: no acknowledgement.  The in-memory bus answers nil all the same.
HandlerFails(c) ==
  /\ HandlerReturns(c)
  /\ acked' = IF bus = "memory" THEN acked \cup {Head(batch[c])} ELSE acked
  /\ UNCHANGED pending

\* The store fails one of the calls the handler makes.
StoreFails(c) ==
  /\ \/ At(c, "idle")
     \/ At(c, "next") /\ job[c].todo # {}
     \/ At(c, "record")
  /\ Trouble /\ HandlerFails(c)
  /\ UNCHANGED <<bus, stream, group, due, store, up, call>>

List(c) ==
  /\ At(c, "idle")
  /\ job' = [job EXCEPT ![c].step = "next", ![c].todo = On]
  /\ UNCHANGED <<bus, redis, due, store, loop, trouble>>

\* Registrations come in the order of a Go map: any.
LoadSecret(c, r) ==
  /\ At(c, "next") /\ r \in job[c].todo /\ regs[r] = "on"
  /\ job' = [job EXCEPT ![c] = [Free EXCEPT !.step = "post", !.reg = r,
                                           !.todo = job[c].todo \ {r}]]
  /\ UNCHANGED <<bus, redis, due, store, loop, trouble>>

\* The registration was deleted since it was listed: ErrNotFound ends the handler.
SecretGone(c, r) ==
  /\ At(c, "next") /\ r \in job[c].todo /\ regs[r] # "on"
  /\ HandlerFails(c)
  /\ UNCHANGED <<bus, stream, group, due, store, up, call, trouble>>

Ends(c, outcome) == job' = [job EXCEPT ![c].step = "record", ![c].result = outcome]

\* The attempt under way.
Attempt(c) == job[c].tries + 1

\* One attempt.  A cancelled context fails it, and ends the wait for the next.
Post(c) ==
  /\ At(c, "post")
  /\ \/ up[c] = "up" /\ Ends(c, "ok")
     \/ up[c] = "up" /\ job[c].reg \in Flaky /\ Ends(c, "failed")
     \/ /\ up[c] = "up" /\ job[c].reg \in Flaky /\ Attempt(c) < MaxAttempts
        /\ job' = [job EXCEPT ![c].tries = Attempt(c)]
     \/ up[c] = "closing" /\ Ends(c, IF Attempt(c) < MaxAttempts THEN "cut" ELSE "failed")
  /\ UNCHANGED <<bus, redis, due, store, loop, trouble>>

Record(c) ==
  /\ At(c, "record")
  /\ results' = [results EXCEPT ![job[c].reg][Head(batch[c])][job[c].result] = @ + 1]
  /\ job' = [job EXCEPT ![c] = [Free EXCEPT !.step = "next", !.todo = job[c].todo]]
  /\ UNCHANGED <<bus, redis, due, regs, loop, trouble>>

\* The handler returns nil and the entry is acknowledged, unless the consumer's
\* context is cancelled: then the call fails, and its error is dropped.
Acknowledge(c) ==
  /\ At(c, "next") /\ job[c].todo = {}
  /\ HandlerReturns(c)
  /\ IF bus = "streams" /\ up[c] = "closing"
       THEN UNCHANGED <<pending, acked>>
       ELSE /\ pending' = [pending EXCEPT ![Head(batch[c])] = "no"]
            /\ acked' = acked \cup {Head(batch[c])}
  /\ UNCHANGED <<bus, stream, group, due, store, up, call, trouble>>

AcknowledgeFails(c) ==
  /\ bus = "streams" /\ At(c, "next") /\ job[c].todo = {} /\ Trouble
  /\ HandlerReturns(c)
  /\ UNCHANGED <<bus, redis, due, store, up, call>>

-----------------------------------------------------------------------------
(* Close and crash *)

\* Close of the consumer, or the context of the request that published.
Close(c) ==
  /\ up[c] = "up" /\ Trouble
  /\ bus = "memory" => batch[c] # <<>>
  /\ up' = [up EXCEPT ![c] = "closing"]
  /\ UNCHANGED <<bus, redis, due, store, call, batch, job>>

\* The loop finds its context cancelled; a publisher's next request has its own.
Closed(c) ==
  /\ up[c] = "closing" /\ batch[c] = <<>>
  /\ up' = [up EXCEPT ![c] = IF bus = "memory" THEN "up" ELSE "down"]
  /\ UNCHANGED <<bus, redis, due, store, call, batch, job, trouble>>

\* The process of the consumer dies with what it had in hand.
Crash(c) ==
  /\ bus = "streams" /\ up[c] # "down" /\ Trouble
  /\ up' = [up EXCEPT ![c] = "down"]
  /\ batch' = [batch EXCEPT ![c] = <<>>] /\ job' = [job EXCEPT ![c] = Free]
  /\ UNCHANGED <<bus, redis, due, store, call>>

-----------------------------------------------------------------------------
Proceeds(c) ==
  \/ Claim(c) \/ Read(c) \/ SkipUnparsable(c)
  \/ List(c) \/ Post(c) \/ Record(c) \/ Acknowledge(c) \/ Closed(c)
  \/ \E r \in Reg : LoadSecret(c, r) \/ SecretGone(c, r)

Next ==
  \/ \E r \in Reg : Register(r) \/ Delete(r)
  \/ \E e \in Event : Publish(e) \/ EntryIdles(e) \/ Overtake(e)
  \/ \E c \in Consumer :
       \/ Subscribe(c) \/ Proceeds(c)
       \/ ReplyLost(c) \/ StoreFails(c) \/ AcknowledgeFails(c)
       \/ Close(c) \/ Crash(c)
       \/ \E e \in Event : PublishInMemory(c, e)

Spec == Init /\ [][Next]_vars

\* The goroutines run, a consumer that went down is started again, time passes.
FairSpec ==
  /\ Spec
  /\ \A c \in Consumer : WF_vars(Subscribe(c)) /\ WF_vars(Proceeds(c))
  /\ \A e \in Event : WF_vars(EntryIdles(e))

-----------------------------------------------------------------------------
(* Properties *)

TypeOK ==
  /\ bus \in Buses
  /\ stream \in Seq(Event) /\ group \in Nat \cup {NoGroup}
  /\ pending \in [Event -> {"no", "fresh", "idle"}] /\ acked \subseteq Event
  /\ regs \in [Reg -> {"new", "on", "deleted"}]
  /\ due \in [Event -> SUBSET Reg]
  /\ results \in [Reg -> [Event -> [Outcomes -> Nat]]]
  /\ up \in [Consumer -> {"up", "closing", "down"}]
  /\ call \in [Consumer -> {"claim", "read"}]
  /\ batch \in [Consumer -> Seq(Event)]
  /\ job \in [Consumer -> [step : Steps, todo : SUBSET Reg, reg : Reg \cup {"none"},
                           tries : 0 .. MaxAttempts - 1, result : Outcomes]]
  /\ trouble \in 0 .. MaxTrouble

Calm == trouble = 0 /\ \A r \in Reg : regs[r] # "deleted"

\* An acknowledged event has been delivered, or has failed all its attempts, at
\* every registration that was there when it was published and still is,
\* whatever died, was lost, deleted or overtaken on the way (at-least-once,
\* docs/event-bus-architecture.md).  The in-memory bus, which drops the error
\* of DeliverEvent, promises it only where nothing fails and nothing is deleted.
AckedIsServed ==
  bus = "streams" \/ Calm =>
    \A e \in acked : \A r \in due[e] \cap On :
      results[r][e]["ok"] + results[r][e]["failed"] > 0

\* A registration has more than one record of an event only if something went
\* wrong as often: nothing is handed out twice that is still being handled.
RepeatsAreCaused ==
  \A r \in Reg, e \in Event :
    results[r][e]["ok"] + results[r][e]["failed"] + results[r][e]["cut"]
      <= 1 + trouble + Cardinality({d \in Reg : regs[d] = "deleted"})

\* Over Streams an event that parses reaches every registration it was due to,
\* if the endpoint answers: also one published before the group was there, and
\* one whose consumer closed or died.
EveryEventArrives ==
  \A e \in Event \ Broken, r \in Reg \ Flaky :
    bus = "streams" /\ r \in due[e] ~> results[r][e]["ok"] > 0 \/ regs[r] = "deleted"
=============================================================================

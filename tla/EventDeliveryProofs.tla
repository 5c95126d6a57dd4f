------------------------ MODULE EventDeliveryProofs ------------------------
(* Theorems about EventDelivery, for any events, registrations, consumers and *)
(* number of failures, over either bus: what is acknowledged was delivered,   *)
(* and what is delivered more often than once has as many causes.             *)
EXTENDS EventDelivery, SequenceTheorems, FiniteSetTheorems, TLAPS

Job == [step : Steps, todo : SUBSET Reg, reg : Reg \cup {"none"},
        tries : 0 .. MaxAttempts - 1, result : Outcomes]

\* TypeOK, by what disturbs its parts.
BusTypes ==
  /\ bus \in Buses
  /\ stream \in Seq(Event) /\ group \in Nat \cup {NoGroup} /\ group <= Len(stream)
  /\ pending \in [Event -> {"no", "fresh", "idle"}]
  /\ acked \subseteq Event /\ due \in [Event -> SUBSET Reg]
StoreTypes ==
  /\ regs \in [Reg -> {"new", "on", "deleted"}]
  /\ results \in [Reg -> [Event -> [Outcomes -> Nat]]]
LoopTypes ==
  /\ up \in [Consumer -> {"up", "closing", "down"}]
  /\ call \in [Consumer -> {"claim", "read"}]
  /\ batch \in [Consumer -> Seq(Event)]
JobTypes == job \in [Consumer -> Job]
TroubleTypes == trouble \in 0 .. MaxTrouble

\* Only what was published is in hand or acknowledged, and a registration is due
\* an event only if it was made before.
OnlyPublished ==
  /\ acked \subseteq Published
  /\ \A c \in Consumer : \A i \in DOMAIN batch[c] : batch[c][i] \in Published
OnlyRegistered ==
  /\ \A e \in Event : \A r \in due[e] : regs[r] # "new"
  /\ \A c \in Consumer : \A r \in job[c].todo : regs[r] # "new"

\* A consumer that reads has the group, one that is down has nothing in hand, and
\* on the in-memory bus a context is cancelled only by a failure.
LoopInv(c) ==
  /\ bus = "streams" /\ up[c] # "down" => group # NoGroup
  /\ up[c] = "down" => batch[c] = <<>>
  /\ bus = "memory" /\ up[c] = "closing" => trouble > 0

\* The handler is at work on the first message in hand, and a post is cut only by
\* a cancelled context.
JobInv(c) ==
  /\ job[c].step # "idle" => batch[c] # <<>> /\ Head(batch[c]) \notin Broken
  /\ job[c].step \in {"post", "record"} => job[c].reg \in Reg
  /\ job[c].step = "record" /\ job[c].result = "cut" => up[c] = "closing"

Served(r, e) == results[r][e]["ok"] + results[r][e]["failed"] > 0

\* Whose acknowledgement says something of the deliveries.
Promised == bus = "streams" \/ Calm
Promises(c) == (bus = "streams" /\ up[c] = "up") \/ (bus = "memory" /\ Calm)

\* Whom the event in hand is due to is served, or the handler has yet to come to it.
AllInHand(c) ==
  Promises(c) /\ job[c].step # "idle" =>
    \A r \in due[Head(batch[c])] \cap On :
      \/ Served(r, Head(batch[c])) \/ r \in job[c].todo
      \/ job[c].step \in {"post", "record"} /\ job[c].reg = r

AckedInv == Promised => \A e \in acked : \A r \in due[e] \cap On : Served(r, e)

Types == BusTypes /\ StoreTypes /\ LoopTypes /\ JobTypes /\ TroubleTypes

DeliveryInv ==
  /\ Types
  /\ OnlyPublished /\ OnlyRegistered
  /\ \A c \in Consumer : LoopInv(c) /\ JobInv(c) /\ AllInHand(c)
  /\ AckedInv

-----------------------------------------------------------------------------
LEMMA FreeIsAJob == Free \in Job
BY DeliveryAssumption DEF Free, Job, Steps, Outcomes, DeliveryAssumption

LEMMA InitDelivery == Init => DeliveryInv
<1> SUFFICES ASSUME Init PROVE DeliveryInv
  OBVIOUS
<1>1. BusTypes
  BY DeliveryAssumption DEF Init, BusTypes, NoGroup, DeliveryAssumption
<1>2. StoreTypes /\ LoopTypes /\ TroubleTypes
  BY DeliveryAssumption DEF Init, StoreTypes, LoopTypes, TroubleTypes, DeliveryAssumption, Outcomes
<1>3. JobTypes
  BY FreeIsAJob DEF Init, JobTypes
<1>4. OnlyPublished /\ OnlyRegistered
  BY DEF Init, OnlyPublished, OnlyRegistered, Free
<1>5. ASSUME NEW c \in Consumer PROVE LoopInv(c) /\ JobInv(c) /\ AllInHand(c)
  BY DEF Init, LoopInv, JobInv, AllInHand, Free, Published
<1>6. AckedInv
  BY DEF Init, AckedInv
<1> QED BY <1>1, <1>2, <1>3, <1>4, <1>5, <1>6 DEF DeliveryInv, Types

\* Taking the first message off those in hand.
LEMMA BatchTail ==
  ASSUME NEW s \in Seq(Event), s # <<>>
  PROVE  /\ Head(s) \in Event /\ Tail(s) \in Seq(Event)
         /\ 1 \in DOMAIN s /\ Head(s) = s[1]
         /\ \A i \in DOMAIN Tail(s) : i + 1 \in DOMAIN s /\ Tail(s)[i] = s[i + 1]
BY HeadTailProperties

\* What a step of one consumer, and of its handler, leaves as it is.
Frame(c) ==
  /\ UNCHANGED <<bus, stream, due, regs>>
  /\ trouble' \in {trouble, trouble + 1}
  /\ group' = group \/ group' # NoGroup
  /\ \A d \in Consumer \ {c} : up'[d] = up[d] /\ batch'[d] = batch[d] /\ job'[d] = job[d]
  /\ \A r \in Reg, e \in Event : Served(r, e) => Served(r, e)'

LEMMA PromisesOnce ==
  ASSUME Types, trouble' \in {trouble, trouble + 1}, UNCHANGED <<bus, regs>>
  PROVE  /\ Calm' => Calm /\ trouble = 0
         /\ Promised' => Promised
         /\ \A d \in Consumer : up'[d] = up[d] /\ Promises(d)' => Promises(d)
<1>1. trouble \in Nat
  BY DEF Types, TroubleTypes
<1>2. Calm' => Calm /\ trouble = 0
  BY <1>1 DEF Calm
<1> QED BY <1>2 DEF Promised, Promises

\* So it has only its own part of the invariant to keep, and what it acknowledges
\* to answer for.
LEMMA ConsumerStep ==
  ASSUME DeliveryInv, NEW c \in Consumer, Frame(c), Types',
         \A i \in DOMAIN batch'[c] : batch'[c][i] \in Published,
         \A r \in job'[c].todo : regs[r] # "new",
         LoopInv(c)', JobInv(c)', AllInHand(c)',
         \A e \in acked' \ acked :
           e \in Published /\ (Promised' => \A r \in due[e] \cap On : Served(r, e))
  PROVE  DeliveryInv'
<1>1. /\ Calm' => Calm /\ trouble = 0
      /\ Promised' => Promised
      /\ \A d \in Consumer : up'[d] = up[d] /\ Promises(d)' => Promises(d)
  BY PromisesOnce DEF DeliveryInv, Frame
<1>2. On' = On /\ Published' = Published
  BY DEF Frame, On, Published
<1>3. \A e \in Event : due[e] \subseteq Reg
  BY DEF DeliveryInv, Types, BusTypes
<1>4. OnlyPublished'
  <2>1. acked' \subseteq Published'
    BY <1>2 DEF DeliveryInv, OnlyPublished
  <2>2. \A d \in Consumer : \A i \in DOMAIN batch'[d] : batch'[d][i] \in Published'
    BY <1>2 DEF DeliveryInv, OnlyPublished, Frame
  <2> QED BY <2>1, <2>2 DEF OnlyPublished
<1>5. OnlyRegistered'
  BY DEF DeliveryInv, OnlyRegistered, Frame
<1>6. ASSUME NEW d \in Consumer PROVE LoopInv(d)' /\ JobInv(d)' /\ AllInHand(d)'
  <2>1. CASE d = c
    BY <2>1
  <2>2. CASE d # c
    <3>1. LoopInv(d) /\ JobInv(d) /\ AllInHand(d)
      BY DEF DeliveryInv
    <3>2. up'[d] = up[d] /\ batch'[d] = batch[d] /\ job'[d] = job[d]
      BY <2>2 DEF Frame
    <3>3. LoopInv(d)'
      <4>1. trouble \in Nat
        BY DEF DeliveryInv, Types, TroubleTypes
      <4> QED BY <3>1, <3>2, <4>1 DEF LoopInv, Frame
    <3>4. JobInv(d)'
      BY <3>1, <3>2 DEF JobInv
    <3>5. AllInHand(d)'
      <4> SUFFICES ASSUME Promises(d)', job[d].step # "idle",
                          NEW r \in due[Head(batch[d])] \cap On
                   PROVE  \/ Served(r, Head(batch[d]))' \/ r \in job[d].todo
                          \/ job[d].step \in {"post", "record"} /\ job[d].reg = r
        BY <1>2, <3>2 DEF AllInHand, Frame
      <4>1. \/ Served(r, Head(batch[d])) \/ r \in job[d].todo
            \/ job[d].step \in {"post", "record"} /\ job[d].reg = r
        BY <1>1, <3>1, <3>2 DEF AllInHand
      <4>2. Head(batch[d]) \in Event
        BY <3>1, BatchTail DEF JobInv, DeliveryInv, Types, LoopTypes
      <4>3. r \in Reg
        BY DEF On
      <4> QED BY <3>2, <4>1, <4>2, <4>3 DEF Frame, Served
    <3> QED BY <3>3, <3>4, <3>5
  <2> QED BY <2>1, <2>2
<1>7. AckedInv'
  <2> SUFFICES ASSUME Promised', NEW e \in acked', NEW r \in due[e] \cap On
               PROVE  Served(r, e)'
    BY <1>2 DEF AckedInv, Frame
  <2>1. Served(r, e)
    BY <1>1 DEF DeliveryInv, AckedInv
  <2>2. e \in Event /\ r \in Reg
    BY DEF Types, BusTypes, On
  <2> QED BY <2>1, <2>2 DEF Frame
<1> QED BY <1>4, <1>5, <1>6, <1>7 DEF DeliveryInv

-----------------------------------------------------------------------------
\* A registration is due nothing that was published before it, and takes the
\* records it has with it when it goes.
LEMMA RegistrationStep ==
  ASSUME DeliveryInv, NEW r \in Reg, Register(r) \/ Delete(r)
  PROVE  DeliveryInv'
<1>1. /\ UNCHANGED <<bus, stream, group, pending, acked, due, up, call, batch, job, trouble>>
      /\ regs' \in [Reg -> {"new", "on", "deleted"}]
      /\ results' \in [Reg -> [Event -> [Outcomes -> Nat]]]
      /\ regs'[r] # "new" /\ \A q \in Reg \ {r} : regs'[q] = regs[q] /\ results'[q] = results[q]
      /\ \/ regs[r] = "new" /\ results'[r] = results[r]
         \/ regs[r] = "on" /\ regs'[r] = "deleted"
  <2>1. regs \in [Reg -> {"new", "on", "deleted"}] /\ results \in [Reg -> [Event -> [Outcomes -> Nat]]]
    BY DEF DeliveryInv, Types, StoreTypes
  <2>2. CASE Register(r)
    BY <2>1, <2>2 DEF Register, redis, loop
  <2>3. CASE Delete(r)
    <3>1. [e \in Event |-> [o \in Outcomes |-> 0]] \in [Event -> [Outcomes -> Nat]]
      OBVIOUS
    <3> QED BY <2>1, <2>3, <3>1 DEF Delete, redis, loop
  <2> QED BY <2>2, <2>3
<1>2. Types'
  BY <1>1 DEF DeliveryInv, Types, BusTypes, StoreTypes, LoopTypes, JobTypes, TroubleTypes
<1>3. OnlyPublished' /\ OnlyRegistered'
  <2>1. OnlyPublished'
    BY <1>1 DEF DeliveryInv, OnlyPublished, Published
  <2>2. \A q \in Reg : regs[q] # "new" => regs'[q] # "new"
    BY <1>1
  <2>3. /\ \A e \in Event : due[e] \subseteq Reg
        /\ \A c \in Consumer : job[c].todo \subseteq Reg
    BY DEF DeliveryInv, Types, BusTypes, JobTypes, Job
  <2> QED BY <1>1, <2>1, <2>2, <2>3 DEF DeliveryInv, OnlyRegistered
<1>4. /\ Promised' => Promised
      /\ \A c \in Consumer : Promises(c)' => Promises(c)
  BY <1>1 DEF Promised, Promises, Calm
<1>5. ASSUME NEW e \in Event, NEW q \in due[e] \cap On'
      PROVE  q \in due[e] \cap On /\ results'[q] = results[q]
  <2>1. regs[q] # "new" /\ q \in Reg
    BY DEF DeliveryInv, OnlyRegistered, Types, BusTypes
  <2> QED BY <1>1, <2>1, <1>5 DEF On
<1>6. ASSUME NEW c \in Consumer PROVE LoopInv(c)' /\ JobInv(c)' /\ AllInHand(c)'
  <2>1. LoopInv(c) /\ JobInv(c) /\ AllInHand(c)
    BY DEF DeliveryInv
  <2>2. LoopInv(c)' /\ JobInv(c)'
    BY <1>1, <2>1 DEF LoopInv, JobInv
  <2>3. job[c].step # "idle" => Head(batch[c]) \in Event
    BY <2>1, BatchTail DEF JobInv, DeliveryInv, Types, LoopTypes
  <2> QED BY <1>1, <1>4, <1>5, <2>1, <2>2, <2>3 DEF AllInHand, Served
<1>7. AckedInv'
  <2>1. acked \subseteq Event
    BY DEF DeliveryInv, Types, BusTypes
  <2> QED BY <1>1, <1>4, <1>5, <2>1 DEF DeliveryInv, AckedInv, Served
<1> QED BY <1>2, <1>3, <1>6, <1>7 DEF DeliveryInv

\* What is published was neither in hand nor acknowledged.
LEMMA PublishStep ==
  ASSUME DeliveryInv, NEW e \in Event, e \notin Published,
         stream' = Append(stream, e),
         due' = [due EXCEPT ![e] = IF e \in Broken THEN {} ELSE On],
         UNCHANGED <<bus, group, pending, acked, regs, results, up, call, job, trouble>>,
         \/ batch' = batch
         \/ \E c \in Consumer : /\ up[c] = "up" /\ batch[c] = <<>>
                               /\ batch' = [batch EXCEPT ![c] = <<e>>]
  PROVE  DeliveryInv'
<1>1. stream' \in Seq(Event) /\ Len(stream') = Len(stream) + 1 /\ Published' = Published \cup {e}
  <2>1. stream \in Seq(Event)
    BY DEF DeliveryInv, Types, BusTypes
  <2>2. /\ stream' \in Seq(Event) /\ Len(stream') = Len(stream) + 1
        /\ \A i \in 1 .. Len(stream) : stream'[i] = stream[i]
        /\ stream'[Len(stream) + 1] = e
    BY <2>1, AppendProperties
  <2> QED BY <2>1, <2>2 DEF Published
<1>2. Types'
  <2>1. BusTypes'
    <3>1. BusTypes /\ On \subseteq Reg
      BY DEF DeliveryInv, Types, On
    <3>2. due' \in [Event -> SUBSET Reg]
      BY <3>1 DEF BusTypes
    <3>3. group \in Nat \cup {NoGroup} /\ group <= Len(stream')
      BY <1>1, <3>1 DEF BusTypes, NoGroup
    <3> QED BY <1>1, <3>1, <3>2, <3>3 DEF BusTypes
  <2>2. LoopTypes'
    <3>1. <<e>> \in Seq(Event)
      OBVIOUS
    <3> QED BY <3>1 DEF DeliveryInv, Types, LoopTypes
  <2> QED BY <2>1, <2>2 DEF DeliveryInv, Types, StoreTypes, JobTypes, TroubleTypes
<1>3. \A c \in Consumer :
        \/ batch'[c] = batch[c]
        \/ batch[c] = <<>> /\ batch'[c] = <<e>> /\ up[c] = "up"
  BY DEF DeliveryInv, Types, LoopTypes
<1>4. \A d \in Event \ {e} : due'[d] = due[d]
  BY DEF DeliveryInv, Types, BusTypes
<1>5. OnlyPublished'
  <2>1. \A c \in Consumer : \A i \in DOMAIN batch'[c] : batch'[c][i] \in Published'
    <3> SUFFICES ASSUME NEW c \in Consumer, NEW i \in DOMAIN batch'[c]
                 PROVE  batch'[c][i] \in Published \cup {e}
      BY <1>1
    <3>1. CASE batch'[c] = batch[c]
      BY <3>1 DEF DeliveryInv, OnlyPublished
    <3>2. CASE batch'[c] = <<e>>
      BY <3>2
    <3> QED BY <1>3, <3>1, <3>2
  <2> QED BY <1>1, <2>1 DEF DeliveryInv, OnlyPublished
<1>6. OnlyRegistered'
  <2>1. \A r \in due'[e] : regs[r] # "new"
    BY DEF On, DeliveryInv, Types, BusTypes
  <2> QED BY <1>4, <2>1 DEF DeliveryInv, OnlyRegistered
<1>7. ASSUME NEW c \in Consumer PROVE LoopInv(c)' /\ JobInv(c)' /\ AllInHand(c)'
  <2>1. LoopInv(c) /\ JobInv(c) /\ AllInHand(c)
    BY DEF DeliveryInv
  <2>2. CASE batch'[c] = batch[c]
    <3>1. LoopInv(c)' /\ JobInv(c)'
      BY <2>1, <2>2 DEF LoopInv, JobInv
    <3>2. job[c].step # "idle" => Head(batch[c]) \in Published
      BY <2>1, BatchTail DEF JobInv, DeliveryInv, OnlyPublished, Types, LoopTypes
    <3>3. job[c].step # "idle" => due'[Head(batch[c])] = due[Head(batch[c])]
      BY <1>4, <3>2 DEF Published, DeliveryInv, Types, BusTypes
    <3>4. Promises(c)' => Promises(c)
      BY DEF Promises, Calm
    <3>5. \A r, d : Served(r, d)' <=> Served(r, d)
      BY DEF Served
    <3>6. AllInHand(c)'
      BY <2>1, <2>2, <3>3, <3>4 DEF AllInHand, On, Served
    <3> QED BY <3>1, <3>6
  <2>3. CASE batch[c] = <<>> /\ batch'[c] = <<e>> /\ up[c] = "up"
    <3>1. job[c].step = "idle"
      BY <2>1, <2>3 DEF JobInv
    <3> QED BY <2>1, <2>3, <3>1 DEF LoopInv, JobInv, AllInHand
  <2> QED BY <1>3, <2>2, <2>3
<1>8. AckedInv'
  <2>1. acked \subseteq Event \ {e}
    BY DEF DeliveryInv, OnlyPublished, Types, BusTypes
  <2>2. Promised' => Promised
    BY DEF Promised, Calm
  <2> QED BY <1>4, <2>1, <2>2 DEF DeliveryInv, AckedInv, Served, On
<1> QED BY <1>2, <1>5, <1>6, <1>7, <1>8 DEF DeliveryInv

-----------------------------------------------------------------------------
(* The read loop *)

LEMMA UnreadIs ==
  ASSUME Types, group # NoGroup
  PROVE  /\ Unread \in Seq(Event) /\ group \in Nat /\ Len(Unread) \in Nat
         /\ group + Len(Unread) <= Len(stream)
         /\ \A i \in 1 .. Len(Unread) : group + i \in DOMAIN stream /\ Unread[i] = stream[group + i]
<1> DEFINE last == IF group + Count < Len(stream) THEN group + Count ELSE Len(stream)
           n == last - group
<1>1. stream \in Seq(Event) /\ group \in Nat \cup {NoGroup} /\ group <= Len(stream) /\ Count \in Nat
  BY DeliveryAssumption DEF Types, BusTypes, DeliveryAssumption
<1>2. group \in Nat /\ last \in Nat /\ n \in Nat /\ group + n <= Len(stream) /\ Len(stream) \in Nat
  BY <1>1 DEF NoGroup
<1>3. /\ group + 1 \in 1 .. Len(stream) + 1 /\ last \in group .. Len(stream)
      /\ last - (group + 1) + 1 = n /\ (group + 1) - 1 = group
  BY <1>1, <1>2
<1>4. Unread = SubSeq(stream, group + 1, last)
  BY DEF Unread
<1> HIDE DEF last, n
<1>5. /\ Unread \in Seq(Event) /\ Len(Unread) = n
      /\ \A i \in 1 .. n : Unread[i] = stream[(group + 1) + i - 1]
  <2>1. \A i, j : i \in 1 .. Len(stream) + 1 /\ j \in i - 1 .. Len(stream) =>
          /\ SubSeq(stream, i, j) \in Seq(Event) /\ Len(SubSeq(stream, i, j)) = j - i + 1
          /\ \A k \in 1 .. j - i + 1 : SubSeq(stream, i, j)[k] = stream[i + k - 1]
    BY <1>1, SubSeqProperties
  <2> DEFINE first == group + 1
  <2>2. first \in 1 .. Len(stream) + 1 /\ last \in first - 1 .. Len(stream) /\ last - first + 1 = n
    BY <1>3
  <2> HIDE DEF first
  <2>3. /\ SubSeq(stream, first, last) \in Seq(Event) /\ Len(SubSeq(stream, first, last)) = last - first + 1
        /\ \A k \in 1 .. last - first + 1 : SubSeq(stream, first, last)[k] = stream[first + k - 1]
    BY <2>1, <2>2
  <2> USE DEF first
  <2> QED BY <1>4, <2>2, <2>3
<1>6. \A i \in 1 .. n : group + i \in DOMAIN stream /\ (group + 1) + i - 1 = group + i
  BY <1>1, <1>2
<1> QED BY <1>2, <1>5, <1>6

\* What Redis hands out was published.
LEMMA HandedOutWasPublished ==
  ASSUME Types
  PROVE  /\ \A s \in IdleEntries : s \in Seq(Event) /\ \A i \in DOMAIN s : s[i] \in Published
         /\ group # NoGroup =>
              /\ Unread \in Seq(Event) /\ \A i \in DOMAIN Unread : Unread[i] \in Published
              /\ group + Len(Unread) \in Nat /\ group + Len(Unread) <= Len(stream)
<1>1. stream \in Seq(Event) /\ Count \in Nat
  BY DeliveryAssumption DEF Types, BusTypes, DeliveryAssumption
<1>2. ASSUME NEW s \in IdleEntries
      PROVE  s \in Seq(Event) /\ \A i \in DOMAIN s : s[i] \in Published
  <2>1. PICK at \in FirstIdle : s = [n \in DOMAIN at |-> stream[at[n]]]
    BY DEF IdleEntries
  <2>2. PICK n \in 0 .. Count : at \in [1 .. n -> IdleAt]
    BY DEF FirstIdle
  <2>3. n \in Nat /\ \A i \in 1 .. n : at[i] \in DOMAIN stream /\ stream[at[i]] \in Event
    BY <1>1, <2>2 DEF IdleAt
  <2>4. s = [i \in 1 .. n |-> stream[at[i]]]
    BY <2>1, <2>2
  <2> QED BY <2>3, <2>4 DEF Published
<1>3. ASSUME group # NoGroup
      PROVE  /\ Unread \in Seq(Event) /\ \A i \in DOMAIN Unread : Unread[i] \in Published
             /\ group + Len(Unread) \in Nat /\ group + Len(Unread) <= Len(stream)
  BY <1>3, UnreadIs DEF Published
<1> QED BY <1>2, <1>3

\* Time, and what fails between Redis and a consumer, changes what is pending.
LEMMA QuietStep ==
  ASSUME DeliveryInv, UNCHANGED <<bus, stream, group, acked, due, regs, results, up, call, batch, job>>,
         pending' \in [Event -> {"no", "fresh", "idle"}],
         trouble' \in {trouble, trouble + 1}, trouble' \in 0 .. MaxTrouble
  PROVE  DeliveryInv'
<1>1. Types'
  BY DEF DeliveryInv, Types, BusTypes, StoreTypes, LoopTypes, JobTypes, TroubleTypes
<1>2. OnlyPublished' /\ OnlyRegistered'
  BY DEF DeliveryInv, OnlyPublished, OnlyRegistered, Published
<1>3. /\ Calm' => Calm /\ trouble = 0
      /\ Promised' => Promised
      /\ \A d \in Consumer : up'[d] = up[d] /\ Promises(d)' => Promises(d)
  BY PromisesOnce DEF DeliveryInv
<1>4. ASSUME NEW c \in Consumer PROVE LoopInv(c)' /\ JobInv(c)' /\ AllInHand(c)'
  <2>1. LoopInv(c) /\ JobInv(c) /\ AllInHand(c) /\ trouble \in Nat
    BY DEF DeliveryInv, Types, TroubleTypes
  <2> QED BY <1>3, <2>1 DEF LoopInv, JobInv, AllInHand, Served, On
<1>5. AckedInv'
  BY <1>3 DEF DeliveryInv, AckedInv, Served, On
<1> QED BY <1>1, <1>2, <1>4, <1>5 DEF DeliveryInv

\* A consumer that leaves the store as it is and has no handler at work when it is
\* done answers for what it acknowledged.
LEMMA BetweenMessages ==
  ASSUME DeliveryInv, NEW c \in Consumer,
         UNCHANGED <<bus, stream, due, regs, results>>,
         acked' \subseteq Event,
         \A e \in acked' \ acked :
           e \in Published /\ (Promised' => \A r \in due[e] \cap On : Served(r, e)),
         pending' \in [Event -> {"no", "fresh", "idle"}],
         group' = group \/ group' \in Nat, group' <= Len(stream),
         trouble' \in {trouble, trouble + 1}, trouble' \in 0 .. MaxTrouble,
         NEW u \in {"up", "closing", "down"}, up' = [up EXCEPT ![c] = u],
         call' \in [Consumer -> {"claim", "read"}],
         NEW b \in Seq(Event), batch' = [batch EXCEPT ![c] = b],
         \A i \in DOMAIN b : b[i] \in Published,
         job' = job \/ job' = [job EXCEPT ![c] = Free], job'[c].step = "idle",
         bus = "streams" /\ u # "down" => group' # NoGroup,
         u = "down" => b = <<>>,
         bus = "memory" /\ u = "closing" => trouble' > 0
  PROVE  DeliveryInv'
<1>1. Types /\ job'[c] \in {job[c], Free}
  BY DEF DeliveryInv, Types, JobTypes
<1>2. up'[c] = u /\ batch'[c] = b
  BY <1>1 DEF Types, LoopTypes
<1>3. Types'
  <2>1. BusTypes' /\ StoreTypes'
    BY <1>1 DEF Types, BusTypes, StoreTypes
  <2>2. LoopTypes' /\ JobTypes' /\ TroubleTypes'
    BY <1>1, FreeIsAJob DEF Types, LoopTypes, JobTypes, TroubleTypes
  <2> QED BY <2>1, <2>2 DEF Types
<1>4. Frame(c)
  <2>1. group' = group \/ group' # NoGroup
    BY DEF NoGroup
  <2>2. \A d \in Consumer \ {c} : up'[d] = up[d] /\ batch'[d] = batch[d] /\ job'[d] = job[d]
    BY <1>1 DEF Types, LoopTypes, JobTypes
  <2> QED BY <2>1, <2>2 DEF Frame, Served
<1>5. LoopInv(c)' /\ JobInv(c)' /\ AllInHand(c)'
  BY <1>2 DEF LoopInv, JobInv, AllInHand
<1>6. \A r \in job'[c].todo : regs[r] # "new"
  BY <1>1 DEF DeliveryInv, OnlyRegistered, Free
<1> QED BY <1>2, <1>3, <1>4, <1>5, <1>6, ConsumerStep

LEMMA LoopStep ==
  ASSUME DeliveryInv, NEW c \in Consumer,
         \/ Subscribe(c) \/ Claim(c) \/ Read(c) \/ ReplyLost(c) \/ SkipUnparsable(c)
         \/ Close(c) \/ Closed(c) \/ Crash(c)
  PROVE  DeliveryInv'
<1>1. /\ BusTypes /\ LoopTypes /\ JobTypes /\ trouble \in 0 .. MaxTrouble /\ MaxTrouble \in Nat
      /\ LoopInv(c) /\ JobInv(c)
  BY DeliveryAssumption DEF DeliveryInv, Types, TroubleTypes, DeliveryAssumption
<1>2. /\ Trouble => trouble' \in {trouble, trouble + 1} /\ trouble' \in 0 .. MaxTrouble /\ trouble' > 0
      /\ UNCHANGED trouble => trouble' \in {trouble, trouble + 1} /\ trouble' \in 0 .. MaxTrouble
  BY <1>1 DEF Trouble
<1>3. batch[c] = <<>> => job[c].step = "idle"
  BY <1>1 DEF JobInv
<1>4. /\ up[c] \in {"up", "closing", "down"} /\ batch[c] \in Seq(Event) /\ acked \subseteq Event
      /\ \A i \in DOMAIN batch[c] : batch[c][i] \in Published
      /\ up = [up EXCEPT ![c] = up[c]] /\ batch = [batch EXCEPT ![c] = batch[c]]
  BY <1>1 DEF DeliveryInv, OnlyPublished, LoopTypes, BusTypes
<1>5. \A s : HandedOut(s) => pending' \in [Event -> {"no", "fresh", "idle"}]
  BY <1>1 DEF HandedOut, BusTypes
<1>6. \A what : Polls(c, what) =>
        /\ bus = "streams" /\ up[c] = "up" /\ batch[c] = <<>> /\ group # NoGroup
        /\ call' \in [Consumer -> {"claim", "read"}]
  BY <1>1 DEF Polls, LoopTypes, LoopInv
<1>7. CASE Subscribe(c)
  <2>1. /\ bus = "streams" /\ up[c] = "down" /\ up' = [up EXCEPT ![c] = "up"]
        /\ call' = [call EXCEPT ![c] = "claim"]
        /\ group' = IF group = NoGroup THEN GroupStart ELSE group
        /\ UNCHANGED <<bus, stream, pending, acked, due, regs, results, batch, job, trouble>>
    BY <1>7 DEF Subscribe, store
  <2>2. batch[c] = <<>> /\ job[c].step = "idle"
    BY <1>1, <1>3, <2>1 DEF LoopInv
  <2>3. group' \in Nat /\ group' <= Len(stream)
    BY <1>1, <2>1 DEF BusTypes, GroupStart, NoGroup
  <2>4. call' \in [Consumer -> {"claim", "read"}]
    BY <1>1, <2>1 DEF LoopTypes
  <2>5. pending' \in [Event -> {"no", "fresh", "idle"}] /\ group' # NoGroup
    BY <1>1, <2>1, <2>3 DEF BusTypes, NoGroup
  <2> QED BY <1>2, <1>4, <2>1, <2>2, <2>3, <2>4, <2>5, BetweenMessages
<1>8. CASE Claim(c)
  <2>1. PICK s \in IdleEntries : HandedOut(s) /\ batch' = [batch EXCEPT ![c] = s]
    BY <1>8 DEF Claim
  <2>2. Polls(c, "claim") /\ UNCHANGED <<bus, stream, group, acked, due, regs, results, up, job, trouble>>
    BY <1>8 DEF Claim, store
  <2>3. s \in Seq(Event) /\ \A i \in DOMAIN s : s[i] \in Published
    BY <2>1, HandedOutWasPublished DEF DeliveryInv
  <2>4. group <= Len(stream)
    BY <1>1 DEF BusTypes
  <2>5. up[c] = "up" /\ group # NoGroup /\ job[c].step = "idle"
    BY <1>3, <1>6, <2>2
  <2> QED BY <1>2, <1>4, <1>5, <1>6, <2>1, <2>2, <2>3, <2>4, <2>5, BetweenMessages
<1>9. CASE Read(c)
  <2>1. /\ Polls(c, "read") /\ HandedOut(Unread) /\ batch' = [batch EXCEPT ![c] = Unread]
        /\ group' = group + Len(Unread)
        /\ UNCHANGED <<bus, stream, acked, due, regs, results, up, job, trouble>>
    BY <1>9 DEF Read, store
  <2>2. up[c] = "up" /\ group # NoGroup /\ job[c].step = "idle"
    BY <1>3, <1>6, <2>1
  <2>3. /\ Unread \in Seq(Event) /\ \A i \in DOMAIN Unread : Unread[i] \in Published
        /\ group' \in Nat /\ group' <= Len(stream)
    BY <2>1, <2>2, HandedOutWasPublished DEF DeliveryInv
  <2>4. group' # NoGroup
    BY <2>3 DEF NoGroup
  <2> HIDE DEF Unread
  <2> QED BY <1>2, <1>4, <1>5, <1>6, <2>1, <2>2, <2>3, <2>4, BetweenMessages
<1>10. CASE ReplyLost(c)
  <2>1. /\ Trouble /\ UNCHANGED <<bus, stream, acked, due, regs, results, up, batch, job>>
        /\ \/ Polls(c, "claim") /\ UNCHANGED group /\ \E s : HandedOut(s)
           \/ Polls(c, "read") /\ HandedOut(Unread) /\ group' = group + Len(Unread)
    BY <1>10 DEF ReplyLost, store
  <2>2. up[c] = "up" /\ group # NoGroup /\ job[c].step = "idle"
        /\ call' \in [Consumer -> {"claim", "read"}]
    BY <1>3, <1>6, <2>1
  <2>3. (group' = group \/ group' \in Nat) /\ group' <= Len(stream)
    BY <1>1, <2>1, <2>2, HandedOutWasPublished DEF DeliveryInv, BusTypes
  <2>4. group' # NoGroup
    BY <2>2, <2>3 DEF NoGroup
  <2>5. pending' \in [Event -> {"no", "fresh", "idle"}]
    BY <1>5, <2>1
  <2> QED BY <1>2, <1>4, <2>1, <2>2, <2>3, <2>4, <2>5, BetweenMessages
<1>11. CASE SkipUnparsable(c)
  <2>1. /\ batch[c] # <<>> /\ Head(batch[c]) \in Broken
        /\ batch' = [batch EXCEPT ![c] = Tail(batch[c])]
        /\ UNCHANGED <<bus, stream, group, pending, acked, due, regs, results, up, call, job, trouble>>
    BY <1>11 DEF SkipUnparsable, store, redis
  <2>2. /\ Tail(batch[c]) \in Seq(Event)
        /\ \A i \in DOMAIN Tail(batch[c]) : Tail(batch[c])[i] \in Published
    BY <1>4, <2>1, BatchTail
  <2>3. /\ job[c].step = "idle" /\ up[c] # "down"
        /\ bus = "streams" /\ up[c] # "down" => group # NoGroup
        /\ bus = "memory" /\ up[c] = "closing" => trouble > 0
    BY <1>1, <2>1 DEF JobInv, LoopInv
  <2>4. group <= Len(stream) /\ pending \in [Event -> {"no", "fresh", "idle"}]
        /\ call \in [Consumer -> {"claim", "read"}]
    BY <1>1 DEF BusTypes, LoopTypes
  <2> QED BY <1>2, <1>4, <2>1, <2>2, <2>3, <2>4, BetweenMessages
<1>12. CASE Close(c)
  <2>1. /\ Trouble /\ up' = [up EXCEPT ![c] = "closing"]
        /\ UNCHANGED <<bus, stream, group, pending, acked, due, regs, results, call, batch, job>>
    BY <1>12 DEF Close, store, redis
  <2>2. trouble' \in {trouble, trouble + 1} /\ trouble' \in 0 .. MaxTrouble /\ trouble' > 0
    BY <1>2, <2>1
  <2>3. up'[c] = "closing" /\ \A d \in Consumer \ {c} : up'[d] = up[d]
    BY <1>1, <2>1 DEF LoopTypes
  <2>4. Types'
    BY <1>1, <2>1, <2>2 DEF DeliveryInv, Types, BusTypes, StoreTypes, LoopTypes, JobTypes, TroubleTypes
  <2>5. Frame(c)
    BY <2>1, <2>2, <2>3 DEF Frame, Served
  <2>6. LoopInv(c)' /\ JobInv(c)'
    <3>1. up[c] = "up"
      BY <1>12 DEF Close
    <3> QED BY <1>1, <2>1, <2>2, <2>3, <3>1 DEF LoopInv, JobInv
  <2>7. AllInHand(c)'
    BY <2>2, <2>3 DEF AllInHand, Promises, Calm
  <2>8. \A r \in job'[c].todo : regs[r] # "new"
    BY <2>1 DEF DeliveryInv, OnlyRegistered
  <2> QED BY <1>4, <2>1, <2>4, <2>5, <2>6, <2>7, <2>8, ConsumerStep
<1>13. CASE Closed(c)
  <2>1. /\ up[c] = "closing" /\ batch[c] = <<>>
        /\ up' = [up EXCEPT ![c] = IF bus = "memory" THEN "up" ELSE "down"]
        /\ UNCHANGED <<bus, stream, group, pending, acked, due, regs, results, call, batch, job, trouble>>
    BY <1>13 DEF Closed, store, redis
  <2>2. bus \in {"streams", "memory"}
    BY <1>1, DeliveryAssumption DEF BusTypes, DeliveryAssumption
  <2>3. group <= Len(stream) /\ pending \in [Event -> {"no", "fresh", "idle"}]
        /\ call \in [Consumer -> {"claim", "read"}] /\ job[c].step = "idle"
    BY <1>1, <1>3, <2>1 DEF BusTypes, LoopTypes
  <2>4. CASE bus = "memory"
    BY <1>2, <1>4, <2>1, <2>3, <2>4, BetweenMessages
  <2>5. CASE bus = "streams"
    BY <1>2, <1>4, <2>1, <2>3, <2>5, BetweenMessages
  <2> QED BY <2>2, <2>4, <2>5
<1>14. CASE Crash(c)
  <2>1. /\ bus = "streams" /\ Trouble /\ up' = [up EXCEPT ![c] = "down"]
        /\ batch' = [batch EXCEPT ![c] = <<>>] /\ job' = [job EXCEPT ![c] = Free]
        /\ UNCHANGED <<bus, stream, group, pending, acked, due, regs, results, call>>
    BY <1>14 DEF Crash, store, redis
  <2>2. group <= Len(stream) /\ pending \in [Event -> {"no", "fresh", "idle"}]
        /\ call \in [Consumer -> {"claim", "read"}]
    BY <1>1 DEF BusTypes, LoopTypes
  <2>3. job'[c].step = "idle" /\ <<>> \in Seq(Event) /\ \A i \in DOMAIN <<>> : <<>>[i] \in Published
    BY <1>1, <2>1 DEF JobTypes, Free
  <2> QED BY <1>2, <1>4, <2>1, <2>2, <2>3, BetweenMessages
<1> QED BY <1>7, <1>8, <1>9, <1>10, <1>11, <1>12, <1>13, <1>14

-----------------------------------------------------------------------------
(* The handler *)

\* The handler returns, with the event acknowledged or not.
LEMMA ReturnStep ==
  ASSUME DeliveryInv, NEW c \in Consumer,
         StoreFails(c) \/ Acknowledge(c) \/ AcknowledgeFails(c) \/ \E r \in Reg : SecretGone(c, r)
  PROVE  DeliveryInv'
<1> DEFINE e == Head(batch[c])
<1>1. /\ BusTypes /\ LoopTypes /\ JobTypes /\ trouble \in 0 .. MaxTrouble /\ MaxTrouble \in Nat
      /\ LoopInv(c) /\ JobInv(c) /\ AllInHand(c)
  BY DeliveryAssumption DEF DeliveryInv, Types, TroubleTypes, DeliveryAssumption
<1>2. /\ batch[c] # <<>> /\ batch[c] \in Seq(Event) /\ e \in Event /\ e \in Published
      /\ Tail(batch[c]) \in Seq(Event)
      /\ \A i \in DOMAIN Tail(batch[c]) : Tail(batch[c])[i] \in Published
  <2>1. batch[c] # <<>>
    BY DEF StoreFails, Acknowledge, AcknowledgeFails, SecretGone, At
  <2>2. batch[c] \in Seq(Event) /\ \A i \in DOMAIN batch[c] : batch[c][i] \in Published
    BY <1>1 DEF DeliveryInv, OnlyPublished, LoopTypes
  <2> QED BY <2>1, <2>2, BatchTail
<1>3. /\ batch' = [batch EXCEPT ![c] = Tail(batch[c])] /\ job' = [job EXCEPT ![c] = Free]
      /\ UNCHANGED <<bus, stream, group, due, regs, results, up, call>>
      /\ trouble' \in {trouble, trouble + 1} /\ trouble' \in 0 .. MaxTrouble
  <2>1. HandlerReturns(c) /\ UNCHANGED <<bus, stream, group, due, regs, results, up, call>>
        /\ (Trouble \/ UNCHANGED trouble)
    BY DEF StoreFails, Acknowledge, AcknowledgeFails, SecretGone, HandlerFails, redis, store
  <2> QED BY <1>1, <2>1 DEF HandlerReturns, Trouble
<1>4. up[c] # "down"
  BY <1>1, <1>2 DEF LoopInv
<1>5. pending' = pending \/ pending' = [pending EXCEPT ![e] = "no"]
  BY DEF StoreFails, Acknowledge, AcknowledgeFails, SecretGone, HandlerFails, redis
<1>6. /\ acked' \subseteq acked \cup {e}
      /\ acked' # acked /\ Promised' => \A r \in due[e] \cap On : Served(r, e)
  <2>1. CASE StoreFails(c)
    <3>1. acked' = (IF bus = "memory" THEN acked \cup {e} ELSE acked) /\ trouble' > 0
      BY <1>1, <2>1 DEF StoreFails, HandlerFails, Trouble
    <3>2. ~Calm' /\ bus' = bus
      BY <1>3, <3>1 DEF Calm
    <3> QED BY <3>1, <3>2 DEF Promised
  <2>2. CASE \E r \in Reg : SecretGone(c, r)
    <3>1. PICK r \in Reg : SecretGone(c, r)
      BY <2>2
    <3>2. acked' = (IF bus = "memory" THEN acked \cup {e} ELSE acked)
      BY <3>1 DEF SecretGone, HandlerFails
    <3>3. regs[r] = "deleted"
      BY <3>1 DEF SecretGone, DeliveryInv, OnlyRegistered, Types, StoreTypes
    <3>4. ~Calm' /\ bus' = bus
      BY <1>3, <3>3 DEF Calm
    <3> QED BY <3>2, <3>4 DEF Promised
  <2>3. CASE Acknowledge(c)
    <3>1. /\ job[c].step = "next" /\ job[c].todo = {}
          /\ acked' \subseteq acked \cup {e}
          /\ acked' # acked => ~(bus = "streams" /\ up[c] = "closing")
      BY <2>3 DEF Acknowledge, At
    <3>2. bus \in {"streams", "memory"} /\ up[c] \in {"up", "closing"}
      BY <1>1, <1>4, DeliveryAssumption DEF BusTypes, LoopTypes, DeliveryAssumption
    <3>3. Promised' => Promised
      BY <1>3, PromisesOnce DEF DeliveryInv
    <3>4. acked' # acked /\ Promised' => Promises(c)
      BY <3>1, <3>2, <3>3 DEF Promised, Promises
    <3> QED BY <1>1, <3>1, <3>4 DEF AllInHand
  <2>4. CASE AcknowledgeFails(c)
    BY <2>4 DEF AcknowledgeFails, redis
  <2> QED BY <2>1, <2>2, <2>3, <2>4
<1>7. /\ acked' \subseteq Event
      /\ \A d \in acked' \ acked :
           d \in Published /\ (Promised' => \A r \in due[d] \cap On : Served(r, d))
  BY <1>1, <1>2, <1>6 DEF BusTypes
<1>8. /\ pending' \in [Event -> {"no", "fresh", "idle"}] /\ group <= Len(stream)
      /\ call \in [Consumer -> {"claim", "read"}]
      /\ up[c] \in {"up", "closing", "down"} /\ up = [up EXCEPT ![c] = up[c]]
  BY <1>1, <1>5 DEF BusTypes, LoopTypes
<1>9. job'[c].step = "idle"
  BY <1>1, <1>3 DEF JobTypes, Free
<1>10. /\ bus = "streams" /\ up[c] # "down" => group # NoGroup
       /\ bus = "memory" /\ up[c] = "closing" => trouble' > 0
  BY <1>1, <1>3 DEF LoopInv
<1> HIDE DEF e
<1> QED BY <1>2, <1>3, <1>4, <1>7, <1>8, <1>9, <1>10, BetweenMessages

\* The handler goes on with the event it has in hand.
LEMMA HandlingStep ==
  ASSUME DeliveryInv, NEW c \in Consumer,
         List(c) \/ Post(c) \/ Record(c) \/ \E r \in Reg : LoadSecret(c, r)
  PROVE  DeliveryInv'
<1> DEFINE e == Head(batch[c])
<1>1. /\ BusTypes /\ StoreTypes /\ LoopTypes /\ JobTypes
      /\ LoopInv(c) /\ JobInv(c) /\ AllInHand(c)
  BY DEF DeliveryInv, Types
<1>2. /\ batch[c] # <<>> /\ e \in Event /\ e \notin Broken
      /\ \A i \in DOMAIN batch[c] : batch[c][i] \in Published
      /\ job[c] \in Job /\ \A r \in job[c].todo : regs[r] # "new"
  <2>1. batch[c] # <<>> /\ e \notin Broken
    BY DEF List, Post, Record, LoadSecret, At
  <2>2. batch[c] \in Seq(Event) /\ \A i \in DOMAIN batch[c] : batch[c][i] \in Published
    BY <1>1 DEF DeliveryInv, OnlyPublished, LoopTypes
  <2>3. job[c] \in Job /\ \A r \in job[c].todo : regs[r] # "new"
    BY <1>1 DEF JobTypes, DeliveryInv, OnlyRegistered
  <2> QED BY <2>1, <2>2, <2>3, BatchTail
<1>3. /\ UNCHANGED <<bus, stream, group, pending, acked, due, regs, up, call, batch, trouble>>
      /\ \E j : job' = [job EXCEPT ![c] = j]
  BY DEF List, Post, Record, LoadSecret, redis, store, loop, Ends
<1>4. \A d \in Consumer \ {c} : job'[d] = job[d]
  BY <1>1, <1>3 DEF JobTypes
<1>5. ASSUME job'[c] \in Job, StoreTypes',
             \A r \in Reg, d \in Event : Served(r, d) => Served(r, d)',
             \A r \in job'[c].todo : regs[r] # "new", JobInv(c)', AllInHand(c)'
      PROVE  DeliveryInv'
  <2>1. Types'
    <3>1. job' \in [Consumer -> Job]
      BY <1>1, <1>3, <1>5 DEF JobTypes
    <3> QED BY <1>3, <1>5, <3>1
            DEF DeliveryInv, Types, BusTypes, LoopTypes, JobTypes, TroubleTypes
  <2>2. Frame(c) /\ LoopInv(c)'
    BY <1>1, <1>3, <1>4, <1>5 DEF Frame, LoopInv
  <2>3. /\ \A i \in DOMAIN batch'[c] : batch'[c][i] \in Published
        /\ acked' \ acked = {}
    BY <1>2, <1>3
  <2> QED BY <1>5, <2>1, <2>2, <2>3, ConsumerStep
<1>6. UNCHANGED results => StoreTypes' /\ \A r \in Reg, d \in Event : Served(r, d) => Served(r, d)'
  BY <1>1, <1>3 DEF StoreTypes, Served
<1>7. Promises(c)' => Promises(c)
  BY <1>3 DEF Promises, Calm
<1>8. On \subseteq Reg /\ (\A r \in On : regs[r] # "new") /\ due[e] \subseteq Reg
  BY <1>1, <1>2 DEF On, BusTypes
<1>9. CASE List(c)
  <2>1. job[c].step = "idle" /\ job'[c] = [job[c] EXCEPT !.step = "next", !.todo = On] /\ UNCHANGED results
    BY <1>1, <1>9 DEF List, At, store, JobTypes
  <2>2. job'[c] \in Job /\ job'[c].step = "next" /\ job'[c].todo = On
    BY <1>2, <1>8, <2>1 DEF Job, Steps
  <2>3. JobInv(c)'
    BY <1>2, <1>3, <2>2 DEF JobInv
  <2>4. AllInHand(c)'
    BY <1>3, <2>2 DEF AllInHand, On
  <2> QED BY <1>5, <1>6, <1>8, <2>1, <2>2, <2>3, <2>4
<1>10. CASE \E r \in Reg : LoadSecret(c, r)
  <2>1. PICK r \in Reg : LoadSecret(c, r)
    BY <1>10
  <2>2. /\ job[c].step = "next" /\ r \in job[c].todo /\ UNCHANGED results
        /\ job'[c] = [Free EXCEPT !.step = "post", !.reg = r, !.todo = job[c].todo \ {r}]
    BY <1>1, <2>1 DEF LoadSecret, At, store, JobTypes
  <2>3. /\ job'[c].step = "post" /\ job'[c].reg = r /\ job'[c].todo = job[c].todo \ {r}
        /\ job'[c] \in Job
    BY <1>2, <2>2, FreeIsAJob DEF Job, Steps, Free
  <2>4. JobInv(c)'
    BY <1>2, <1>3, <2>3 DEF JobInv
  <2>5. AllInHand(c)'
    BY <1>1, <1>3, <1>7, <2>2, <2>3 DEF AllInHand, On, Served
  <2> QED BY <1>2, <1>5, <1>6, <2>2, <2>3, <2>4, <2>5
<1>11. CASE Post(c)
  <2>1. job[c].step = "post" /\ job[c].reg \in Reg /\ UNCHANGED results
    BY <1>1, <1>11 DEF Post, At, store, JobInv
  <2>2. \/ \E o \in Outcomes : /\ job'[c] = [job[c] EXCEPT !.step = "record", !.result = o]
                               /\ o = "cut" => up[c] = "closing"
        \/ Attempt(c) < MaxAttempts /\ job'[c] = [job[c] EXCEPT !.tries = Attempt(c)]
    <3>1. ASSUME NEW o \in Outcomes, Ends(c, o)
          PROVE  job'[c] = [job[c] EXCEPT !.step = "record", !.result = o]
      BY <1>1, <3>1 DEF Ends, JobTypes
    <3>2. CASE up[c] = "up" /\ (Ends(c, "ok") \/ Ends(c, "failed"))
      BY <3>1, <3>2 DEF Outcomes
    <3>3. CASE up[c] = "closing" /\ (Ends(c, "cut") \/ Ends(c, "failed"))
      BY <3>1, <3>3 DEF Outcomes
    <3>4. CASE Attempt(c) < MaxAttempts /\ job' = [job EXCEPT ![c].tries = Attempt(c)]
      BY <1>1, <3>4 DEF JobTypes
    <3> QED BY <1>11, <3>2, <3>3, <3>4 DEF Post
  <2>3. /\ job'[c] \in Job /\ job'[c].todo = job[c].todo /\ job'[c].reg = job[c].reg
        /\ job'[c].step \in {"post", "record"}
        /\ job'[c].step = "record" /\ job'[c].result = "cut" => up[c] = "closing"
    <3>1. ASSUME NEW o \in Outcomes, job'[c] = [job[c] EXCEPT !.step = "record", !.result = o]
          PROVE  /\ job'[c] \in Job /\ job'[c].todo = job[c].todo /\ job'[c].reg = job[c].reg
                 /\ job'[c].step = "record" /\ job'[c].result = o
      BY <1>2, <3>1 DEF Job, Steps
    <3>2. CASE Attempt(c) < MaxAttempts /\ job'[c] = [job[c] EXCEPT !.tries = Attempt(c)]
      <4>1. Attempt(c) \in 0 .. MaxAttempts - 1
        BY <1>2, <3>2, DeliveryAssumption DEF Attempt, Job, DeliveryAssumption
      <4> QED BY <1>2, <2>1, <3>2, <4>1 DEF Job
    <3> QED BY <2>2, <3>1, <3>2
  <2>4. JobInv(c)'
    BY <1>2, <1>3, <2>1, <2>3 DEF JobInv
  <2>5. AllInHand(c)'
    BY <1>1, <1>3, <1>7, <2>1, <2>3 DEF AllInHand, On, Served
  <2> QED BY <1>2, <1>5, <1>6, <2>1, <2>3, <2>4, <2>5
<1>12. CASE Record(c)
  <2> DEFINE q == job[c].reg
             o == job[c].result
  <2>1. /\ job[c].step = "record" /\ q \in Reg /\ o \in Outcomes
        /\ job'[c] = [Free EXCEPT !.step = "next", !.todo = job[c].todo]
        /\ results' = [results EXCEPT ![q][e][o] = results[q][e][o] + 1]
    BY <1>1, <1>2, <1>12 DEF Record, At, JobInv, JobTypes, Job
  <2>2. job'[c] \in Job /\ job'[c].step = "next" /\ job'[c].todo = job[c].todo
    BY <1>2, <2>1, FreeIsAJob DEF Job, Steps, Free
  <2> HIDE DEF e, q, o
  <2>3. /\ StoreTypes'
        /\ \A r \in Reg, d \in Event, w \in Outcomes :
             /\ results[r][d][w] \in Nat /\ results'[r][d][w] \in Nat
             /\ results'[r][d][w] = IF r = q /\ d = e /\ w = o THEN results[r][d][w] + 1
                                   ELSE results[r][d][w]
    BY <1>1, <1>2, <1>3, <2>1 DEF StoreTypes
  <2>4. {"ok", "failed"} \subseteq Outcomes
    BY DEF Outcomes
  <2>5. \A r \in Reg, d \in Event : Served(r, d) => Served(r, d)'
    BY <2>3, <2>4 DEF Served
  <2>6. o # "cut" => results'[q][e]["ok"] + results'[q][e]["failed"] > 0
    BY <1>2, <2>1, <2>3, <2>4 DEF Outcomes
  <2>7. JobInv(c)'
    BY <1>2, <1>3, <2>2 DEF JobInv, e
  <2>8. AllInHand(c)'
    <3> SUFFICES ASSUME Promises(c)', NEW r \in due[e] \cap On
                 PROVE  results'[r][e]["ok"] + results'[r][e]["failed"] > 0 \/ r \in job[c].todo
      BY <1>3, <2>2 DEF AllInHand, On, Served, e
    <3>1. Served(r, e) \/ r \in job[c].todo \/ r = q
      BY <1>1, <1>7, <2>1 DEF AllInHand, e, q
    <3>2. Promises(c) => o # "cut"
      BY <1>1, <2>1 DEF JobInv, LoopInv, Promises, Calm, o
    <3>3. r \in Reg
      BY DEF On
    <3> QED BY <1>2, <1>7, <2>5, <2>6, <3>1, <3>2, <3>3 DEF Served
  <2> QED BY <1>2, <1>5, <2>2, <2>3, <2>5, <2>7, <2>8
<1> QED BY <1>9, <1>10, <1>11, <1>12

-----------------------------------------------------------------------------
LEMMA DeliveryStep == DeliveryInv /\ [Next]_vars => DeliveryInv'
<1> SUFFICES ASSUME DeliveryInv, [Next]_vars PROVE DeliveryInv'
  OBVIOUS
<1>1. pending \in [Event -> {"no", "fresh", "idle"}] /\ trouble \in 0 .. MaxTrouble
  BY DEF DeliveryInv, Types, BusTypes, TroubleTypes
<1>2. CASE UNCHANGED vars
  BY <1>1, <1>2, QuietStep DEF vars, redis, store, loop
<1>3. ASSUME NEW e \in Event, EntryIdles(e) \/ Overtake(e) PROVE DeliveryInv'
  <2>1. /\ UNCHANGED <<bus, stream, group, acked, due, regs, results, up, call, batch, job>>
        /\ pending' = [pending EXCEPT ![e] = "idle"]
        /\ trouble' = trouble \/ (trouble < MaxTrouble /\ trouble' = trouble + 1)
    BY <1>3 DEF EntryIdles, Overtake, Trouble, store, loop
  <2>2. trouble' \in {trouble, trouble + 1} /\ trouble' \in 0 .. MaxTrouble
    BY <1>1, <2>1, DeliveryAssumption DEF DeliveryAssumption
  <2> QED BY <1>1, <2>1, <2>2, QuietStep
<1>4. ASSUME NEW e \in Event, Publish(e) \/ \E c \in Consumer : PublishInMemory(c, e)
      PROVE  DeliveryInv'
  <2>1. /\ e \notin Published /\ stream' = Append(stream, e)
        /\ due' = [due EXCEPT ![e] = IF e \in Broken THEN {} ELSE On]
        /\ UNCHANGED <<bus, group, pending, acked, regs, results, up, call, job, trouble>>
        /\ \/ batch' = batch
           \/ \E c \in Consumer : /\ up[c] = "up" /\ batch[c] = <<>>
                                 /\ batch' = [batch EXCEPT ![c] = <<e>>]
    BY <1>4 DEF Publish, PublishInMemory, store, loop
  <2> QED BY <2>1, PublishStep
<1>5. ASSUME NEW r \in Reg, Register(r) \/ Delete(r) PROVE DeliveryInv'
  BY <1>5, RegistrationStep
<1>6. ASSUME NEW c \in Consumer,
             \/ Subscribe(c) \/ Proceeds(c) \/ ReplyLost(c) \/ StoreFails(c) \/ AcknowledgeFails(c)
             \/ Close(c) \/ Crash(c)
      PROVE  DeliveryInv'
  BY <1>6, LoopStep, ReturnStep, HandlingStep DEF Proceeds
<1> QED BY <1>2, <1>3, <1>4, <1>5, <1>6 DEF Next

LEMMA DeliveryInvariance == Spec => []DeliveryInv
<1>1. Init => DeliveryInv
  BY InitDelivery
<1>2. DeliveryInv /\ [Next]_vars => DeliveryInv'
  BY DeliveryStep
<1> QED BY <1>1, <1>2, PTL DEF Spec

\* Every variable keeps its type and its bound, on either bus, whatever dies, is
\* lost, deleted or overtaken.
THEOREM TypeCorrect == Spec => []TypeOK
<1>1. DeliveryInv => TypeOK
  BY DEF DeliveryInv, Types, BusTypes, StoreTypes, LoopTypes, JobTypes, TroubleTypes, Job, TypeOK
<1> QED BY <1>1, DeliveryInvariance, PTL

\* At-least-once: an event over Streams is acknowledged (XAck in
\* internal/eventbus/streams.go) only when DeliverEvent has come to every
\* registration that was there when it was published and still is; over the
\* in-memory bus, in calm.
THEOREM ServedWhenAcked == Spec => []AckedIsServed
<1>1. DeliveryInv => AckedIsServed
  BY DEF DeliveryInv, AckedInv, Promised, Served, AckedIsServed
<1> QED BY <1>1, DeliveryInvariance, PTL

-----------------------------------------------------------------------------
(* How often an event is handed to a registration *)

In(c, e) == \E i \in DOMAIN batch[c] : batch[c][i] = e

\* The handler is at work on e, and has still to record the delivery to r.
Handling(c, e) == batch[c] # <<>> /\ Head(batch[c]) = e /\ job[c].step # "idle"
StillTo(c, r) == r \in job[c].todo \/ (job[c].step \in {"post", "record"} /\ job[c].reg = r)

\* Consumers that are to record e for r, and those that have e and may not be
\* able to acknowledge it.
IsAhead(c, r, e) == In(c, e) /\ (Handling(c, e) => StillTo(c, r))
Ahead(r, e) == {c \in Consumer : IsAhead(c, r, e)}
IsLeaving(c, e) == up[c] = "closing" /\ In(c, e)
Leaving(e) == {c \in Consumer : IsLeaving(c, e)}

\* Registrations whose deletion a handler of e has still to come upon.
Deleted == {d \in Reg : regs[d] = "deleted"}
Misses(c, d, e) == Handling(c, e) /\ d \in job[c].todo
Missed(e) == {d \in Deleted : \E c \in Consumer : Misses(c, d, e)}

\* The event may be handed out with nothing going wrong.
IsUnread(e) == bus = "streams" /\ \E i \in DOMAIN stream : stream[i] = e /\ i > group
Comes(e) ==
  \/ e \notin Published \/ IsUnread(e)
  \/ pending[e] = "idle" \/ (pending[e] = "fresh" /\ ~InHand(e))

One(b) == IF b THEN 1 ELSE 0
Records(r, e) == results[r][e]["ok"] + results[r][e]["failed"] + results[r][e]["cut"]

\* The records there are, and those that may come of what has gone wrong so far.
Bill(r, e) ==
  Records(r, e) + Cardinality(Ahead(r, e)) + Cardinality(Leaving(e)) + Cardinality(Missed(e))
    + One(Comes(e))
BillInv == \A r \in Reg, e \in Event : Bill(r, e) <= 1 + trouble + Cardinality(Deleted)

\* A message is in the stream and in a hand once, and is there to be claimed or in
\* hand only when it has been read.
IsRead(e) == \E i \in DOMAIN stream : stream[i] = e /\ i <= group
StreamOnce == \A i, j \in DOMAIN stream : stream[i] = stream[j] => i = j
HandOnce(c) == \A i, j \in DOMAIN batch[c] : batch[c][i] = batch[c][j] => i = j
ReadSoFar ==
  /\ bus = "streams" => \A e \in Event : pending[e] # "no" \/ InHand(e) => IsRead(e)
  /\ bus = "memory" => \A e \in Event : pending[e] = "no"
NotTwice(c) == job[c].step \in {"post", "record"} => job[c].reg \notin job[c].todo

TurnInv == StreamOnce /\ ReadSoFar /\ \A c \in Consumer : HandOnce(c) /\ NotTwice(c)

LEMMA InHandIs == ASSUME NEW e PROVE InHand(e) <=> \E c \in Consumer : In(c, e)
BY DEF InHand, In

\* Counting a set of which one member may come or go.
LEMMA CountOne ==
  ASSUME NEW S, NEW T, IsFiniteSet(S), NEW c, S \ {c} = T \ {c}
  PROVE  /\ IsFiniteSet(T) /\ Cardinality(S) \in Nat /\ Cardinality(T) \in Nat
         /\ Cardinality(T) + One(c \in S) = Cardinality(S) + One(c \in T)
<1> DEFINE R == S \ {c}
<1>1. IsFiniteSet(R) /\ Cardinality(S) = Cardinality(R) + One(c \in S)
  <2>1. CASE c \in S
    <3>1. IsFiniteSet(R) /\ Cardinality(R) = Cardinality(S) - 1
      BY <2>1, FS_RemoveElement
    <3> QED BY <2>1, <3>1, FS_CardinalityType DEF One
  <2>2. CASE c \notin S
    <3>1. R = S
      BY <2>2
    <3>2. IsFiniteSet(R) /\ Cardinality(R) = Cardinality(S) /\ One(c \in S) = 0
      BY <2>2, <3>1 DEF One
    <3>3. Cardinality(S) \in Nat
      BY FS_CardinalityType
    <3> HIDE DEF R
    <3> QED BY <3>2, <3>3
  <2> QED BY <2>1, <2>2
<1>2. IsFiniteSet(T) /\ Cardinality(T) = Cardinality(R) + One(c \in T)
  <2>1. CASE c \in T
    <3>1. T = R \cup {c} /\ c \notin R
      BY <2>1
    <3>2. IsFiniteSet(T) /\ Cardinality(T) = Cardinality(R) + 1
      BY <1>1, <3>1, FS_AddElement
    <3> QED BY <2>1, <3>2 DEF One
  <2>2. CASE c \notin T
    <3>1. T = R
      BY <2>2
    <3> QED BY <1>1, <2>2, <3>1, FS_CardinalityType DEF One
  <2> QED BY <2>1, <2>2
<1>3. Cardinality(R) \in Nat /\ Cardinality(S) \in Nat /\ Cardinality(T) \in Nat
  BY <1>1, <1>2, FS_CardinalityType
<1>4. One(c \in S) \in Nat /\ One(c \in T) \in Nat
  BY DEF One
<1> HIDE DEF R
<1> QED BY <1>1, <1>2, <1>3, <1>4

LEMMA Finiteness ==
  ASSUME NEW r, NEW e
  PROVE  /\ IsFiniteSet(Ahead(r, e)) /\ Cardinality(Ahead(r, e)) \in Nat
         /\ IsFiniteSet(Leaving(e)) /\ Cardinality(Leaving(e)) \in Nat
         /\ IsFiniteSet(Missed(e)) /\ Cardinality(Missed(e)) \in Nat
         /\ IsFiniteSet(Deleted) /\ Cardinality(Deleted) \in Nat
<1>1. Ahead(r, e) \subseteq Consumer /\ Leaving(e) \subseteq Consumer
  BY DEF Ahead, Leaving
<1>2. Missed(e) \subseteq Reg /\ Deleted \subseteq Reg
  BY DEF Missed, Deleted
<1> QED BY <1>1, <1>2, FS_Subset, FS_CardinalityType, DeliveryAssumption DEF DeliveryAssumption

\* A step of one consumer changes the bill of an event by what it does itself; m
\* is 1 when it comes upon a deletion.
LEMMA BillStep ==
  ASSUME DeliveryInv, BillInv, NEW c \in Consumer, NEW r \in Reg, NEW e \in Event, NEW m \in {0, 1},
         UNCHANGED regs, trouble' \in Nat, Records(r, e) \in Nat, Records(r, e)' \in Nat,
         \A d \in Consumer \ {c} : up'[d] = up[d] /\ batch'[d] = batch[d] /\ job'[d] = job[d],
         Cardinality(Missed(e)') + m <= Cardinality(Missed(e)),
         Records(r, e)' + One(IsAhead(c, r, e)') + One(IsLeaving(c, e)') + One(Comes(e)') + trouble
           <= Records(r, e) + One(IsAhead(c, r, e)) + One(IsLeaving(c, e)) + One(Comes(e)) + trouble' + m
  PROVE  Bill(r, e)' <= 1 + trouble' + Cardinality(Deleted')
<1>1. Ahead(r, e) \ {c} = Ahead(r, e)' \ {c} /\ Leaving(e) \ {c} = Leaving(e)' \ {c}
  BY DEF Ahead, Leaving, IsAhead, IsLeaving, In, Handling, StillTo
<1>2. /\ Cardinality(Ahead(r, e)') + One(c \in Ahead(r, e)) = Cardinality(Ahead(r, e)) + One(c \in Ahead(r, e)')
      /\ Cardinality(Ahead(r, e)') \in Nat
  BY <1>1, Finiteness, CountOne
<1>3. /\ Cardinality(Leaving(e)') + One(c \in Leaving(e)) = Cardinality(Leaving(e)) + One(c \in Leaving(e)')
      /\ Cardinality(Leaving(e)') \in Nat
  BY <1>1, Finiteness, CountOne
<1>4. IsFiniteSet(Missed(e)') /\ Cardinality(Missed(e)') \in Nat
  <2>1. Missed(e)' \subseteq Reg
    BY DEF Missed, Deleted
  <2> QED BY <2>1, FS_Subset, FS_CardinalityType, DeliveryAssumption DEF DeliveryAssumption
<1>5. /\ c \in Ahead(r, e) <=> IsAhead(c, r, e)
      /\ c \in Ahead(r, e)' <=> IsAhead(c, r, e)'
      /\ c \in Leaving(e) <=> IsLeaving(c, e)
      /\ c \in Leaving(e)' <=> IsLeaving(c, e)'
  BY DEF Ahead, Leaving
<1>6. Deleted' = Deleted /\ Cardinality(Deleted) \in Nat /\ trouble \in Nat
  BY Finiteness DEF Deleted, DeliveryInv, Types, TroubleTypes
<1>7. Bill(r, e) <= 1 + trouble + Cardinality(Deleted)
  BY DEF BillInv
<1>8. /\ One(c \in Ahead(r, e)) = One(IsAhead(c, r, e)) /\ One(c \in Ahead(r, e)') = One(IsAhead(c, r, e)')
      /\ One(c \in Leaving(e)) = One(IsLeaving(c, e)) /\ One(c \in Leaving(e)') = One(IsLeaving(c, e)')
  BY <1>5 DEF One
<1>9. /\ One(IsAhead(c, r, e)) \in Nat /\ One(IsAhead(c, r, e)') \in Nat
      /\ One(IsLeaving(c, e)) \in Nat /\ One(IsLeaving(c, e)') \in Nat
      /\ One(Comes(e)) \in Nat /\ One(Comes(e)') \in Nat
  BY DEF One
<1>10. Bill(r, e)' = Records(r, e)' + Cardinality(Ahead(r, e)') + Cardinality(Leaving(e)')
                       + Cardinality(Missed(e)') + One(Comes(e)')
  BY DEF Bill
<1> QED BY <1>2, <1>3, <1>4, <1>6, <1>7, <1>8, <1>9, <1>10, Finiteness DEF Bill

LEMMA BillSame ==
  ASSUME DeliveryInv, BillInv, NEW c \in Consumer, NEW r \in Reg, NEW e \in Event,
         UNCHANGED regs, trouble' \in Nat, Records(r, e) \in Nat, Records(r, e)' \in Nat,
         \A d \in Consumer \ {c} : up'[d] = up[d] /\ batch'[d] = batch[d] /\ job'[d] = job[d],
         \A d \in Deleted : Misses(c, d, e)' => Misses(c, d, e),
         Records(r, e)' + One(IsAhead(c, r, e)') + One(IsLeaving(c, e)') + One(Comes(e)') + trouble
           <= Records(r, e) + One(IsAhead(c, r, e)) + One(IsLeaving(c, e)) + One(Comes(e)) + trouble'
  PROVE  Bill(r, e)' <= 1 + trouble' + Cardinality(Deleted')
<1>1. Cardinality(Missed(e)') + 0 <= Cardinality(Missed(e))
  <2>1. \A q \in Consumer, d \in Deleted : Misses(q, d, e)' => Misses(q, d, e)
    BY DEF Misses, Handling
  <2>2. Missed(e)' \subseteq Missed(e)
    BY <2>1 DEF Missed, Deleted
  <2>3. Cardinality(Missed(e)') <= Cardinality(Missed(e)) /\ IsFiniteSet(Missed(e)')
    BY <2>2, Finiteness, FS_Subset
  <2> QED BY <2>3, FS_CardinalityType
<1>2. Records(r, e)' + One(IsAhead(c, r, e)') + One(IsLeaving(c, e)') + One(Comes(e)') + trouble
        <= Records(r, e) + One(IsAhead(c, r, e)) + One(IsLeaving(c, e)) + One(Comes(e)) + trouble' + 0
  <2>1. trouble \in Nat
    BY DEF DeliveryInv, Types, TroubleTypes
  <2>2. /\ One(IsAhead(c, r, e)) \in Nat /\ One(IsLeaving(c, e)) \in Nat /\ One(Comes(e)) \in Nat
    BY DEF One
  <2> QED BY <2>1, <2>2
<1>3. 0 \in {0, 1}
  OBVIOUS
<1> QED BY <1>1, <1>2, <1>3, BillStep

LEMMA RecordsAreNat ==
  ASSUME StoreTypes, NEW r \in Reg, NEW e \in Event
  PROVE  /\ Records(r, e) \in Nat
         /\ \A o \in Outcomes : results[r][e][o] \in Nat
BY DEF StoreTypes, Records, Outcomes

\* A consumer with nothing in hand is handed messages that were to come.
LEMMA HandsStep ==
  ASSUME DeliveryInv, TurnInv, BillInv, NEW c \in Consumer, NEW s \in Seq(Event),
         bus = "streams", batch[c] = <<>>, up[c] = "up",
         batch' = [batch EXCEPT ![c] = s], HandedOut(s),
         UNCHANGED <<bus, stream, regs, results, up, job, trouble>>,
         group' \in Int, group <= group',
         \A i, j \in DOMAIN s : s[i] = s[j] => i = j,
         \A i \in DOMAIN s : Comes(s[i]) /\ IsRead(s[i])'
  PROVE  TurnInv' /\ BillInv'
<1>1. Types /\ group \in Int /\ trouble \in Nat
  BY DEF DeliveryInv, Types, BusTypes, NoGroup, TroubleTypes
<1>2. batch'[c] = s /\ \A d \in Consumer \ {c} : batch'[d] = batch[d]
  BY <1>1 DEF Types, LoopTypes
<1>3. ASSUME NEW e \in Event
      PROVE  /\ In(c, e)' <=> \E i \in DOMAIN s : s[i] = e
             /\ ~In(c, e)
             /\ \A d \in Consumer \ {c} : In(d, e)' <=> In(d, e)
             /\ InHand(e)' <=> InHand(e) \/ \E i \in DOMAIN s : s[i] = e
  <2>1. /\ In(c, e)' <=> \E i \in DOMAIN s : s[i] = e
        /\ ~In(c, e)
        /\ \A d \in Consumer \ {c} : In(d, e)' <=> In(d, e)
    BY <1>2 DEF In
  <2>2. InHand(e)' <=> \E d \in Consumer : In(d, e)'
    BY DEF InHand, In
  <2> QED BY <2>1, <2>2, InHandIs
<1>4. \A e \in Event : pending'[e] = IF \E i \in DOMAIN s : s[i] = e THEN "fresh" ELSE pending[e]
  BY DEF HandedOut
<1>5. Published' = Published /\ job[c].step = "idle"
  BY DEF Published, DeliveryInv, JobInv
<1>6. \A e : (IsUnread(e)' => IsUnread(e)) /\ (IsRead(e) => IsRead(e)')
  BY <1>1 DEF IsUnread, IsRead, Types, BusTypes
<1>7. TurnInv'
  <2>1. StreamOnce' /\ \A d \in Consumer : HandOnce(d)' /\ NotTwice(d)'
    BY <1>2 DEF TurnInv, StreamOnce, HandOnce, NotTwice
  <2>2. ReadSoFar'
    <3> SUFFICES ASSUME NEW e \in Event, pending'[e] # "no" \/ InHand(e)' PROVE IsRead(e)'
      BY DEF ReadSoFar
    <3>1. CASE \E i \in DOMAIN s : s[i] = e
      BY <3>1
    <3>2. CASE ~\E i \in DOMAIN s : s[i] = e
      BY <1>3, <1>4, <1>6, <3>2 DEF TurnInv, ReadSoFar
    <3> QED BY <3>1, <3>2
  <2> QED BY <2>1, <2>2 DEF TurnInv
<1>8. ASSUME NEW r \in Reg, NEW e \in Event PROVE Bill(r, e)' <= 1 + trouble' + Cardinality(Deleted')
  <2>1. Records(r, e)' = Records(r, e) /\ Records(r, e) \in Nat
    BY <1>1, RecordsAreNat DEF Records, Types
  <2>2. \A d \in Deleted : Misses(c, d, e)' => Misses(c, d, e)
    BY <1>5 DEF Misses, Handling
  <2>3. ~IsLeaving(c, e)' /\ ~IsLeaving(c, e) /\ ~IsAhead(c, r, e)
    BY <1>3 DEF IsLeaving, IsAhead
  <2>4. CASE \E i \in DOMAIN s : s[i] = e
    <3>1. Comes(e) /\ IsRead(e)'
      BY <2>4
    <3>2. ~IsUnread(e)'
      BY <1>1, <3>1 DEF IsRead, IsUnread, TurnInv, StreamOnce, Types, BusTypes
    <3>3. e \in Published
      BY <3>1, <1>5 DEF IsRead, Published
    <3>4. ~Comes(e)'
      BY <1>3, <1>4, <1>5, <2>4, <3>2, <3>3 DEF Comes
    <3>5. One(Comes(e)) = 1 /\ One(Comes(e)') = 0 /\ One(IsAhead(c, r, e)) = 0
          /\ One(IsAhead(c, r, e)') \in {0, 1} /\ One(IsLeaving(c, e)) = 0 /\ One(IsLeaving(c, e)') = 0
      BY <2>3, <3>1, <3>4 DEF One
    <3>6. Records(r, e)' + One(IsAhead(c, r, e)') + One(IsLeaving(c, e)') + One(Comes(e)') + trouble
            <= Records(r, e) + One(IsAhead(c, r, e)) + One(IsLeaving(c, e)) + One(Comes(e)) + trouble'
      BY <1>1, <2>1, <3>5
    <3> QED BY <1>1, <1>2, <2>1, <2>2, <3>6, BillSame
  <2>5. CASE ~\E i \in DOMAIN s : s[i] = e
    <3>1. Comes(e)' => Comes(e)
      BY <1>3, <1>4, <1>5, <1>6, <2>5 DEF Comes
    <3>2. ~IsAhead(c, r, e)'
      BY <1>3, <2>5 DEF IsAhead
    <3>3. One(Comes(e)') <= One(Comes(e)) /\ One(IsAhead(c, r, e)) = 0
          /\ One(IsAhead(c, r, e)') = 0 /\ One(IsLeaving(c, e)) = 0 /\ One(IsLeaving(c, e)') = 0
          /\ One(Comes(e)) \in Nat /\ One(Comes(e)') \in Nat
      BY <2>3, <3>1, <3>2 DEF One
    <3>4. Records(r, e)' + One(IsAhead(c, r, e)') + One(IsLeaving(c, e)') + One(Comes(e)') + trouble
            <= Records(r, e) + One(IsAhead(c, r, e)) + One(IsLeaving(c, e)) + One(Comes(e)) + trouble'
      BY <1>1, <2>1, <3>3
    <3> QED BY <1>1, <1>2, <2>1, <2>2, <3>4, BillSame
  <2> QED BY <2>4, <2>5
<1> QED BY <1>7, <1>8 DEF BillInv

\* What is in hand stays there; what is pending, who may be closed and the group
\* change, and if anything is to come that was not, something went wrong.
LEMMA SameHandsStep ==
  ASSUME DeliveryInv, TurnInv, BillInv,
         UNCHANGED <<bus, stream, regs, results, batch, job>>,
         group' \in Int, group <= group', trouble' \in {trouble, trouble + 1},
         \A c \in Consumer, e \in Event : IsLeaving(c, e)' => IsLeaving(c, e),
         trouble' = trouble => \A e \in Event : Comes(e)' => Comes(e),
         bus = "memory" => pending' = pending,
         bus = "streams" => \A e \in Event : pending'[e] # "no" => pending[e] # "no" \/ IsRead(e)'
  PROVE  TurnInv' /\ BillInv'
<1>1. Types /\ group \in Int /\ trouble \in Nat
  BY DEF DeliveryInv, Types, BusTypes, NoGroup, TroubleTypes
<1>2. \A c, e : (In(c, e)' <=> In(c, e)) /\ (Handling(c, e)' <=> Handling(c, e))
  BY DEF In, Handling
<1>3. TurnInv'
  <2>1. StreamOnce' /\ \A d \in Consumer : HandOnce(d)' /\ NotTwice(d)'
    BY DEF TurnInv, StreamOnce, HandOnce, NotTwice
  <2>2. \A e : (IsRead(e) => IsRead(e)') /\ (InHand(e)' <=> InHand(e))
    BY <1>1 DEF IsRead, InHand, Types, BusTypes
  <2>3. ReadSoFar'
    BY <2>2 DEF TurnInv, ReadSoFar
  <2> QED BY <2>1, <2>3 DEF TurnInv
<1>4. ASSUME NEW r \in Reg, NEW e \in Event PROVE Bill(r, e)' <= 1 + trouble' + Cardinality(Deleted')
  <2>1. Records(r, e)' = Records(r, e) /\ Records(r, e) \in Nat
    BY <1>1, RecordsAreNat DEF Records, Types
  <2>2. Ahead(r, e)' = Ahead(r, e) /\ Missed(e)' = Missed(e) /\ Deleted' = Deleted
    BY DEF Ahead, IsAhead, In, Handling, StillTo, Missed, Misses, Deleted
  <2>3. Cardinality(Leaving(e)') <= Cardinality(Leaving(e)) /\ Cardinality(Leaving(e)') \in Nat
    <3>1. Leaving(e)' \subseteq Leaving(e)
      BY DEF Leaving
    <3> QED BY <3>1, Finiteness, FS_Subset, FS_CardinalityType
  <2>4. /\ One(Comes(e)') <= One(Comes(e)) + (trouble' - trouble)
        /\ One(Comes(e)) \in Nat /\ One(Comes(e)') \in Nat
    <3>1. One(Comes(e)) \in {0, 1} /\ One(Comes(e)') \in {0, 1}
      BY DEF One
    <3>2. CASE trouble' = trouble
      <4>1. Comes(e)' => Comes(e)
        BY <3>2
      <4>2. One(Comes(e)') <= One(Comes(e))
        BY <4>1 DEF One
      <4> QED BY <1>1, <3>1, <3>2, <4>2
    <3>3. CASE trouble' = trouble + 1
      BY <1>1, <3>1, <3>3
    <3> QED BY <3>2, <3>3
  <2>5. Bill(r, e) <= 1 + trouble + Cardinality(Deleted)
    BY DEF BillInv
  <2>6. Bill(r, e)' = Records(r, e)' + Cardinality(Ahead(r, e)') + Cardinality(Leaving(e)')
                        + Cardinality(Missed(e)') + One(Comes(e)')
    BY DEF Bill
  <2>7. trouble' \in Nat
    BY <1>1
  <2> QED BY <1>1, <2>1, <2>2, <2>3, <2>4, <2>5, <2>6, <2>7, Finiteness DEF Bill
<1> QED BY <1>3, <1>4 DEF BillInv

\* A consumer is done with the first message it had in hand.
LEMMA TailHas ==
  ASSUME NEW s \in Seq(Event), s # <<>>, \A i, j \in DOMAIN s : s[i] = s[j] => i = j, NEW e
  PROVE  /\ (\E i \in DOMAIN Tail(s) : Tail(s)[i] = e) <=> e # Head(s) /\ \E i \in DOMAIN s : s[i] = e
         /\ \A i, j \in DOMAIN Tail(s) : Tail(s)[i] = Tail(s)[j] => i = j
<1>1. /\ Tail(s) \in Seq(Event) /\ Len(Tail(s)) = Len(s) - 1 /\ Len(s) \in Nat \ {0}
      /\ \A i \in 1 .. Len(Tail(s)) : Tail(s)[i] = s[i + 1]
      /\ Head(s) = s[1]
  BY HeadTailProperties
<1>2. DOMAIN s = 1 .. Len(s) /\ DOMAIN Tail(s) = 1 .. Len(s) - 1
  BY <1>1
<1>3. \A i \in 1 .. Len(s) - 1 : i + 1 \in 1 .. Len(s) /\ i + 1 # 1 /\ Tail(s)[i] = s[i + 1]
  BY <1>1
<1>4. ASSUME NEW i \in 1 .. Len(s), i # 1 PROVE i - 1 \in 1 .. Len(s) - 1 /\ Tail(s)[i - 1] = s[i]
  BY <1>1, <1>4
<1>5. (\E i \in DOMAIN Tail(s) : Tail(s)[i] = e) => e # Head(s) /\ \E i \in DOMAIN s : s[i] = e
  BY <1>1, <1>2, <1>3
<1>6. e # Head(s) /\ (\E i \in DOMAIN s : s[i] = e) => \E i \in DOMAIN Tail(s) : Tail(s)[i] = e
  BY <1>1, <1>2, <1>4
<1>7. \A i, j \in DOMAIN Tail(s) : Tail(s)[i] = Tail(s)[j] => i = j
  BY <1>1, <1>2, <1>3
<1> QED BY <1>5, <1>6, <1>7

LEMMA DropsStep ==
  ASSUME DeliveryInv, TurnInv, BillInv, NEW c \in Consumer, batch[c] # <<>>,
         UNCHANGED <<bus, stream, group, regs, results, up>>,
         batch' = [batch EXCEPT ![c] = Tail(batch[c])],
         job' = job \/ job' = [job EXCEPT ![c] = Free], job'[c].step = "idle",
         pending' = pending \/ pending' = [pending EXCEPT ![Head(batch[c])] = "no"],
         trouble' \in {trouble, trouble + 1},
         \/ trouble' = trouble + 1
         \/ job[c].step = "idle" \/ up[c] = "closing"
         \/ bus = "memory" \/ pending'[Head(batch[c])] = "no"
         \/ \E d \in Deleted : job[c].step # "idle" /\ d \in job[c].todo
  PROVE  TurnInv' /\ BillInv'
<1> DEFINE h == Head(batch[c])
<1>1. Types /\ trouble \in Nat /\ trouble' \in Nat /\ batch[c] \in Seq(Event) /\ h \in Event
  <2>1. Types /\ trouble \in Nat /\ batch[c] \in Seq(Event)
    BY DEF DeliveryInv, Types, TroubleTypes, LoopTypes
  <2> QED BY <2>1, BatchTail
<1>2. /\ batch'[c] = Tail(batch[c])
      /\ \A d \in Consumer \ {c} : batch'[d] = batch[d] /\ job'[d] = job[d] /\ up'[d] = up[d]
  BY <1>1 DEF Types, LoopTypes, JobTypes
<1>3. ASSUME NEW e \in Event
      PROVE  /\ In(c, e)' <=> e # h /\ In(c, e)
             /\ \A d \in Consumer \ {c} : In(d, e)' <=> In(d, e)
             /\ InHand(e)' <=> (e # h /\ In(c, e)) \/ \E d \in Consumer \ {c} : In(d, e)
             /\ In(c, h)
  <2>1. \A i, j \in DOMAIN batch[c] : batch[c][i] = batch[c][j] => i = j
    BY DEF TurnInv, HandOnce
  <2>2. (In(c, e)' <=> e # h /\ In(c, e)) /\ In(c, h)
    <3>1. (\E i \in DOMAIN Tail(batch[c]) : Tail(batch[c])[i] = e)
            <=> e # h /\ \E i \in DOMAIN batch[c] : batch[c][i] = e
      BY <1>1, <2>1, TailHas
    <3>2. 1 \in DOMAIN batch[c] /\ h = batch[c][1]
      BY <1>1, BatchTail
    <3>3. In(c, e)' <=> e # h /\ In(c, e)
      BY <1>2, <3>1 DEF In
    <3>4. \E i \in DOMAIN batch[c] : batch[c][i] = h
      BY <3>2
    <3>5. In(c, h)
      BY <3>4 DEF In
    <3> QED BY <3>3, <3>5
  <2>3. \A d \in Consumer \ {c} : In(d, e)' <=> In(d, e)
    BY <1>2 DEF In
  <2>4. InHand(e)' <=> \E d \in Consumer : In(d, e)'
    BY DEF InHand, In
  <2> QED BY <2>2, <2>3, <2>4
<1>4. pending'[h] \in {pending[h], "no"} /\ \A e \in Event \ {h} : pending'[e] = pending[e]
  BY <1>1 DEF Types, BusTypes
<1>5. Published' = Published /\ Deleted' = Deleted
  BY DEF Published, Deleted
<1>6. \A e : (IsUnread(e)' <=> IsUnread(e)) /\ (IsRead(e) <=> IsRead(e)')
  BY DEF IsUnread, IsRead
<1>7. TurnInv'
  <2>1. StreamOnce' /\ \A d \in Consumer : HandOnce(d)' /\ NotTwice(d)'
    <3>1. HandOnce(c)'
      BY <1>1, <1>2, TailHas DEF TurnInv, HandOnce
    <3> QED BY <1>2, <3>1 DEF TurnInv, StreamOnce, HandOnce, NotTwice
  <2>2. \A e \in Event : InHand(e)' => InHand(e)
    BY <1>3, InHandIs
  <2>3. \A e \in Event : pending'[e] # "no" => pending[e] # "no"
    BY <1>4
  <2>4. ReadSoFar'
    BY <1>4, <1>6, <2>2, <2>3 DEF TurnInv, ReadSoFar
  <2> QED BY <2>1, <2>4 DEF TurnInv
<1>8. ASSUME NEW r \in Reg, NEW e \in Event PROVE Bill(r, e)' <= 1 + trouble' + Cardinality(Deleted')
  <2>1. Records(r, e)' = Records(r, e) /\ Records(r, e) \in Nat
    BY <1>1, RecordsAreNat DEF Records, Types
  <2>2. \A d \in Deleted : ~Misses(c, d, e)'
    BY DEF Misses, Handling
  <2>3. /\ One(IsAhead(c, r, e)) \in {0, 1} /\ One(IsAhead(c, r, e)') \in {0, 1}
        /\ One(IsLeaving(c, e)) \in {0, 1} /\ One(IsLeaving(c, e)') \in {0, 1}
        /\ One(Comes(e)) \in {0, 1} /\ One(Comes(e)') \in {0, 1}
    BY DEF One
  <2>4. SUFFICES ASSUME ~(Records(r, e)' + One(IsAhead(c, r, e)') + One(IsLeaving(c, e)') + One(Comes(e)') + trouble
                   <= Records(r, e) + One(IsAhead(c, r, e)) + One(IsLeaving(c, e)) + One(Comes(e)) + trouble')
                 PROVE  Bill(r, e)' <= 1 + trouble' + Cardinality(Deleted')
    BY <1>1, <1>2, <2>1, <2>2, BillSame
  <2>5. CASE e # h
    <3>1. In(c, e)' <=> In(c, e)
      BY <1>3, <2>5
    <3>2. ~Handling(c, e) /\ ~Handling(c, e)'
      BY <2>5 DEF Handling
    <3>3. /\ IsAhead(c, r, e)' <=> IsAhead(c, r, e)
          /\ IsLeaving(c, e)' <=> IsLeaving(c, e)
      BY <3>1, <3>2 DEF IsAhead, IsLeaving
    <3>4. InHand(e)' <=> InHand(e)
      BY <1>3, <2>5, InHandIs
    <3>5. Comes(e)' <=> Comes(e)
      BY <1>4, <1>5, <1>6, <2>5, <3>4 DEF Comes
    <3>6. /\ One(IsAhead(c, r, e)') = One(IsAhead(c, r, e))
          /\ One(IsLeaving(c, e)') = One(IsLeaving(c, e)) /\ One(Comes(e)') = One(Comes(e))
      BY <3>3, <3>5 DEF One
    <3> HIDE DEF h
    <3> QED BY <1>1, <2>1, <2>3, <2>4, <3>6
  <2>6. CASE e = h
    <3>1. ~In(c, e)' /\ In(c, e)
      BY <1>3, <2>6
    <3>2. One(IsAhead(c, r, e)') = 0 /\ One(IsLeaving(c, e)') = 0
      BY <3>1 DEF One, IsAhead, IsLeaving
    <3>3. /\ trouble' = trouble /\ One(IsAhead(c, r, e)) = 0 /\ One(IsLeaving(c, e)) = 0
          /\ One(Comes(e)') = 1 /\ One(Comes(e)) = 0
      <4> HIDE DEF h
      <4> QED BY <1>1, <2>1, <2>3, <2>4, <3>2
    <3>4. Comes(e)' /\ ~Comes(e) /\ ~IsLeaving(c, e) /\ ~IsAhead(c, r, e)
      BY <3>3 DEF One
    <3>5. up[c] # "closing" /\ job[c].step # "idle"
      BY <3>1, <3>4 DEF IsLeaving, IsAhead, Handling
    <3>6. pending'[e] = "fresh" /\ pending[e] = "fresh" /\ ~InHand(e)'
      BY <1>3, <1>4, <1>5, <1>6, <2>6, <3>1, <3>4 DEF Comes
    <3>7. bus # "memory"
      BY <3>6 DEF TurnInv, ReadSoFar
    <3>8. PICK d \in Deleted : d \in job[c].todo
      BY <2>6, <3>3, <3>5, <3>6, <3>7, <1>1
    <3>9. d \in Missed(e)
      BY <2>6, <3>5, <3>8 DEF Missed, Misses, Handling
    <3>10. Missed(e)' = {}
      <4>1. \A q \in Consumer : ~In(q, e)'
        BY <1>3, <3>1, <3>6
      <4>2. \A q \in Consumer : ~Handling(q, e)'
        <5>1. ASSUME NEW q \in Consumer, Handling(q, e)' PROVE In(q, e)'
          <6>1. batch'[q] \in Seq(Event)
            <7>1. Tail(batch[c]) \in Seq(Event)
              BY <1>1, BatchTail
            <7> QED BY <1>1, <1>2, <7>1 DEF Types, LoopTypes
          <6> QED BY <5>1, <6>1, BatchTail DEF Handling, In
        <5> QED BY <4>1, <5>1
      <4> QED BY <4>2 DEF Missed, Misses
    <3>11. Cardinality(Missed(e)') + 1 <= Cardinality(Missed(e))
      <4>1. Cardinality(Missed(e)') = 0
        BY <3>10, FS_EmptySet
      <4>2. Cardinality(Missed(e)) \in Nat /\ Cardinality(Missed(e)) # 0
        BY <3>9, Finiteness, FS_EmptySet
      <4> QED BY <4>1, <4>2
    <3>12. Records(r, e)' + One(IsAhead(c, r, e)') + One(IsLeaving(c, e)') + One(Comes(e)') + trouble
             <= Records(r, e) + One(IsAhead(c, r, e)) + One(IsLeaving(c, e)) + One(Comes(e)) + trouble' + 1
      BY <1>1, <2>1, <3>2, <3>3
    <3>13. 1 \in {0, 1}
      OBVIOUS
    <3> QED BY <1>1, <1>2, <2>1, <3>11, <3>12, <3>13, BillStep
  <2> QED BY <2>5, <2>6
<1> QED BY <1>7, <1>8 DEF BillInv

\* The handler goes on: it records a delivery it was to make, or none.
LEMMA AtWorkStep ==
  ASSUME DeliveryInv, DeliveryInv', TurnInv, BillInv, NEW c \in Consumer,
         UNCHANGED <<bus, stream, group, pending, regs, up, batch, trouble>>,
         \A d \in Consumer \ {c} : job'[d] = job[d], NotTwice(c)',
         \A e \in Event, d \in Deleted : Misses(c, d, e)' => Misses(c, d, e),
         \A r \in Reg, e \in Event :
           Records(r, e)' + One(IsAhead(c, r, e)') <= Records(r, e) + One(IsAhead(c, r, e))
  PROVE  TurnInv' /\ BillInv'
<1>1. trouble \in Nat /\ StoreTypes /\ StoreTypes'
  BY DEF DeliveryInv, Types, TroubleTypes
<1>2. TurnInv'
  <2>1. StreamOnce' /\ \A d \in Consumer : HandOnce(d)' /\ NotTwice(d)'
    BY DEF TurnInv, StreamOnce, HandOnce, NotTwice
  <2>2. ReadSoFar'
    BY DEF TurnInv, ReadSoFar, InHand, IsRead
  <2> QED BY <2>1, <2>2 DEF TurnInv
<1>3. ASSUME NEW r \in Reg, NEW e \in Event PROVE Bill(r, e)' <= 1 + trouble' + Cardinality(Deleted')
  <2>1. Records(r, e) \in Nat /\ Records(r, e)' \in Nat
    BY <1>1, RecordsAreNat DEF StoreTypes, Records, Outcomes
  <2>2. (Comes(e)' <=> Comes(e)) /\ (IsLeaving(c, e)' <=> IsLeaving(c, e))
    BY DEF Comes, Published, IsUnread, InHand, IsLeaving, In
  <2>3. One(Comes(e)') = One(Comes(e)) /\ One(IsLeaving(c, e)') = One(IsLeaving(c, e))
    BY <2>2 DEF One
  <2>4. /\ One(Comes(e)) \in {0, 1} /\ One(IsLeaving(c, e)) \in {0, 1}
        /\ One(IsAhead(c, r, e)) \in {0, 1} /\ One(IsAhead(c, r, e)') \in {0, 1}
    BY DEF One
  <2>5. Records(r, e)' + One(IsAhead(c, r, e)') + One(IsLeaving(c, e)') + One(Comes(e)') + trouble
          <= Records(r, e) + One(IsAhead(c, r, e)) + One(IsLeaving(c, e)) + One(Comes(e)) + trouble'
    BY <1>1, <2>1, <2>3, <2>4
  <2> QED BY <1>1, <2>1, <2>5, BillSame
<1> QED BY <1>2, <1>3 DEF BillInv

\* What is lost or closed is paid for by what went wrong.
LEMMA LosesStep ==
  ASSUME DeliveryInv, TurnInv, BillInv, NEW c \in Consumer,
         UNCHANGED <<bus, stream, group, pending, regs, results>>, trouble' = trouble + 1,
         \A d \in Consumer \ {c} : up'[d] = up[d] /\ batch'[d] = batch[d] /\ job'[d] = job[d],
         \/ batch'[c] = <<>> /\ job'[c].step = "idle"
         \/ batch'[c] = batch[c] /\ job'[c] = job[c]
  PROVE  TurnInv' /\ BillInv'
<1>1. trouble \in Nat /\ trouble' \in Nat /\ StoreTypes
  BY DEF DeliveryInv, Types, TroubleTypes
<1>2. \A e : \A d \in Consumer : In(d, e)' => In(d, e)
  BY DEF In
<1>3. TurnInv'
  <2>1. StreamOnce' /\ \A d \in Consumer : HandOnce(d)' /\ NotTwice(d)'
    <3>1. HandOnce(c)' /\ NotTwice(c)'
      BY DEF TurnInv, HandOnce, NotTwice
    <3> QED BY <3>1 DEF TurnInv, StreamOnce, HandOnce, NotTwice
  <2>2. \A e \in Event : InHand(e)' => InHand(e)
    <3>1. \A e \in Event : InHand(e)' <=> \E d \in Consumer : In(d, e)'
      BY DEF InHand, In
    <3> QED BY <1>2, <3>1, InHandIs
  <2>3. ReadSoFar'
    BY <2>2 DEF TurnInv, ReadSoFar, IsRead
  <2> QED BY <2>1, <2>3 DEF TurnInv
<1>4. ASSUME NEW r \in Reg, NEW e \in Event PROVE Bill(r, e)' <= 1 + trouble' + Cardinality(Deleted')
  <2>1. Records(r, e)' = Records(r, e) /\ Records(r, e) \in Nat
    BY <1>1, RecordsAreNat DEF Records
  <2>2. \A d \in Deleted : Misses(c, d, e)' => Misses(c, d, e)
    BY DEF Misses, Handling
  <2>3. /\ One(IsAhead(c, r, e)) \in {0, 1} /\ One(IsAhead(c, r, e)') \in {0, 1}
        /\ One(IsLeaving(c, e)) \in {0, 1} /\ One(IsLeaving(c, e)') \in {0, 1}
        /\ One(Comes(e)) \in {0, 1} /\ One(Comes(e)') \in {0, 1}
    BY DEF One
  <2>4. Records(r, e)' + One(IsAhead(c, r, e)') + One(IsLeaving(c, e)') + One(Comes(e)') + trouble
          <= Records(r, e) + One(IsAhead(c, r, e)) + One(IsLeaving(c, e)) + One(Comes(e)) + trouble'
    <3>1. CASE batch'[c] = <<>> /\ job'[c].step = "idle"
      <4>1. ~In(c, e)'
        BY <3>1 DEF In
      <4>2. One(IsAhead(c, r, e)') = 0 /\ One(IsLeaving(c, e)') = 0
        BY <4>1 DEF One, IsAhead, IsLeaving
      <4> QED BY <1>1, <2>1, <2>3, <4>2
    <3>2. CASE batch'[c] = batch[c] /\ job'[c] = job[c]
      <4>1. IsAhead(c, r, e)' <=> IsAhead(c, r, e)
        BY <3>2 DEF IsAhead, In, Handling, StillTo
      <4>2. \A d \in Consumer : In(d, e)' <=> In(d, e)
        BY <3>2 DEF In
      <4>3. InHand(e)' <=> InHand(e)
        <5>1. InHand(e)' <=> \E d \in Consumer : In(d, e)'
          BY DEF InHand, In
        <5> QED BY <4>2, <5>1, InHandIs
      <4>4. Comes(e)' <=> Comes(e)
        BY <4>3 DEF Comes, Published, IsUnread
      <4>5. One(IsAhead(c, r, e)') = One(IsAhead(c, r, e)) /\ One(Comes(e)') = One(Comes(e))
        BY <4>1, <4>4 DEF One
      <4> QED BY <1>1, <2>1, <2>3, <4>5
    <3> QED BY <3>1, <3>2
  <2> QED BY <1>1, <2>1, <2>2, <2>4, BillSame
<1> QED BY <1>3, <1>4 DEF BillInv

\* A registration takes its records with it, and pays for whoever misses it.
LEMMA RegistrationBill ==
  ASSUME DeliveryInv, TurnInv, BillInv, NEW d \in Reg, Register(d) \/ Delete(d)
  PROVE  TurnInv' /\ BillInv'
<1>1. /\ UNCHANGED <<bus, stream, group, pending, acked, due, up, call, batch, job, trouble>>
      /\ \A r \in Reg \ {d} : regs'[r] = regs[r] /\ results'[r] = results[r]
      /\ trouble \in Nat /\ StoreTypes
      /\ \/ regs[d] = "new" /\ regs'[d] = "on" /\ results' = results
         \/ /\ regs[d] = "on" /\ regs'[d] = "deleted"
            /\ results'[d] = [e \in Event |-> [o \in Outcomes |-> 0]]
  BY DEF Register, Delete, redis, loop, DeliveryInv, Types, StoreTypes, TroubleTypes
<1>2. TurnInv'
  BY <1>1 DEF TurnInv, StreamOnce, HandOnce, NotTwice, ReadSoFar, InHand, IsRead
<1>3. ASSUME NEW r \in Reg, NEW e \in Event PROVE Bill(r, e)' <= 1 + trouble' + Cardinality(Deleted')
  <2>1. Ahead(r, e)' = Ahead(r, e) /\ Leaving(e)' = Leaving(e) /\ (Comes(e)' <=> Comes(e))
    BY <1>1 DEF Ahead, IsAhead, Handling, StillTo, In, Leaving, IsLeaving, Comes, Published, IsUnread, InHand
  <2>2. One(Comes(e)') = One(Comes(e)) /\ One(Comes(e)) \in Nat
    BY <2>1 DEF One
  <2>3. Records(r, e) \in Nat /\ Records(r, e)' \in Nat /\ Records(r, e)' <= Records(r, e)
    <3>1. CASE r # d \/ results' = results
      <4>1. results'[r] = results[r]
        BY <1>1, <3>1
      <4> QED BY <1>1, <4>1, RecordsAreNat DEF Records
    <3>2. CASE results'[d] = [f \in Event |-> [o \in Outcomes |-> 0]] /\ r = d
      <4>1. Records(r, e)' = 0
        BY <3>2 DEF Records, Outcomes
      <4> QED BY <1>1, <4>1, RecordsAreNat
    <3> QED BY <1>1, <3>1, <3>2
  <2>4. \A q : \A c \in Consumer : Misses(c, q, e)' <=> Misses(c, q, e)
    BY <1>1 DEF Misses, Handling
  <2>5. Cardinality(Missed(e)') + Cardinality(Deleted) <= Cardinality(Missed(e)) + Cardinality(Deleted')
        /\ Cardinality(Missed(e)') \in Nat /\ Cardinality(Deleted') \in Nat
    <3>1. CASE regs'[d] = "on"
      <4>1. Deleted' = Deleted
        BY <1>1, <3>1 DEF Deleted
      <4>2. Missed(e)' = Missed(e)
        BY <2>4, <4>1 DEF Missed
      <4> QED BY <4>1, <4>2, Finiteness
    <3>2. CASE regs'[d] = "deleted"
      <4>1. Deleted' = Deleted \cup {d} /\ d \notin Deleted
        BY <1>1, <3>2 DEF Deleted
      <4>2. Cardinality(Deleted') = Cardinality(Deleted) + 1
        BY <4>1, Finiteness, FS_AddElement
      <4>3. Missed(e)' \subseteq Missed(e) \cup {d}
        BY <2>4, <4>1 DEF Missed
      <4>4. /\ IsFiniteSet(Missed(e) \cup {d})
            /\ Cardinality(Missed(e) \cup {d}) <= Cardinality(Missed(e)) + 1
        <5>1. d \notin Missed(e)
          BY <4>1 DEF Missed
        <5>2. IsFiniteSet(Missed(e)) /\ Cardinality(Missed(e)) \in Nat
          BY Finiteness
        <5>3. IsFiniteSet(Missed(e) \cup {d})
          BY <5>2, FS_AddElement
        <5>4. Cardinality(Missed(e) \cup {d}) = Cardinality(Missed(e)) + 1
          BY <5>1, <5>2, FS_AddElement
        <5> QED BY <5>2, <5>3, <5>4
      <4>5. /\ IsFiniteSet(Missed(e)') /\ Cardinality(Missed(e)') <= Cardinality(Missed(e) \cup {d})
        BY <4>3, <4>4, FS_Subset
      <4>6. Cardinality(Missed(e)') \in Nat /\ Cardinality(Missed(e) \cup {d}) \in Nat
        BY <4>4, <4>5, FS_CardinalityType
      <4> QED BY <4>2, <4>4, <4>5, <4>6, Finiteness
    <3> QED BY <1>1, <3>1, <3>2
  <2>6. Bill(r, e) <= 1 + trouble + Cardinality(Deleted)
    BY DEF BillInv
  <2>7. Bill(r, e)' = Records(r, e)' + Cardinality(Ahead(r, e)') + Cardinality(Leaving(e)')
                        + Cardinality(Missed(e)') + One(Comes(e)')
    BY DEF Bill
  <2> QED BY <1>1, <2>1, <2>2, <2>3, <2>5, <2>6, <2>7, Finiteness DEF Bill
<1> QED BY <1>2, <1>3 DEF BillInv

\* What is published is to come, and over the in-memory bus in its publisher's hand.
LEMMA PublishBill ==
  ASSUME DeliveryInv, TurnInv, BillInv, NEW e \in Event, e \notin Published,
         stream' = Append(stream, e),
         UNCHANGED <<bus, group, pending, regs, results, up, job, trouble>>,
         \/ batch' = batch
         \/ \E c \in Consumer : /\ bus = "memory" /\ up[c] = "up" /\ batch[c] = <<>>
                               /\ batch' = [batch EXCEPT ![c] = <<e>>]
  PROVE  TurnInv' /\ BillInv'
<1>1. /\ stream \in Seq(Event) /\ group \in Int /\ group <= Len(stream) /\ trouble \in Nat
      /\ StoreTypes /\ LoopTypes /\ JobTypes
  BY DEF DeliveryInv, Types, BusTypes, NoGroup, TroubleTypes
<1>2. /\ Len(stream) \in Nat /\ Len(stream') = Len(stream) + 1
      /\ DOMAIN stream = 1 .. Len(stream) /\ DOMAIN stream' = 1 .. Len(stream) + 1
      /\ \A i \in 1 .. Len(stream) : stream'[i] = stream[i] /\ stream[i] # e
      /\ stream'[Len(stream) + 1] = e
  BY <1>1, AppendProperties DEF Published
<1>3. /\ \A d \in Event : IsRead(d)' <=> IsRead(d)
      /\ \A d \in Event \ {e} : (IsUnread(d)' <=> IsUnread(d)) /\ (d \in Published' <=> d \in Published)
      /\ e \in Published'
  BY <1>1, <1>2 DEF IsRead, IsUnread, Published
<1>4. ASSUME NEW c \in Consumer
      PROVE  \/ batch'[c] = batch[c]
             \/ bus = "memory" /\ up[c] = "up" /\ batch[c] = <<>> /\ batch'[c] = <<e>>
  BY <1>1 DEF LoopTypes
<1>5. TurnInv'
  <2>1. StreamOnce'
    BY <1>2 DEF TurnInv, StreamOnce
  <2>2. ASSUME NEW c \in Consumer PROVE HandOnce(c)' /\ NotTwice(c)'
    <3>1. HandOnce(c)'
      <4>1. CASE batch'[c] = batch[c]
        BY <4>1 DEF TurnInv, HandOnce
      <4>2. CASE batch'[c] = <<e>>
        BY <4>2 DEF HandOnce
      <4> QED BY <1>4, <4>1, <4>2
    <3> QED BY <3>1 DEF TurnInv, NotTwice
  <2>3. ReadSoFar'
    <3>1. CASE bus = "memory"
      BY <3>1 DEF TurnInv, ReadSoFar
    <3>2. CASE bus # "memory"
      <4>1. batch' = batch
        BY <3>2
      <4> QED BY <1>3, <3>2, <4>1 DEF TurnInv, ReadSoFar, InHand
    <3> QED BY <3>1, <3>2
  <2> QED BY <2>1, <2>2, <2>3 DEF TurnInv
<1>6. ASSUME NEW r \in Reg, NEW d \in Event PROVE Bill(r, d)' <= 1 + trouble' + Cardinality(Deleted')
  <2>1. Records(r, d)' = Records(r, d) /\ Records(r, d) \in Nat
    BY <1>1, RecordsAreNat DEF Records
  <2>2. /\ One(Comes(d)) \in {0, 1} /\ One(Comes(d)') \in {0, 1}
    BY DEF One
  <2>3. d = e => Comes(d) /\ One(Comes(d)) = 1
    BY DEF Comes, One
  <2>4. CASE batch' = batch
    <3>1. Ahead(r, d)' = Ahead(r, d) /\ Leaving(d)' = Leaving(d) /\ Missed(d)' = Missed(d) /\ Deleted' = Deleted
      BY <2>4 DEF Ahead, IsAhead, In, Handling, StillTo, Leaving, IsLeaving, Missed, Misses, Deleted
    <3>2. One(Comes(d)') <= One(Comes(d))
      <4>1. CASE d = e
        <5>1. One(Comes(d)) = 1
          BY <2>3, <4>1
        <5> QED BY <2>2, <5>1
      <4>2. CASE d # e
        <5>1. Comes(d)' <=> Comes(d)
          BY <1>3, <2>4, <4>2 DEF Comes, InHand
        <5> QED BY <5>1 DEF One
      <4> QED BY <4>1, <4>2
    <3>3. Bill(r, d) <= 1 + trouble + Cardinality(Deleted)
      BY DEF BillInv
    <3>4. Bill(r, d)' = Records(r, d)' + Cardinality(Ahead(r, d)') + Cardinality(Leaving(d)')
                          + Cardinality(Missed(d)') + One(Comes(d)')
      BY DEF Bill
    <3> QED BY <1>1, <2>1, <2>2, <3>1, <3>2, <3>3, <3>4, Finiteness DEF Bill
  <2>5. ASSUME NEW c \in Consumer, bus = "memory", up[c] = "up", batch[c] = <<>>,
               batch' = [batch EXCEPT ![c] = <<e>>]
        PROVE  Bill(r, d)' <= 1 + trouble' + Cardinality(Deleted')
    <3>1. batch'[c] = <<e>> /\ \A q \in Consumer \ {c} : batch'[q] = batch[q]
      BY <1>1, <2>5 DEF LoopTypes
    <3>2. job[c].step = "idle"
      BY <2>5 DEF DeliveryInv, JobInv
    <3>3. ~In(c, d) /\ (In(c, d)' <=> d = e)
      BY <2>5, <3>1 DEF In
    <3>4. ~IsAhead(c, r, d) /\ ~IsLeaving(c, d) /\ ~IsLeaving(c, d)' /\ (IsAhead(c, r, d)' => d = e)
      BY <2>5, <3>3 DEF IsAhead, IsLeaving
    <3>5. \A q \in Deleted : Misses(c, q, d)' => Misses(c, q, d)
      BY <3>2 DEF Misses, Handling
    <3>6. Comes(d)' => Comes(d) /\ d # e
      <4>1. pending[d] = "no" /\ pending' = pending /\ ~IsUnread(d)'
        BY <2>5 DEF TurnInv, ReadSoFar, IsUnread
      <4> QED BY <1>3, <4>1 DEF Comes
    <3>7. /\ One(IsAhead(c, r, d)) = 0 /\ One(IsLeaving(c, d)) = 0 /\ One(IsLeaving(c, d)') = 0
          /\ One(IsAhead(c, r, d)') + One(Comes(d)') <= One(Comes(d))
      <4>1. CASE d = e
        BY <2>3, <3>4, <3>6, <4>1 DEF One
      <4>2. CASE d # e
        BY <3>4, <3>6, <4>2 DEF One
      <4> QED BY <3>4, <4>1, <4>2 DEF One
    <3>8. One(IsAhead(c, r, d)') \in {0, 1}
      BY DEF One
    <3>9. Records(r, d)' + One(IsAhead(c, r, d)') + One(IsLeaving(c, d)') + One(Comes(d)') + trouble
            <= Records(r, d) + One(IsAhead(c, r, d)) + One(IsLeaving(c, d)) + One(Comes(d)) + trouble'
      BY <1>1, <2>1, <2>2, <3>7, <3>8
    <3> QED BY <1>1, <2>1, <3>1, <3>5, <3>9, BillSame
  <2> QED BY <2>4, <2>5
<1> QED BY <1>5, <1>6 DEF BillInv

LEMMA InitBill == Init => TurnInv /\ BillInv
<1> SUFFICES ASSUME Init PROVE TurnInv /\ BillInv
  OBVIOUS
<1>1. TurnInv
  BY DEF Init, TurnInv, StreamOnce, HandOnce, NotTwice, ReadSoFar, InHand, Free
<1>2. ASSUME NEW r \in Reg, NEW e \in Event PROVE Bill(r, e) <= 1 + trouble + Cardinality(Deleted)
  <2>1. Records(r, e) = 0 /\ trouble = 0
    BY DEF Init, Records, Outcomes
  <2>2. Ahead(r, e) = {} /\ Leaving(e) = {} /\ Missed(e) = {}
    BY DEF Init, Ahead, IsAhead, In, Leaving, IsLeaving, Missed, Misses, Handling
  <2>3. One(Comes(e)) \in {0, 1}
    BY DEF One
  <2> QED BY <2>1, <2>2, <2>3, FS_EmptySet, Finiteness DEF Bill
<1> QED BY <1>1, <1>2 DEF BillInv

-----------------------------------------------------------------------------
(* Every step keeps the bill *)

\* What is claimed is idle, what is read is unread, and each of it once.
LEMMA IdleOnce ==
  ASSUME Types, StreamOnce, NEW s \in IdleEntries
  PROVE  /\ s \in Seq(Event) /\ \A i, j \in DOMAIN s : s[i] = s[j] => i = j
         /\ \A i \in DOMAIN s : pending[s[i]] = "idle"
<1>1. PICK at \in FirstIdle : s = [n \in DOMAIN at |-> stream[at[n]]]
  BY DEF IdleEntries
<1>2. PICK n \in 0 .. Count : at \in [1 .. n -> IdleAt]
  BY DEF FirstIdle
<1>3. \A i, j \in 1 .. n : i < j => at[i] < at[j]
  BY <1>1, <1>2 DEF FirstIdle
<1>4. n \in Nat /\ stream \in Seq(Event)
  BY DeliveryAssumption DEF Types, BusTypes, DeliveryAssumption
<1>5. /\ DOMAIN s = 1 .. n
      /\ \A i \in 1 .. n : /\ at[i] \in DOMAIN stream /\ at[i] \in Nat /\ s[i] = stream[at[i]]
                           /\ pending[s[i]] = "idle"
  BY <1>1, <1>2, <1>4 DEF IdleAt
<1>6. \A i, j \in 1 .. n : i # j => at[i] # at[j]
  BY <1>3, <1>4, <1>5
<1>7. \A i, j \in DOMAIN s : s[i] = s[j] => i = j
  BY <1>5, <1>6 DEF StreamOnce
<1> QED BY <1>5, <1>7, HandedOutWasPublished

LEMMA UnreadOnce ==
  ASSUME Types, StreamOnce, group # NoGroup
  PROVE  /\ \A i, j \in DOMAIN Unread : Unread[i] = Unread[j] => i = j
         /\ \A i \in DOMAIN Unread : \E k \in DOMAIN stream :
              stream[k] = Unread[i] /\ group < k /\ k <= group + Len(Unread)
<1> DEFINE n == Len(Unread)
<1>1. /\ Unread \in Seq(Event) /\ group \in Nat /\ n \in Nat
      /\ \A i \in 1 .. n : group + i \in DOMAIN stream /\ Unread[i] = stream[group + i]
  BY UnreadIs
<1>2. DOMAIN Unread = 1 .. n
  BY <1>1
<1> HIDE DEF n
<1>3. \A i, j \in 1 .. n : Unread[i] = Unread[j] => i = j
  <2> SUFFICES ASSUME NEW i \in 1 .. n, NEW j \in 1 .. n, Unread[i] = Unread[j] PROVE i = j
    OBVIOUS
  <2>1. group + i = group + j
    BY <1>1 DEF StreamOnce
  <2> QED BY <1>1, <2>1
<1>4. \A i \in 1 .. n : \E k \in DOMAIN stream : stream[k] = Unread[i] /\ group < k /\ k <= group + n
  <2> SUFFICES ASSUME NEW i \in 1 .. n
               PROVE  \E k \in DOMAIN stream : stream[k] = Unread[i] /\ group < k /\ k <= group + n
    OBVIOUS
  <2>1. group < group + i /\ group + i <= group + n
    BY <1>1
  <2> QED BY <1>1, <2>1
<1> USE DEF n
<1> QED BY <1>2, <1>3, <1>4

LEMMA QuietBill ==
  ASSUME DeliveryInv, TurnInv, BillInv, NEW e \in Event, EntryIdles(e) \/ Overtake(e)
  PROVE  TurnInv' /\ BillInv'
<1>1. /\ UNCHANGED <<bus, stream, group, regs, results, up, batch, job>>
      /\ pending[e] = "fresh" /\ pending' = [pending EXCEPT ![e] = "idle"]
      /\ \/ trouble' = trouble /\ ~InHand(e)
         \/ trouble' = trouble + 1
      /\ group \in Int /\ pending \in [Event -> {"no", "fresh", "idle"}] /\ trouble \in Nat
  BY DEF EntryIdles, Overtake, Trouble, redis, store, loop, DeliveryInv, Types, BusTypes, NoGroup, TroubleTypes
<1>2. bus # "memory"
  BY <1>1 DEF TurnInv, ReadSoFar
<1>3. trouble' = trouble => \A d \in Event : Comes(d)' => Comes(d)
  <2> SUFFICES ASSUME trouble' = trouble, NEW d \in Event, Comes(d)' PROVE Comes(d)
    OBVIOUS
  <2>1. ~InHand(e)
    BY <1>1
  <2>2. /\ d \in Published' <=> d \in Published
        /\ IsUnread(d)' <=> IsUnread(d)
        /\ InHand(d)' <=> InHand(d)
    BY <1>1 DEF Published, IsUnread, InHand
  <2>3. CASE d = e
    BY <1>1, <2>1, <2>3 DEF Comes
  <2>4. CASE d # e
    BY <1>1, <2>2, <2>4 DEF Comes
  <2> QED BY <2>3, <2>4
<1>4. \A c \in Consumer, d \in Event : IsLeaving(c, d)' => IsLeaving(c, d)
  BY <1>1 DEF IsLeaving, In
<1>5. \A d \in Event : pending'[d] # "no" => pending[d] # "no"
  BY <1>1
<1>6. group' \in Int /\ group <= group' /\ trouble' \in {trouble, trouble + 1}
  BY <1>1
<1> QED BY <1>1, <1>2, <1>3, <1>4, <1>5, <1>6, SameHandsStep

LEMMA UpDownBill ==
  ASSUME DeliveryInv, TurnInv, BillInv, NEW c \in Consumer, Subscribe(c) \/ Closed(c)
  PROVE  TurnInv' /\ BillInv'
<1>1. /\ UNCHANGED <<bus, stream, pending, regs, results, batch, job, trouble>>
      /\ group \in Nat \cup {NoGroup}
      /\ group' = group \/ (group = NoGroup /\ group' = 0)
  BY DEF Subscribe, Closed, GroupStart, redis, store, DeliveryInv, Types, BusTypes
<1>2. \A d \in Consumer : up'[d] = "closing" => up[d] = "closing"
  BY DEF Subscribe, Closed, DeliveryInv, Types, LoopTypes
<1>3. group' \in Int /\ group \in Int /\ group <= group'
  BY <1>1 DEF NoGroup
<1>4. \A d \in Consumer, e \in Event : IsLeaving(d, e)' => IsLeaving(d, e)
  BY <1>1, <1>2 DEF IsLeaving, In
<1>5. stream \in Seq(Event)
  BY DEF DeliveryInv, Types, BusTypes
<1>6. \A e \in Event : Comes(e)' => Comes(e)
  <2>1. \A e : IsUnread(e)' => IsUnread(e)
    BY <1>1, <1>3, <1>5 DEF IsUnread
  <2> QED BY <1>1, <2>1 DEF Comes, Published, InHand
<1> QED BY <1>1, <1>3, <1>4, <1>6, SameHandsStep

LEMMA LostBill ==
  ASSUME DeliveryInv, TurnInv, BillInv, NEW c \in Consumer, ReplyLost(c)
  PROVE  TurnInv' /\ BillInv'
<1>1. Types /\ StreamOnce /\ LoopInv(c)
  BY DEF DeliveryInv, TurnInv
<1>2. /\ UNCHANGED <<bus, stream, regs, results, batch, job, up>>
      /\ trouble' = trouble + 1 /\ bus = "streams" /\ group # NoGroup
  BY <1>1 DEF ReplyLost, Trouble, Polls, store, LoopInv
<1>3. trouble \in Nat /\ group \in Nat
  BY <1>1, UnreadIs, <1>2 DEF Types, TroubleTypes
<1>4. \A d \in Consumer, e \in Event : IsLeaving(d, e)' => IsLeaving(d, e)
  BY <1>2 DEF IsLeaving, In
<1>5. /\ group' \in Int /\ group <= group'
      /\ \A e \in Event : pending'[e] # "no" => pending[e] # "no" \/ IsRead(e)'
  <2>1. ASSUME group' = group, NEW s \in IdleEntries, HandedOut(s)
        PROVE  \A e \in Event : pending'[e] # "no" => pending[e] # "no"
    <3> SUFFICES ASSUME NEW e \in Event, pending'[e] # "no", pending[e] = "no" PROVE FALSE
      OBVIOUS
    <3>1. \A i \in DOMAIN s : pending[s[i]] = "idle"
      BY <1>1, IdleOnce
    <3> QED BY <2>1, <3>1 DEF HandedOut
  <2>2. ASSUME HandedOut(Unread), group' = group + Len(Unread)
        PROVE  /\ group' \in Int /\ group <= group'
               /\ \A e \in Event : pending'[e] # "no" => pending[e] # "no" \/ IsRead(e)'
    <3>1. Len(Unread) \in Nat
      BY <1>1, <1>2, UnreadIs
    <3>2. ASSUME NEW e \in Event, pending'[e] # "no", pending[e] = "no" PROVE IsRead(e)'
      <4>1. PICK i \in DOMAIN Unread : Unread[i] = e
        BY <2>2, <3>2 DEF HandedOut
      <4> QED BY <1>1, <1>2, <2>2, <4>1, UnreadOnce DEF IsRead
    <3> QED BY <1>3, <2>2, <3>1, <3>2
  <2>3. CASE group' = group /\ \E s \in IdleEntries : HandedOut(s)
    BY <1>3, <2>1, <2>3
  <2>4. CASE HandedOut(Unread) /\ group' = group + Len(Unread)
    BY <2>2, <2>4
  <2> QED BY <2>3, <2>4 DEF ReplyLost
<1>6. trouble' # trouble /\ trouble' \in {trouble, trouble + 1} /\ bus # "memory" /\ group \in Int
  BY <1>2, <1>3
<1> QED BY <1>2, <1>4, <1>5, <1>6, SameHandsStep

LEMMA PollBill ==
  ASSUME DeliveryInv, TurnInv, BillInv, NEW c \in Consumer, Claim(c) \/ Read(c)
  PROVE  TurnInv' /\ BillInv'
<1>1. Types /\ StreamOnce /\ LoopInv(c)
  BY DEF DeliveryInv, TurnInv
<1>2. /\ UNCHANGED <<bus, stream, regs, results, up, job, trouble>>
      /\ bus = "streams" /\ batch[c] = <<>> /\ up[c] = "up" /\ group # NoGroup
  BY <1>1 DEF Claim, Read, Polls, store, LoopInv
<1>3. group \in Nat /\ Len(Unread) \in Nat /\ Unread \in Seq(Event)
  BY <1>1, <1>2, UnreadIs
<1>4. CASE Claim(c)
  <2>1. PICK s \in IdleEntries : HandedOut(s) /\ batch' = [batch EXCEPT ![c] = s]
    BY <1>4 DEF Claim
  <2>2. /\ s \in Seq(Event) /\ \A i, j \in DOMAIN s : s[i] = s[j] => i = j
        /\ \A i \in DOMAIN s : pending[s[i]] = "idle"
    BY <1>1, IdleOnce
  <2>3. group' = group /\ group' \in Int /\ group <= group'
    BY <1>3, <1>4 DEF Claim
  <2>4. \A i \in DOMAIN s : Comes(s[i]) /\ IsRead(s[i])'
    <3> SUFFICES ASSUME NEW i \in DOMAIN s PROVE Comes(s[i]) /\ IsRead(s[i])'
      OBVIOUS
    <3>1. pending[s[i]] = "idle" /\ s[i] \in Event
      BY <2>2
    <3>2. IsRead(s[i])
      BY <1>2, <3>1 DEF TurnInv, ReadSoFar
    <3> QED BY <1>2, <2>3, <3>1, <3>2 DEF Comes, IsRead
  <2> QED BY <1>2, <2>1, <2>2, <2>3, <2>4, HandsStep
<1>5. CASE Read(c)
  <2>1. PICK s \in Seq(Event) : s = Unread
    BY <1>3
  <2>2. HandedOut(s) /\ batch' = [batch EXCEPT ![c] = s] /\ group' = group + Len(s)
    BY <1>5, <2>1 DEF Read
  <2>3. group' \in Int /\ group <= group'
    BY <1>3, <2>1, <2>2
  <2>4. \A i, j \in DOMAIN s : s[i] = s[j] => i = j
    BY <1>1, <1>2, <2>1, UnreadOnce
  <2>5. \A i \in DOMAIN s : \E k \in DOMAIN stream : stream[k] = s[i] /\ group < k /\ k <= group + Len(s)
    BY <1>1, <1>2, <2>1, UnreadOnce
  <2>6. \A i \in DOMAIN s : Comes(s[i]) /\ IsRead(s[i])'
    BY <1>2, <2>2, <2>5 DEF Comes, IsUnread, IsRead
  <2> QED BY <1>2, <2>2, <2>3, <2>4, <2>6, HandsStep
<1> QED BY <1>4, <1>5

\* A consumer that drops a message unacknowledged has a reason: the message does
\* not parse, a call failed, its context is cancelled, or a registration is gone.
LEMMA ReturnBill ==
  ASSUME DeliveryInv, TurnInv, BillInv, NEW c \in Consumer,
         \/ SkipUnparsable(c) \/ StoreFails(c) \/ Acknowledge(c) \/ AcknowledgeFails(c)
         \/ \E r \in Reg : SecretGone(c, r)
  PROVE  TurnInv' /\ BillInv'
<1>1. Types /\ JobInv(c) /\ OnlyRegistered
  BY DEF DeliveryInv
<1>2. batch[c] # <<>> /\ batch[c] \in Seq(Event) /\ Head(batch[c]) \in Event
  BY <1>1, BatchTail DEF SkipUnparsable, StoreFails, Acknowledge, AcknowledgeFails, SecretGone, At, Types, LoopTypes
<1>3. /\ UNCHANGED <<bus, stream, group, regs, results, up>>
      /\ batch' = [batch EXCEPT ![c] = Tail(batch[c])]
      /\ trouble' \in {trouble, trouble + 1}
  BY DEF SkipUnparsable, StoreFails, Acknowledge, AcknowledgeFails, SecretGone, HandlerFails, HandlerReturns,
         Trouble, redis, store
<1>4. /\ job' = job \/ job' = [job EXCEPT ![c] = Free]
      /\ job'[c].step = "idle"
  <2>1. CASE SkipUnparsable(c)
    BY <1>1, <2>1 DEF SkipUnparsable, JobInv
  <2>2. CASE job' = [job EXCEPT ![c] = Free]
    BY <1>1, <2>2 DEF Types, JobTypes, Free
  <2> QED BY <2>1, <2>2 DEF StoreFails, Acknowledge, AcknowledgeFails, SecretGone, HandlerFails, HandlerReturns
<1>5. pending' = pending \/ pending' = [pending EXCEPT ![Head(batch[c])] = "no"]
  BY DEF SkipUnparsable, StoreFails, Acknowledge, AcknowledgeFails, SecretGone, HandlerFails, redis
<1>6. \/ trouble' = trouble + 1
      \/ job[c].step = "idle" \/ up[c] = "closing"
      \/ bus = "memory" \/ pending'[Head(batch[c])] = "no"
      \/ \E d \in Deleted : job[c].step # "idle" /\ d \in job[c].todo
  <2>1. CASE SkipUnparsable(c)
    BY <1>1, <2>1 DEF SkipUnparsable, JobInv
  <2>2. CASE StoreFails(c) \/ AcknowledgeFails(c)
    BY <2>2 DEF StoreFails, AcknowledgeFails, Trouble
  <2>3. CASE Acknowledge(c)
    <3>1. up[c] = "closing" \/ pending' = [pending EXCEPT ![Head(batch[c])] = "no"]
      BY <2>3 DEF Acknowledge
    <3> QED BY <1>1, <1>2, <3>1 DEF Types, BusTypes
  <2>4. ASSUME NEW r \in Reg, SecretGone(c, r)
        PROVE  \E d \in Deleted : job[c].step # "idle" /\ d \in job[c].todo
    <3>1. r \in job[c].todo /\ regs[r] # "on" /\ job[c].step = "next"
      BY <2>4 DEF SecretGone, At
    <3>2. regs[r] = "deleted"
      BY <1>1, <3>1 DEF OnlyRegistered, Types, StoreTypes
    <3> QED BY <3>1, <3>2 DEF Deleted
  <2> QED BY <2>1, <2>2, <2>3, <2>4
<1> QED BY <1>2, <1>3, <1>4, <1>5, <1>6, DropsStep

LEMMA LossBill ==
  ASSUME DeliveryInv, TurnInv, BillInv, NEW c \in Consumer, Close(c) \/ Crash(c)
  PROVE  TurnInv' /\ BillInv'
<1>1. /\ UNCHANGED <<bus, stream, group, pending, regs, results>> /\ trouble' = trouble + 1
      /\ \A d \in Consumer \ {c} : up'[d] = up[d] /\ batch'[d] = batch[d] /\ job'[d] = job[d]
  BY DEF Close, Crash, Trouble, redis, store, DeliveryInv, Types, LoopTypes, JobTypes
<1>2. \/ batch'[c] = <<>> /\ job'[c].step = "idle"
      \/ batch'[c] = batch[c] /\ job'[c] = job[c]
  BY DEF Close, Crash, Free, DeliveryInv, Types, LoopTypes, JobTypes
<1> QED BY <1>1, <1>2, LosesStep

\* The handler goes from registration to registration, and comes to each once.
LEMMA AtWorkBill ==
  ASSUME DeliveryInv, DeliveryInv', TurnInv, BillInv, NEW c \in Consumer,
         \/ List(c) \/ Post(c) \/ Record(c) \/ \E r \in Reg : LoadSecret(c, r)
  PROVE  TurnInv' /\ BillInv'
<1>1. /\ Types /\ JobInv(c) /\ NotTwice(c) /\ job[c] \in Job /\ Free \in Job
      /\ batch[c] # <<>>
  BY FreeIsAJob DEF DeliveryInv, TurnInv, Types, JobTypes, List, Post, Record, LoadSecret, At
<1>2. /\ UNCHANGED <<bus, stream, group, pending, regs, up, batch, trouble>>
      /\ \A d \in Consumer \ {c} : job'[d] = job[d]
  BY <1>1 DEF List, Post, Record, LoadSecret, Ends, redis, store, loop, Types, JobTypes
<1>3. /\ \A e, d : In(d, e)' <=> In(d, e)
      /\ \A e : Handling(c, e) <=> Head(batch[c]) = e /\ job[c].step # "idle"
      /\ \A e : Handling(c, e)' <=> Head(batch[c]) = e /\ job'[c].step # "idle"
  BY <1>1, <1>2 DEF In, Handling
<1>4. ASSUME NotTwice(c)', \A e \in Event, d \in Deleted : Misses(c, d, e)' => Misses(c, d, e),
             \A r \in Reg, e \in Event :
               Records(r, e)' + One(IsAhead(c, r, e)') <= Records(r, e) + One(IsAhead(c, r, e))
      PROVE  TurnInv' /\ BillInv'
  BY <1>2, <1>4, AtWorkStep
<1>5. ASSUME results' = results, NotTwice(c)',
             \A e \in Event, d \in Deleted : Misses(c, d, e)' => Misses(c, d, e),
             \A r \in Reg, e \in Event : IsAhead(c, r, e)' => IsAhead(c, r, e)
      PROVE  TurnInv' /\ BillInv'
  <2>1. ASSUME NEW r \in Reg, NEW e \in Event
        PROVE  Records(r, e)' + One(IsAhead(c, r, e)') <= Records(r, e) + One(IsAhead(c, r, e))
    <3>1. Records(r, e)' = Records(r, e) /\ Records(r, e) \in Nat
      BY <1>1, <1>5, RecordsAreNat DEF Records, Types
    <3>2. One(IsAhead(c, r, e)') <= One(IsAhead(c, r, e))
      BY <1>5 DEF One
    <3>3. One(IsAhead(c, r, e)) \in {0, 1} /\ One(IsAhead(c, r, e)') \in {0, 1}
      BY DEF One
    <3> QED BY <3>1, <3>2, <3>3
  <2> QED BY <1>4, <1>5, <2>1
<1>6. CASE List(c)
  <2>1. /\ job[c].step = "idle" /\ job'[c].step = "next" /\ job'[c].todo = On /\ results' = results
    BY <1>1, <1>6 DEF List, At, store, Types, JobTypes, Job
  <2>2. NotTwice(c)'
    BY <2>1 DEF NotTwice
  <2>3. \A e \in Event, d \in Deleted : Misses(c, d, e)' => Misses(c, d, e)
    BY <2>1 DEF Misses, Deleted, On
  <2>4. \A r \in Reg, e \in Event : IsAhead(c, r, e)' => IsAhead(c, r, e)
    BY <1>3, <2>1 DEF IsAhead
  <2> QED BY <1>5, <2>1, <2>2, <2>3, <2>4
<1>7. ASSUME NEW r \in Reg, LoadSecret(c, r) PROVE TurnInv' /\ BillInv'
  <2>1. /\ job[c].step = "next" /\ r \in job[c].todo /\ results' = results
        /\ job'[c].step = "post" /\ job'[c].reg = r /\ job'[c].todo = job[c].todo \ {r}
    BY <1>1, <1>7 DEF LoadSecret, At, store, Types, JobTypes, Job, Free
  <2>2. NotTwice(c)'
    BY <2>1 DEF NotTwice
  <2>3. \A e \in Event, d \in Deleted : Misses(c, d, e)' => Misses(c, d, e)
    BY <1>3, <2>1 DEF Misses
  <2>4. \A q \in Reg, e \in Event : IsAhead(c, q, e)' => IsAhead(c, q, e)
    BY <1>3, <2>1 DEF IsAhead, StillTo
  <2> QED BY <1>5, <2>1, <2>2, <2>3, <2>4
<1>8. CASE Post(c)
  <2>1. /\ job[c].step = "post" /\ results' = results
        /\ job'[c].step \in {"post", "record"} /\ job'[c].reg = job[c].reg /\ job'[c].todo = job[c].todo
    BY <1>1, <1>8 DEF Post, Ends, At, store, Types, JobTypes, Job
  <2>2. NotTwice(c)'
    BY <1>1, <2>1 DEF NotTwice
  <2>3. \A e \in Event, d \in Deleted : Misses(c, d, e)' => Misses(c, d, e)
    BY <1>3, <2>1 DEF Misses
  <2>4. \A q \in Reg, e \in Event : IsAhead(c, q, e)' => IsAhead(c, q, e)
    BY <1>3, <2>1 DEF IsAhead, StillTo
  <2> QED BY <1>5, <2>1, <2>2, <2>3, <2>4
<1>9. CASE Record(c)
  <2> DEFINE h == Head(batch[c])
             q == job[c].reg
             o == job[c].result
  <2>1. /\ job[c].step = "record" /\ q \notin job[c].todo /\ q \in Reg /\ o \in Outcomes /\ h \in Event
        /\ job'[c].step = "next" /\ job'[c].todo = job[c].todo
        /\ results' = [results EXCEPT ![q][h][o] = @ + 1]
    <3>1. h \in Event
      BY <1>1, BatchTail DEF Types, LoopTypes
    <3>2. q \notin job[c].todo /\ q \in Reg /\ o \in Outcomes
      BY <1>1, <1>9 DEF Record, At, NotTwice, JobInv, Job
    <3> QED BY <1>1, <1>9, <3>1, <3>2 DEF Record, At, Types, JobTypes, Job, Free
  <2> HIDE DEF h, q, o
  <2>2. NotTwice(c)'
    BY <2>1 DEF NotTwice
  <2>3. \A e \in Event, d \in Deleted : Misses(c, d, e)' => Misses(c, d, e)
    BY <1>3, <2>1 DEF Misses
  <2>4. ASSUME NEW r \in Reg, NEW e \in Event
        PROVE  Records(r, e)' + One(IsAhead(c, r, e)') <= Records(r, e) + One(IsAhead(c, r, e))
    <3>1. /\ Records(r, e) \in Nat
          /\ One(IsAhead(c, r, e)) \in {0, 1} /\ One(IsAhead(c, r, e)') \in {0, 1}
      BY <1>1, RecordsAreNat DEF One, Types
    <3>2. CASE r = q /\ e = h
      <4>1. IsAhead(c, r, e) /\ ~IsAhead(c, r, e)'
        <5>1. In(c, e)
          BY <1>1, <3>2, BatchTail DEF In, h, Types, LoopTypes
        <5>2. Handling(c, e) /\ Handling(c, e)'
          BY <1>3, <2>1, <3>2 DEF h
        <5> QED BY <2>1, <3>2, <5>1, <5>2 DEF IsAhead, StillTo, q
      <4>2. Records(r, e)' = Records(r, e) + 1
        BY <1>1, <2>1, <3>2, RecordsAreNat DEF Records, Types, StoreTypes, Outcomes
      <4>3. One(IsAhead(c, r, e)) = 1 /\ One(IsAhead(c, r, e)') = 0
        BY <4>1 DEF One
      <4> QED BY <3>1, <4>2, <4>3
    <3>3. CASE ~(r = q /\ e = h)
      <4>1. results'[r][e] = results[r][e]
        BY <1>1, <2>1, <3>3 DEF Types, StoreTypes
      <4>2. Records(r, e)' = Records(r, e)
        BY <4>1 DEF Records
      <4>3. IsAhead(c, r, e)' => IsAhead(c, r, e)
        BY <1>3, <2>1 DEF IsAhead, StillTo
      <4>4. One(IsAhead(c, r, e)') <= One(IsAhead(c, r, e))
        BY <4>3 DEF One
      <4> QED BY <3>1, <4>2, <4>4
    <3> QED BY <3>2, <3>3
  <2> QED BY <1>4, <2>2, <2>3, <2>4
<1> QED BY <1>6, <1>7, <1>8, <1>9

LEMMA CountStep == DeliveryInv /\ DeliveryInv' /\ TurnInv /\ BillInv /\ [Next]_vars => TurnInv' /\ BillInv'
<1> SUFFICES ASSUME DeliveryInv, DeliveryInv', TurnInv, BillInv, [Next]_vars PROVE TurnInv' /\ BillInv'
  OBVIOUS
<1>1. CASE UNCHANGED vars
  <2>1. /\ UNCHANGED <<bus, stream, group, pending, regs, results, up, batch, job, trouble>>
        /\ group' \in Int /\ group <= group'
    BY <1>1 DEF vars, redis, store, loop, DeliveryInv, Types, BusTypes, NoGroup
  <2>2. \A e : Comes(e)' <=> Comes(e)
    BY <2>1 DEF Comes, Published, IsUnread, InHand
  <2>3. \A c, e : IsLeaving(c, e)' <=> IsLeaving(c, e)
    BY <2>1 DEF IsLeaving, In
  <2> QED BY <2>1, <2>2, <2>3, SameHandsStep
<1>2. ASSUME NEW r \in Reg, Register(r) \/ Delete(r) PROVE TurnInv' /\ BillInv'
  BY <1>2, RegistrationBill
<1>3. ASSUME NEW e \in Event, Publish(e) PROVE TurnInv' /\ BillInv'
  <2>1. /\ e \notin Published /\ stream' = Append(stream, e) /\ batch' = batch
        /\ UNCHANGED <<bus, group, pending, regs, results, up, job, trouble>>
    BY <1>3 DEF Publish, store, loop
  <2> QED BY <2>1, PublishBill
<1>4. ASSUME NEW e \in Event, EntryIdles(e) \/ Overtake(e) PROVE TurnInv' /\ BillInv'
  BY <1>4, QuietBill
<1>5. ASSUME NEW c \in Consumer, NEW e \in Event, PublishInMemory(c, e) PROVE TurnInv' /\ BillInv'
  <2>1. /\ e \notin Published /\ stream' = Append(stream, e)
        /\ bus = "memory" /\ up[c] = "up" /\ batch[c] = <<>> /\ batch' = [batch EXCEPT ![c] = <<e>>]
        /\ UNCHANGED <<bus, group, pending, regs, results, up, job, trouble>>
    BY <1>5 DEF PublishInMemory, store
  <2> QED BY <2>1, PublishBill
<1>6. ASSUME NEW c \in Consumer,
             \/ Subscribe(c) \/ Proceeds(c) \/ ReplyLost(c) \/ StoreFails(c) \/ AcknowledgeFails(c)
             \/ Close(c) \/ Crash(c)
      PROVE  TurnInv' /\ BillInv'
  BY <1>6, UpDownBill, LostBill, PollBill, ReturnBill, LossBill, AtWorkBill DEF Proceeds
<1> QED BY <1>1, <1>2, <1>3, <1>4, <1>5, <1>6 DEF Next

\* At most once but for what went wrong: a registration has more than one record of
\* an event only for a failed call, a crash, a closing or a deletion each, however
\* often the event is claimed again and whoever claims it.
THEOREM RepeatsHaveCauses == Spec => []RepeatsAreCaused
<1>1. Init => TurnInv /\ BillInv
  BY InitBill
<1>2. DeliveryInv /\ DeliveryInv' /\ (TurnInv /\ BillInv) /\ [Next]_vars => (TurnInv /\ BillInv)'
  BY CountStep
<1>3. DeliveryInv /\ BillInv => RepeatsAreCaused
  <2> SUFFICES ASSUME DeliveryInv, BillInv, NEW r \in Reg, NEW e \in Event
               PROVE  Records(r, e) <= 1 + trouble + Cardinality(Deleted)
    BY DEF RepeatsAreCaused, Records, Deleted
  <2>1. Bill(r, e) <= 1 + trouble + Cardinality(Deleted) /\ trouble \in Nat
    BY DEF BillInv, DeliveryInv, Types, TroubleTypes
  <2>2. Records(r, e) \in Nat
    BY RecordsAreNat DEF DeliveryInv, Types
  <2>3. One(Comes(e)) \in {0, 1}
    BY DEF One
  <2> QED BY <2>1, <2>2, <2>3, Finiteness DEF Bill
<1> QED BY <1>1, <1>2, <1>3, DeliveryInvariance, PTL DEF Spec
=============================================================================

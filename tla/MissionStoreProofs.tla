------------------------- MODULE MissionStoreProofs -------------------------
(***************************************************************************)
(* Proofs about MissionStore for any clients, agents, reports, results,    *)
(* faults, requests and restarts.                                          *)
(***************************************************************************)
EXTENDS MissionStore, SequenceLemmas, FiniteSetTheorems, SequenceTheorems, TLAPS

-----------------------------------------------------------------------------
(* Events. *)

Types == {"created", "worker", "artifact", "report", "card", "correction", "queued", "closed", "skill"}
Payload == UNION {Data[t] : t \in Types}
\* There is one creation: all have the same id.
Event == {e \in [type : Types, key : Nat, data : Payload] :
             e.data \in Data[e.type] /\ (e.type = "created" => e.key = 0)}
Card == [id : ReportIds, sig : Signatures, at : Nat]
Item == [id : Items, status : ItemStatuses, report : ReportIds, by : Makers]
Entry == Event \cup {Gap}

\* The payloads of the types.
LEMMA DataLemma ==
    /\ DOMAIN Data = Types
    /\ Data["created"] = [id : {0}] /\ Data["worker"] = [id : Agents]
    /\ Data["artifact"] = [id : Artifacts] /\ Data["report"] = Report
    /\ Data["card"] = Card
    /\ Data["correction"] = [id : ReportIds, action : {"retry", "stop_same_error", "require_human"}]
    /\ Data["queued"] = Item
    /\ Data["closed"] = [status : Closings, item : Items \cup {NoItem}]
    /\ Data["skill"] = [id : {0, 1}]
BY DEF Data, Types, Card, Item

\* What Ev makes is an event.
LEMMA EvLemma ==
    ASSUME NEW t \in Types, NEW k \in Nat, NEW d \in Data[t], t = "created" => k = 0
    PROVE  /\ Ev(t, k, d) \in Event
           /\ Ev(t, k, d).type = t /\ Ev(t, k, d).key = k /\ Ev(t, k, d).data = d
           /\ EventId(Ev(t, k, d)) = <<t, k>>
<1>1. d \in Payload BY DEF Payload
<1> QED BY <1>1 DEF Ev, Event, EventId

\* An event is one, and no gap; the type decides what it carries.
LEMMA EventLemma ==
    ASSUME NEW e \in Event
    PROVE  /\ IsEvent(e) /\ e.type \in Types /\ e.key \in Nat /\ e.type # "gap"
           /\ e.type = "worker" => e.data \in [id : Agents]
           /\ e.type = "report" => e.data \in Report
           /\ e.type = "card" => e.data \in Card
           /\ e.type = "queued" => e.data \in Item
           /\ e.type = "closed" => e.data \in [status : Closings, item : Items \cup {NoItem}]
<1>1. e.type \in Types /\ e.key \in Nat /\ e.data \in Data[e.type] BY DEF Event
<1>2. "gap" \notin Types BY DEF Types
<1> QED BY <1>1, <1>2, DataLemma DEF IsEvent

\* What is in a log is an event if it is no gap.
LEMMA EntryLemma ==
    /\ \A e \in Entry : e.type # "gap" => e \in Event
    /\ \A e \in Event : e \in Entry
    /\ Gap \in Entry /\ Gap.type = "gap" /\ Gap \notin Event
<1>1. Gap.type = "gap" BY DEF Gap, Ev
<1>2. Gap \notin Event BY <1>1 DEF Event, Types
<1> QED BY <1>1, <1>2 DEF Entry

-----------------------------------------------------------------------------
(* The mission that a log tells. *)

\* What was the first of its id stays the first when the log goes on.
LEMMA FirstsLemma ==
    ASSUME NEW l \in Seq(Entry), NEW m \in Seq(Entry), Prefix(l, m), NEW type
    PROVE  \A i \in Firsts(l, type) : i \in Firsts(m, type) /\ m[i] = l[i]
<1>1. /\ DOMAIN l = 1..Len(l) /\ DOMAIN m = 1..Len(m) /\ Len(l) \in Nat /\ Len(m) \in Nat
      /\ Len(l) <= Len(m) /\ \A i \in 1..Len(l) : m[i] = l[i]
    BY LenProperties DEF Prefix
<1>2. SUFFICES ASSUME NEW i \in Firsts(l, type) PROVE i \in Firsts(m, type) /\ m[i] = l[i] OBVIOUS
<1>3. i \in DOMAIN l /\ l[i].type = type /\ i \in Nat BY <1>1 DEF Firsts, At
<1>4. PICK k \in 1..(i - 1) : l[k].type = "created" BY DEF Firsts, At
<1>5. m[i] = l[i] /\ m[k] = l[k] /\ i \in DOMAIN m BY <1>1, <1>3, <1>4
<1>6. i \in At(m, type) BY <1>3, <1>4, <1>5 DEF At
<1>7. ASSUME NEW j \in At(m, type), m[j].data.id = m[i].data.id PROVE i <= j
  <2>1. SUFFICES ASSUME j \in DOMAIN l PROVE i <= j BY <1>1, <1>3 DEF At
  <2>2. PICK h \in 1..(j - 1) : m[h].type = "created" BY DEF At
  <2>3. m[j] = l[j] /\ m[h] = l[h] /\ h \in DOMAIN l BY <1>1, <2>1, <2>2
  <2>4. j \in At(l, type) BY <2>1, <2>2, <2>3 DEF At
  <2> QED BY <1>5, <1>7, <2>3, <2>4 DEF Firsts
<1> QED BY <1>5, <1>6, <1>7 DEF Firsts

\* A longer log tells at least as much: what was first stays first.
LEMMA PrefixLemma ==
    ASSUME NEW l \in Seq(Entry), NEW m \in Seq(Entry), Prefix(l, m)
    PROVE  Reports(l) \subseteq Reports(m) /\ (Exists(l) => Exists(m))
<1>1. /\ DOMAIN l = 1..Len(l) /\ DOMAIN m = 1..Len(m) /\ Len(l) \in Nat /\ Len(m) \in Nat
      /\ Len(l) <= Len(m) /\ \A i \in 1..Len(l) : m[i] = l[i]
    BY LenProperties DEF Prefix
<1>2. Reports(l) \subseteq Reports(m) BY FirstsLemma DEF Reports
<1>3. Exists(l) => Exists(m) BY <1>1 DEF Exists
<1> QED BY <1>2, <1>3

\* What the mission has is of the right kind, and its items have one state each.
LEMMA MissionLemma ==
    ASSUME NEW l \in Seq(Entry)
    PROVE  /\ Reports(l) \subseteq Report
           /\ \A t \in Types : \A i \in At(l, t) : l[i] \in Event /\ l[i].type = t /\ i \in DOMAIN l
           /\ Workers(l) \subseteq Agents
           /\ MergeItems(l) \subseteq Item
           /\ \A a, b \in MergeItems(l) : a.id = b.id => a = b
           /\ NextSeq(l) \in Nat /\ Cardinality(MergeItems(l)) \in Nat
           /\ \A r \in Reports(l) : \E i \in DOMAIN l :
                 l[i] \in Event /\ l[i].type = "report" /\ l[i].data = r
<1>1. DOMAIN l = 1..Len(l) /\ Len(l) \in Nat /\ \A i \in DOMAIN l : l[i] \in Entry
    BY LenProperties, ElementOfSeq
<1>2. ASSUME NEW t \in Types, NEW i \in At(l, t)
      PROVE  l[i] \in Event /\ l[i].type = t /\ i \in DOMAIN l
  <2>1. l[i].type = t /\ i \in DOMAIN l /\ t # "gap" BY DEF At, Types
  <2> QED BY <1>1, <2>1, EntryLemma
<1>3. \A t : Firsts(l, t) \subseteq At(l, t) /\ Latest(l, t) \subseteq At(l, t) BY DEF Firsts, Latest
<1>4. {"report", "worker", "queued", "artifact"} \subseteq Types BY DEF Types
<1>5. Reports(l) \subseteq Report BY <1>2, <1>3, <1>4, EventLemma DEF Reports
<1>6. Workers(l) \subseteq Agents
  <2>1. ASSUME NEW i \in Firsts(l, "worker") PROVE l[i].data.id \in Agents
    <3>1. l[i].data \in [id : Agents] BY <1>2, <1>3, <1>4, EventLemma
    <3> QED BY <3>1
  <2> QED BY <2>1 DEF Workers
<1>7. MergeItems(l) \subseteq Item
    BY <1>2, <1>3, <1>4, EventLemma DEF MergeItems
<1>8. ASSUME NEW i \in Latest(l, "queued"), NEW j \in Latest(l, "queued"), l[i].data.id = l[j].data.id
      PROVE  l[i].data = l[j].data
  <2>1. i <= j /\ j <= i BY <1>8 DEF Latest
  <2>2. i \in Nat /\ j \in Nat BY <1>1, <1>2, <1>3, <1>4
  <2> QED BY <2>1, <2>2
<1>9. \A a, b \in MergeItems(l) : a.id = b.id => a = b BY <1>8 DEF MergeItems
<1>10. \A t : At(l, t) \subseteq DOMAIN l BY DEF At
<1>11. IsFiniteSet(DOMAIN l) BY <1>1, FS_Interval
<1>12. \A t : IsFiniteSet(Firsts(l, t)) /\ IsFiniteSet(Latest(l, t))
    BY <1>3, <1>10, <1>11, FS_Subset
<1>13. NextSeq(l) \in Nat
  <2>1. /\ Cardinality(Firsts(l, "worker")) \in Nat /\ Cardinality(Firsts(l, "artifact")) \in Nat
        /\ Cardinality(Firsts(l, "report")) \in Nat
      BY <1>12, FS_CardinalityType
  <2> QED BY <2>1 DEF NextSeq
<1>14. Cardinality(MergeItems(l)) \in Nat
  <2>1. IsFiniteSet({l[i].data : i \in Latest(l, "queued")})
    <3> DEFINE S == Latest(l, "queued")
               T == {l[i].data : i \in S}
               f == [i \in S |-> l[i].data]
    <3>1. f \in Surjection(S, T) BY DEF Surjection
    <3> QED BY <1>12, <3>1, FS_Surjection
  <2> QED BY <2>1, FS_CardinalityType DEF MergeItems
<1>15. \A r \in Reports(l) : \E i \in DOMAIN l :
           l[i] \in Event /\ l[i].type = "report" /\ l[i].data = r
    BY <1>2, <1>3, <1>4 DEF Reports
<1> QED BY <1>2, <1>5, <1>6, <1>7, <1>9, <1>13, <1>14, <1>15

-----------------------------------------------------------------------------
(* The inductive invariant. *)

Kinds == {"create", "append", "verify", "merge"}
Thens == {"answer", "react", "correct", "skills"}
Op == [kind : Kinds, step : {"run", "store", "react", "correct", "skills"}, seen : Nat,
       made : SUBSET Event, agent : Agents \cup {NoAgent}, item : Items \cup {NoItem}]
Pushed == [client : Clients, events : Seq(Event), then : Thens]

TypeInv ==
    /\ log \in Seq(Entry) /\ queue \in Seq(Pushed)
    /\ ops \in [Clients -> {Idle} \cup Op]
    /\ nonce \in Nat /\ clock \in Nat /\ passLost \in BOOLEAN
    /\ started \in 0..MaxOps /\ restarts \in 0..MaxRestarts
    /\ merges \subseteq [item : Items, report : ReportIds, epoch : 0..restarts]
    /\ answered \subseteq [epoch : 0..restarts, kind : Kinds, events : SUBSET Event]

\* Memory has one event per id, and what is not saved is in memory.
LogInv ==
    /\ \A i, j \in Present : EventId(log[i]) = EventId(log[j]) => i = j
    /\ unsaved \subseteq StoredIds

\* An event outlives the process; an event waits for the storage.
Kept(e) == (\E i \in DOMAIN log : log[i] = e) /\ EventId(e) \notin unsaved
Waits(c, e) ==
    \E i \in DOMAIN queue :
        queue[i].client = c /\ \E k \in DOMAIN queue[i].events : queue[i].events[k] = e

\* What the reaction to a failing verification, and the skills of a merge, need of
\* the events made so far.
Ready(made, then) ==
    /\ then = "react" => /\ \E e \in made : e.type = "report"
                         /\ \A e \in made : e.type = "report" => e.data.sig \in Signatures
    /\ then = "correct" => \E e \in made : e.type = "card"
    /\ then = "skills" =>
          \E e \in made : e.type = "queued" /\ e.data.by = "server" /\ e.data.status = "merged"

\* What the server stores as merged was merged by git, and its skills were learned
\* from a merge.
Real(e, done) ==
    /\ e.type = "closed" /\ e.data.item # NoItem => \E m \in done : m.item = e.data.item
    /\ e.type = "queued" /\ e.data.by = "server" /\ e.data.status = "merged" =>
          \E m \in done : m.item = e.data.id /\ m.report = e.data.report
    /\ e.type = "skill" => done # {}

Distinct(events) ==
    \A i, j \in DOMAIN events : EventId(events[i]) = EventId(events[j]) => i = j

\* A request pushes, and waits for its push.
QueueInv ==
    /\ \A i \in DOMAIN queue :
          /\ ops[queue[i].client].step = "store"
          /\ Ready(ops[queue[i].client].made, queue[i].then)
          /\ Distinct(queue[i].events)
          /\ \A k \in DOMAIN queue[i].events : Real(queue[i].events[k], merges)
    /\ \A i, j \in DOMAIN queue : queue[i].client = queue[j].client => i = j

\* A merge that has read the mission found an item that may be merged.
Found(l, op) == op.item \in Items /\ \E m \in MergeItems(l) : m.id = op.item /\ MayMerge(l, m)

\* What a request has made is kept or waits; what it has read is still there.
OpInv(c) ==
    ops[c] # Idle =>
        /\ ops[c].seen <= Len(log)
        /\ ops[c].step = "run" => ops[c].made = {}
        /\ ops[c].step = "run" /\ ops[c].kind = "merge" => Found(Seen(c), ops[c])
        /\ Ready(ops[c].made, ops[c].step)
        /\ \A e \in ops[c].made : Kept(e) \/ Waits(c, e)

\* A merge of this process has a visible pass.
HasPass(l, m) == \E r \in Reports(l) : r.id = m.report /\ ObservedPass(r)
MergeInv == \A m \in merges : m.epoch = restarts => HasPass(log, m)
RealInv == \A i \in DOMAIN log : Real(log[i], merges)
AnswerInv == \A a \in answered : \A e \in a.events : Kept(e)

IInv ==
    /\ TypeInv /\ LogInv /\ QueueInv /\ MergeInv /\ RealInv /\ AnswerInv
    /\ \A c \in Clients : OpInv(c)

\* The queue and the log are sequences of their kinds of records.
LEMMA SequenceTypes ==
    ASSUME TypeInv
    PROVE  /\ DOMAIN queue = 1..Len(queue) /\ Len(queue) \in Nat
           /\ \A i \in DOMAIN queue : queue[i] \in Pushed
           /\ DOMAIN log = 1..Len(log) /\ Len(log) \in Nat
           /\ \A i \in DOMAIN log : log[i] \in Entry
<1>1. queue \in Seq(Pushed) /\ log \in Seq(Entry) BY DEF TypeInv
<1>2. /\ DOMAIN queue = 1..Len(queue) /\ Len(queue) \in Nat
      /\ DOMAIN log = 1..Len(log) /\ Len(log) \in Nat
    BY <1>1, LenProperties
<1> QED BY <1>1, <1>2, ElementOfSeq

\* The invariant gives the types of the module.
LEMMA TypesFollow == IInv => TypeOK
<1> SUFFICES ASSUME IInv PROVE TypeOK OBVIOUS
<1>1. TypeInv /\ LogInv /\ QueueInv BY DEF IInv
<1>2. \A i \in Present : IsEvent(log[i])
  <2>1. ASSUME NEW i \in Present PROVE IsEvent(log[i])
    <3>1. log[i] \in Entry /\ log[i].type # "gap" BY <1>1, SequenceTypes DEF Present
    <3> QED BY <3>1, EntryLemma, EventLemma
  <2> QED BY <2>1
<1>3. ASSUME NEW i \in DOMAIN queue
      PROVE  /\ queue[i].client \in Clients /\ queue[i].then \in Thens
             /\ \A k \in DOMAIN queue[i].events : IsEvent(queue[i].events[k])
  <2>1. /\ queue[i].client \in Clients /\ queue[i].then \in Thens /\ queue[i].events \in Seq(Event)
      BY <1>1, SequenceTypes DEF Pushed
  <2>2. \A k \in DOMAIN queue[i].events : queue[i].events[k] \in Event
      BY <2>1, LenProperties, ElementOfSeq
  <2> QED BY <2>1, <2>2, EventLemma
<1>4. ASSUME NEW c \in Clients, ops[c] # Idle PROVE IsOp(ops[c])
  <2>1. ops[c] \in Op BY <1>1, <1>4 DEF TypeInv
  <2>2. OpInv(c) BY DEF IInv
  <2>3. ops[c].seen \in 0..Len(log) BY <1>1, <1>4, <2>1, <2>2, SequenceTypes DEF OpInv, Op
  <2>4. \A e \in ops[c].made : IsEvent(e) BY <2>1, EventLemma DEF Op
  <2> QED BY <2>1, <2>3, <2>4 DEF Op, IsOp, Kinds
<1>5. \A m \in merges : m.item \in Items /\ m.report \in ReportIds /\ m.epoch \in 0..restarts
    BY <1>1 DEF TypeInv
<1>6. ASSUME NEW a \in answered PROVE a.epoch \in 0..restarts /\ \A e \in a.events : IsEvent(e)
  <2>1. a \in [epoch : 0..restarts, kind : Kinds, events : SUBSET Event] BY <1>1 DEF TypeInv
  <2> QED BY <2>1, EventLemma
<1> QED BY <1>1, <1>2, <1>3, <1>4, <1>5, <1>6 DEF TypeOK, TypeInv, LogInv, QueueInv, Thens

-----------------------------------------------------------------------------
(* Steps of a request. *)

\* A request that does not wait has no push in the queue, and all it has made
\* is kept.
LEMMA NotWaiting ==
    ASSUME IInv, NEW c \in Clients, ops[c].step # "store"
    PROVE  /\ \A i \in DOMAIN queue : queue[i].client # c
           /\ ops[c] # Idle => \A e \in ops[c].made : Kept(e)
<1>1. \A i \in DOMAIN queue : queue[i].client # c BY DEF IInv, QueueInv
<1>2. OpInv(c) BY DEF IInv
<1> QED BY <1>1, <1>2 DEF OpInv, Waits

\* A request is idle, or it is known how far it has come.
LEMMA OpTypes ==
    ASSUME IInv, NEW c \in Clients
    PROVE  /\ DOMAIN ops = Clients /\ Idle.step = "idle"
           /\ ops[c] # Idle => ops[c] \in Op /\ ops[c].step # "idle"
           /\ ops[c].step # "idle" => ops[c] # Idle
BY DEF IInv, TypeInv, Op, Idle

\* A request that pushes events keeps the invariant, if it has nothing else in
\* the queue and its events have different ids, are true, and are what is needed
\* for what follows.
LEMMA PushStep ==
    ASSUME IInv, NEW c \in Clients, NEW op \in Op, NEW events \in Seq(Event), NEW then \in Thens,
           PushEvents(c, op, events, then),
           ops[c].step # "store", op.seen <= Len(log),
           \A e \in op.made : Kept(e),
           Distinct(events),
           \A k \in DOMAIN events : Real(events[k], merges'),
           Ready(op.made \cup {events[k] : k \in DOMAIN events}, then),
           UNCHANGED <<log, unsaved, answered, passLost, restarts>>,
           nonce' \in Nat /\ clock' \in Nat, started' \in 0..MaxOps,
           merges \subseteq merges',
           merges' \subseteq [item : Items, report : ReportIds, epoch : 0..restarts],
           \A m \in merges' \ merges : HasPass(log, m)
    PROVE  IInv'
<1>1. TypeInv /\ LogInv /\ QueueInv /\ MergeInv /\ RealInv /\ AnswerInv BY DEF IInv
<1>2. PICK new \in Pushed : new = [client |-> c, events |-> events, then |-> then] BY DEF Pushed
<1>3. PICK made \in SUBSET Event : made = op.made \cup {events[k] : k \in DOMAIN events}
  <2>1. \A k \in DOMAIN events : events[k] \in Event BY LenProperties, ElementOfSeq
  <2> QED BY <2>1 DEF Op
<1>4. PICK next \in Op : next = [op EXCEPT !.step = "store", !.made = made] BY DEF Op
<1>5. /\ next.step = "store" /\ next.made = made /\ next.seen = op.seen /\ next.step # "run"
      /\ new.client = c /\ new.events = events /\ new.then = then
    BY <1>2, <1>4 DEF Op
<1>6. queue' = Append(queue, new) /\ ops' = [ops EXCEPT ![c] = next]
    BY <1>2, <1>3, <1>4 DEF PushEvents
<1>7. queue \in Seq(Pushed) BY <1>1 DEF TypeInv
<1>8. Longer(queue', queue, Pushed, new) BY ONLY <1>2, <1>6, <1>7, PushLemma
<1>9. /\ ops'[c] = next
      /\ \A d \in Clients : d # c => ops'[d] = ops[d]
    BY <1>1, <1>6 DEF TypeInv
<1>10. TypeInv'
  <2>1. ops' \in [Clients -> {Idle} \cup Op] BY <1>1, <1>6 DEF TypeInv
  <2>2. queue' \in Seq(Pushed) BY <1>8 DEF Longer
  <2> QED BY <1>1, <2>1, <2>2 DEF TypeInv
<1>11. LogInv' BY <1>1 DEF LogInv, Present, StoredIds
<1>12. \A e, d : Real(e, merges) => Real(e, merges') BY DEF Real
<1>13. \A i \in DOMAIN queue : queue[i].client # c BY NotWaiting
<1>14. ASSUME NEW i \in DOMAIN queue'
       PROVE  /\ ops'[queue'[i].client].step = "store"
              /\ Ready(ops'[queue'[i].client].made, queue'[i].then)
              /\ Distinct(queue'[i].events)
              /\ \A k \in DOMAIN queue'[i].events : Real(queue'[i].events[k], merges')
  <2>1. CASE i \in DOMAIN queue
    <3>1. queue'[i] = queue[i] BY <1>8, <2>1 DEF Longer
    <3>2. queue[i].client \in Clients /\ queue[i].client # c BY <1>1, <1>13, <2>1, SequenceTypes DEF Pushed
    <3>3. ops'[queue[i].client] = ops[queue[i].client] BY <1>9, <3>2
    <3>4. /\ ops[queue[i].client].step = "store"
          /\ Ready(ops[queue[i].client].made, queue[i].then)
          /\ Distinct(queue[i].events)
          /\ \A k \in DOMAIN queue[i].events : Real(queue[i].events[k], merges)
        BY <1>1, <2>1 DEF QueueInv
    <3> QED BY <1>12, <3>1, <3>3, <3>4
  <2>2. CASE i = Len(queue) + 1
    <3>1. queue'[i] = new BY <1>8, <2>2 DEF Longer
    <3> QED BY <1>3, <1>5, <1>9, <3>1
  <2> QED BY <1>8, <2>1, <2>2 DEF Longer
<1>15. ASSUME NEW i \in DOMAIN queue', NEW j \in DOMAIN queue', queue'[i].client = queue'[j].client
       PROVE  i = j
    BY <1>1, <1>5, <1>8, <1>13, <1>15 DEF Longer, QueueInv
<1>16. QueueInv' BY <1>14, <1>15 DEF QueueInv
<1>17. MergeInv'
  <2>1. ASSUME NEW m \in merges', m.epoch = restarts PROVE HasPass(log, m)
    <3>1. CASE m \in merges BY <1>1, <2>1, <3>1 DEF MergeInv
    <3> QED BY <3>1
  <2> QED BY <2>1 DEF MergeInv
<1>18. RealInv' BY <1>1, <1>12 DEF RealInv
<1>19. AnswerInv' BY <1>1 DEF AnswerInv, Kept
<1>20. ASSUME NEW d \in Clients PROVE OpInv(d)'
  <2>1. CASE d = c
    <3>1. ASSUME NEW e \in made PROVE Kept(e)' \/ Waits(c, e)'
      <4>1. CASE e \in op.made BY <4>1 DEF Kept
      <4>2. CASE e \in {events[k] : k \in DOMAIN events}
        <5>1. PICK n : n = Len(queue) + 1 OBVIOUS
        <5>2. n \in DOMAIN queue' /\ queue'[n] = new
          <6>1. DOMAIN queue' = 1..Len(queue') /\ Len(queue) \in Nat
              BY <1>1, <1>8, LenProperties, SequenceTypes DEF Longer
          <6>2. Len(queue') = Len(queue) + 1 BY <1>2, <1>6, <1>7, AppendProperties
          <6> QED BY <1>8, <5>1, <6>1, <6>2 DEF Longer
        <5> QED BY <1>5, <4>2, <5>2 DEF Waits
      <4> QED BY <1>3, <4>1, <4>2
    <3>2. Ready(made, "store") BY DEF Ready
    <3> QED BY <1>5, <1>9, <2>1, <3>1, <3>2 DEF OpInv
  <2>2. CASE d # c
    <3>1. OpInv(d) /\ ops'[d] = ops[d] BY <1>9, <2>2 DEF IInv
    <3>2. \A e : Kept(e) => Kept(e)' BY DEF Kept
    <3>3. \A e : Waits(d, e) => Waits(d, e)'
      <4>1. \A i \in DOMAIN queue : i \in DOMAIN queue' /\ queue'[i] = queue[i] BY <1>8 DEF Longer
      <4> QED BY <4>1 DEF Waits
    <3> QED BY <3>1, <3>2, <3>3 DEF OpInv, Seen
  <2> QED BY <2>1, <2>2
<1> QED BY <1>10, <1>11, <1>16, <1>17, <1>18, <1>19, <1>20 DEF IInv

\* A request that begins and waits for something else than the storage, or that
\* ends, keeps the invariant.
LEMMA OpStep ==
    ASSUME IInv, NEW c \in Clients, NEW op \in {Idle} \cup Op, ops' = [ops EXCEPT ![c] = op],
           ops[c].step # "store",
           op # Idle => /\ op.step = "run" /\ op.made = {} /\ op.seen = Len(log)
                        /\ op.kind = "merge" => Found(log, op),
           UNCHANGED <<log, unsaved, queue, nonce, clock, merges, passLost, restarts>>,
           started' \in 0..MaxOps,
           answered' \subseteq [epoch : 0..restarts, kind : Kinds, events : SUBSET Event],
           \A a \in answered' \ answered : \A e \in a.events : Kept(e)
    PROVE  IInv'
<1>1. TypeInv /\ LogInv /\ QueueInv /\ MergeInv /\ RealInv /\ AnswerInv BY DEF IInv
<1>2. ops'[c] = op /\ \A d \in Clients : d # c => ops'[d] = ops[d] BY <1>1 DEF TypeInv
<1>3. TypeInv'
  <2>1. ops' \in [Clients -> {Idle} \cup Op] BY <1>1 DEF TypeInv
  <2> QED BY <1>1, <2>1 DEF TypeInv
<1>4. LogInv' /\ MergeInv' /\ RealInv'
    BY <1>1 DEF LogInv, Present, StoredIds, MergeInv, RealInv
<1>5. QueueInv'
  <2>1. ASSUME NEW i \in DOMAIN queue PROVE ops'[queue[i].client] = ops[queue[i].client]
    <3>1. queue[i].client \in Clients /\ queue[i].client # c
        BY <1>1, NotWaiting, SequenceTypes DEF Pushed
    <3> QED BY <1>2, <3>1
  <2> QED BY <1>1, <2>1 DEF QueueInv
<1>6. AnswerInv' BY <1>1 DEF AnswerInv, Kept
<1>7. ASSUME NEW d \in Clients PROVE OpInv(d)'
  <2>1. CASE d = c /\ op # Idle
    <3>1. Len(log) \in Nat /\ SubSeq(log, 1, Len(log)) = log
        BY <1>1, SequenceTypes, SubSeqFull DEF TypeInv
    <3>2. Seen(c)' = log BY <1>2, <2>1, <3>1 DEF Seen
    <3>3. Ready(op.made, op.step) BY <2>1 DEF Ready
    <3> QED BY <1>2, <2>1, <3>1, <3>2, <3>3 DEF OpInv
  <2>2. CASE d = c /\ op = Idle BY <1>2, <2>2 DEF OpInv
  <2>3. CASE d # c
    <3>1. OpInv(d) /\ ops'[d] = ops[d] BY <1>2, <2>3 DEF IInv
    <3> QED BY <3>1 DEF OpInv, Kept, Waits, Seen
  <2> QED BY <2>1, <2>2, <2>3
<1> QED BY <1>3, <1>4, <1>5, <1>6, <1>7 DEF IInv

\* One event is a push of its own.
LEMMA OneEvent ==
    ASSUME NEW e \in Event
    PROVE  /\ <<e>> \in Seq(Event) /\ Distinct(<<e>>)
           /\ {<<e>>[k] : k \in DOMAIN <<e>>} = {e}
           /\ \A k \in DOMAIN <<e>> : <<e>>[k] = e
BY DEF Distinct

\* The creation of a mission is a push.
LEMMA CreateLemma ==
    ASSUME NEW team \in Teams
    PROVE  /\ CreateEvents(team) \in Seq(Event) /\ Distinct(CreateEvents(team))
           /\ \A k \in DOMAIN CreateEvents(team) :
                 CreateEvents(team)[k].type \in {"created", "worker"}
<1> DEFINE first == Ev("created", 0, [id |-> 0])
           rest == [i \in DOMAIN team |-> Ev("worker", i, [id |-> team[i]])]
<1>1. team \in Seq(Agents) /\ Len(team) \in Nat /\ DOMAIN team = 1..Len(team)
    BY AgentsAssumption, LenProperties
<1>2. first \in Event /\ first.type = "created" /\ EventId(first) = <<"created", 0>>
  <2>1. "created" \in Types /\ 0 \in Nat BY DEF Types
  <2>2. [id |-> 0] \in [id : {0}] OBVIOUS
  <2>3. [id |-> 0] \in Data["created"] BY <2>2, DataLemma
  <2> QED BY <2>1, <2>3, EvLemma
<1>3. ASSUME NEW i \in DOMAIN team
      PROVE  rest[i] \in Event /\ rest[i].type = "worker" /\ EventId(rest[i]) = <<"worker", i>>
  <2>1. i \in Nat /\ [id |-> team[i]] \in Data["worker"] BY <1>1, DataLemma, ElementOfSeq
  <2> QED BY <2>1, EvLemma DEF Types
<1>4. rest \in Seq(Event)
  <2>1. \A i \in 1..Len(team) : Ev("worker", i, [id |-> team[i]]) \in Event BY <1>1, <1>3
  <2>2. [i \in 1..Len(team) |-> Ev("worker", i, [id |-> team[i]])] \in Seq(Event)
      BY ONLY <1>1, <2>1, IsASeq
  <2> QED BY <1>1, <2>2
<1>5. <<first>> \in Seq(Event) /\ DOMAIN <<first>> = 1..1 /\ <<first>>[1] = first /\ Len(<<first>>) = 1
    BY <1>2
<1>6. DOMAIN rest = DOMAIN team OBVIOUS
<1> HIDE DEF first, rest
<1>7. PICK all : all = <<first>> \o rest OBVIOUS
<1>8. /\ all \in Seq(Event)
      /\ all[1] = first
      /\ \A i \in DOMAIN rest : all[1 + i] = rest[i]
      /\ \A i \in DOMAIN all : i \in 1..1 \/ i - 1 \in DOMAIN rest
    BY ONLY <1>4, <1>5, <1>7, ConcatLemma
<1>9. ASSUME NEW k \in DOMAIN all
      PROVE  \/ k = 1 /\ all[k] = first
             \/ k - 1 \in DOMAIN team /\ k \in Int /\ all[k] = rest[k - 1]
  <2>1. DOMAIN all = 1..Len(all) /\ Len(all) \in Nat BY <1>8, LenProperties
  <2>2. k \in Int BY <2>1
  <2> QED BY <1>6, <1>8, <2>2
<1>10. Distinct(all)
  <2>1. SUFFICES ASSUME NEW i \in DOMAIN all, NEW j \in DOMAIN all, EventId(all[i]) = EventId(all[j])
                 PROVE  i = j
      BY DEF Distinct
  <2> QED BY <1>2, <1>3, <1>9, <2>1
<1>11. \A k \in DOMAIN all : all[k].type \in {"created", "worker"} BY <1>2, <1>3, <1>9
<1>12. all = CreateEvents(team) BY <1>7 DEF CreateEvents, first, rest
<1> QED BY <1>8, <1>10, <1>11, <1>12

\* What a request starts with.
LEMMA NewOpLemma ==
    ASSUME IInv, NEW kind \in Kinds, NEW agent \in Agents \cup {NoAgent}, NEW item \in Items \cup {NoItem}
    PROVE  \E op \in Op : /\ op = NewOp(kind, agent, item) /\ op.seen = Len(log) /\ op.made = {}
                          /\ op.step = "run" /\ op.kind = kind /\ op.item = item
<1>1. Len(log) \in Nat BY SequenceTypes DEF IInv
<1>2. NewOp(kind, agent, item) \in Op BY <1>1 DEF NewOp, Op
<1>3. PICK op \in Op : op = NewOp(kind, agent, item) BY <1>2
<1>4. /\ op.seen = Len(log) /\ op.made = {} /\ op.step = "run" /\ op.kind = kind /\ op.item = item
    BY <1>3 DEF NewOp
<1> QED BY <1>3, <1>4

\* A request that is idle starts.
LEMMA StartLemma ==
    ASSUME IInv, NEW c \in Clients, Start(c)
    PROVE  ops[c].step # "store" /\ started' \in 0..MaxOps
<1>1. started \in 0..MaxOps /\ MaxOps \in Nat BY BoundsAssumption DEF IInv, TypeInv
<1>2. started' = started + 1 /\ started < MaxOps /\ ops[c] = Idle BY DEF Start
<1> QED BY <1>1, <1>2 DEF Idle

\* POST /missions keeps the invariant.
LEMMA CreateStep == ASSUME IInv, NEW c \in Clients, NEW team \in Teams, Create(c, team) PROVE IInv'
<1>1. PICK op \in Op : op = NewOp("create", NoAgent, NoItem) /\ op.seen = Len(log) /\ op.made = {}
    BY NewOpLemma DEF Kinds
<1>2. PICK events \in Seq(Event) :
          /\ events = CreateEvents(team) /\ Distinct(events)
          /\ \A k \in DOMAIN events : events[k].type \in {"created", "worker"}
    BY CreateLemma
<1>3. PushEvents(c, op, events, "answer") BY <1>1, <1>2 DEF Create
<1>4. ops[c].step # "store" /\ started' \in 0..MaxOps BY StartLemma DEF Create
<1>5. UNCHANGED <<log, unsaved, nonce, clock, merges, answered, passLost, restarts>> BY DEF Create
<1>6. \A k \in DOMAIN events : Real(events[k], merges') BY <1>2 DEF Real
<1>7. op.seen <= Len(log) /\ nonce \in Nat /\ clock \in Nat
      /\ merges \subseteq [item : Items, report : ReportIds, epoch : 0..restarts]
    BY <1>1, SequenceTypes DEF IInv, TypeInv
<1>8. \A e \in op.made : Kept(e) BY <1>1
<1>9. Ready(op.made \cup {events[k] : k \in DOMAIN events}, "answer") BY DEF Ready
<1>10. nonce' \in Nat /\ clock' \in Nat /\ merges \subseteq merges' /\ merges' \ merges = {}
       /\ merges' \subseteq [item : Items, report : ReportIds, epoch : 0..restarts]
    BY <1>5, <1>7
<1> QED BY <1>2, <1>3, <1>4, <1>5, <1>6, <1>7, <1>8, <1>9, <1>10, PushStep DEF Thens

\* An append to the mission keeps the invariant, if its event says nothing of a
\* merge that was not.
LEMMA AppendStep ==
    ASSUME IInv, NEW c \in Clients, NEW type \in Types \ {"created", "skill"}, NEW data \in Data[type],
           type = "closed" => data.item = NoItem, type = "queued" => data.by = "client",
           AppendEvent(c, type, data)
    PROVE  IInv'
<1>1. PICK op \in Op : op = NewOp("append", NoAgent, NoItem) /\ op.seen = Len(log) /\ op.made = {}
    BY NewOpLemma DEF Kinds
<1>2. NextSeq(log) \in Nat BY MissionLemma DEF IInv, TypeInv
<1>3. PICK e \in Event : e = Ev(type, NextSeq(log), data) /\ e.type = type /\ e.data = data
    BY <1>2, EvLemma
<1>4. PICK events \in Seq(Event) :
          events = <<e>> /\ Distinct(events) /\ \A k \in DOMAIN events : events[k] = e
    BY OneEvent
<1>5. PushEvents(c, op, events, "answer") BY <1>1, <1>3, <1>4 DEF AppendEvent
<1>6. ops[c].step # "store" /\ started' \in 0..MaxOps BY StartLemma DEF AppendEvent
<1>7. UNCHANGED <<log, unsaved, nonce, clock, merges, answered, passLost, restarts>> BY DEF AppendEvent
<1>8. \A k \in DOMAIN events : Real(events[k], merges') BY <1>3, <1>4 DEF Real
<1>9. op.seen <= Len(log) /\ nonce \in Nat /\ clock \in Nat
      /\ merges \subseteq [item : Items, report : ReportIds, epoch : 0..restarts]
    BY <1>1, SequenceTypes DEF IInv, TypeInv
<1>10. \A x \in op.made : Kept(x) BY <1>1
<1>11. Ready(op.made \cup {events[k] : k \in DOMAIN events}, "answer") BY DEF Ready
<1>12. nonce' \in Nat /\ clock' \in Nat /\ merges \subseteq merges' /\ merges' \ merges = {}
       /\ merges' \subseteq [item : Items, report : ReportIds, epoch : 0..restarts]
    BY <1>7, <1>9
<1> QED BY <1>4, <1>5, <1>6, <1>7, <1>8, <1>9, <1>10, <1>11, <1>12, PushStep DEF Thens

\* Every append keeps the invariant.
LEMMA AppendOneStep == ASSUME IInv, NEW c \in Clients, AppendOne(c) PROVE IInv'
<1>1. ASSUME NEW agent \in Agents, AppendWorker(c, agent) PROVE IInv'
  <2>1. [id |-> agent] \in Data["worker"] /\ "worker" \in Types BY DataLemma DEF Types
  <2> QED BY <1>1, <2>1, AppendStep DEF AppendWorker
<1>2. ASSUME NEW artifact \in Artifacts, AppendArtifact(c, artifact) PROVE IInv'
  <2>1. [id |-> artifact] \in Data["artifact"] /\ "artifact" \in Types BY DataLemma DEF Types
  <2> QED BY <1>2, <2>1, AppendStep DEF AppendArtifact
<1>3. ASSUME NEW report \in ClientReports, AppendReport(c, report) PROVE IInv'
  <2>1. report \in [id : ReportIds, status : Statuses, observed : BOOLEAN,
                    sig : Signatures \cup {NoError}, evidence : BOOLEAN, at : Nat]
      BY ReportsAssumption
  <2>2. (report.observed /\ report.evidence) \in BOOLEAN OBVIOUS
  <2>3. Normalized(report) \in Report BY <2>1, <2>2 DEF Normalized, Report, Makers
  <2>4. Normalized(report) \in Data["report"] /\ "report" \in Types BY <2>3, DataLemma DEF Types
  <2> QED BY <1>3, <2>4, AppendStep DEF AppendReport
<1>4. ASSUME NEW item \in Items, NEW status \in ClientStatuses, NEW report \in Reports(log),
             AppendQueued(c, item, status, report)
      PROVE  IInv'
  <2>1. report.id \in ReportIds BY MissionLemma DEF IInv, TypeInv, Report
  <2>2. PICK data : data = [id |-> item, status |-> status, report |-> report.id, by |-> "client"]
      OBVIOUS
  <2>3. data \in Data["queued"] /\ "queued" \in Types /\ data.by = "client"
      BY <2>1, <2>2, DataLemma, ClosingsAssumption DEF Types, Item, Makers
  <2>4. AppendEvent(c, "queued", data) BY <1>4, <2>2 DEF AppendQueued
  <2> QED BY <2>3, <2>4, AppendStep
<1>5. ASSUME NEW status \in ClientClosings, AppendClosed(c, status) PROVE IInv'
  <2>1. PICK data : data = [status |-> status, item |-> NoItem] OBVIOUS
  <2>2. data \in Data["closed"] /\ "closed" \in Types /\ data.item = NoItem
      BY <2>1, DataLemma, ClosingsAssumption DEF Types
  <2>3. AppendEvent(c, "closed", data) BY <1>5, <2>1 DEF AppendClosed
  <2> QED BY <2>2, <2>3, AppendStep
<1> QED BY <1>1, <1>2, <1>3, <1>4, <1>5 DEF AppendOne

\* The steps of a verify keep the invariant.
LEMMA VerifyStep == ASSUME IInv, NEW c \in Clients, Verify(c) PROVE IInv'
<1>0. /\ TypeInv /\ OpInv(c) /\ log \in Seq(Entry) /\ nonce \in Nat /\ clock \in Nat /\ started \in 0..MaxOps
      /\ merges \subseteq [item : Items, report : ReportIds, epoch : 0..restarts]
      /\ answered \subseteq [epoch : 0..restarts, kind : Kinds, events : SUBSET Event]
    BY DEF IInv, TypeInv
<1>1. ASSUME NEW agent \in Agents \cup {NoAgent}, VerifyBegin(c, agent) PROVE IInv'
  <2>1. VerifierOf(log, agent) \in Agents \cup {NoAgent}
    <3>1. Workers(log) \subseteq Agents BY <1>0, MissionLemma
    <3> QED BY <3>1 DEF VerifierOf
  <2>2. PICK verifier \in Agents \cup {NoAgent} : verifier = VerifierOf(log, agent) BY <2>1
  <2>3. PICK op \in Op : /\ op = NewOp("verify", verifier, NoItem) /\ op.seen = Len(log)
                         /\ op.made = {} /\ op.step = "run" /\ op.kind = "verify"
      BY NewOpLemma DEF Kinds
  <2>4. ops[c].step # "store" /\ started' \in 0..MaxOps BY <1>1, StartLemma DEF VerifyBegin
  <2>5. /\ ops' = [ops EXCEPT ![c] = op]
        /\ UNCHANGED <<log, unsaved, queue, nonce, clock, merges, answered, passLost, restarts>>
      BY <1>1, <2>2, <2>3 DEF VerifyBegin
  <2>6. answered' \ answered = {} BY <2>5
  <2>7. op.kind # "merge" BY <2>3
  <2> QED BY <1>0, <2>3, <2>4, <2>5, <2>6, <2>7, OpStep
<1>2. ASSUME NEW result \in RunResults, VerifyRun(c, result[1], result[2]) PROVE IInv'
  <2>1. ops[c].step = "run" /\ ops[c] # Idle BY <1>2 DEF VerifyRun, Idle
  <2>2. PICK op \in Op : op = ops[c] BY <2>1, OpTypes
  <2>3. op.made = {} /\ op.seen <= Len(log) BY <1>0, <2>1, <2>2 DEF OpInv
  <2>4. NextSeq(Seen(c)) \in Nat
    <3>1. op.seen \in 0..Len(log) BY <2>2, <2>3, <1>0, SequenceTypes DEF Op
    <3>2. Seen(c) \in Seq(Entry) BY <1>0, <2>2, <3>1, BeginningLemma DEF Seen
    <3> QED BY <3>2, MissionLemma
  <2>5. PICK status, sig : status = result[1] /\ sig = result[2] OBVIOUS
  <2>6. status \in Statuses /\ sig \in Signatures \cup {NoError} /\ (status \in {"failed", "blocked"} => sig \in Signatures)
      BY <2>5, ResultsAssumption DEF Statuses
  <2>7. PICK report \in Report :
            report = [id |-> <<"verify", nonce>>, status |-> status,
                      observed |-> status \in {"passed", "failed"}, sig |-> sig,
                      at |-> clock', by |-> "server"]
    <3>1. <<"verify", nonce>> \in ReportIds BY <1>0 DEF ReportIds
    <3>2. (status \in {"passed", "failed"}) \in BOOLEAN OBVIOUS
    <3>3. clock' \in Nat BY <1>0, <1>2 DEF VerifyRun, Now
    <3> QED BY <2>6, <3>1, <3>2, <3>3 DEF Report, Makers
  <2>8. report \in Data["report"] /\ "report" \in Types BY DataLemma DEF Types
  <2>9. PICK e \in Event :
            e = Ev("report", NextSeq(Seen(c)), report) /\ e.type = "report" /\ e.data = report
      BY <2>4, <2>8, EvLemma
  <2>10. PICK events \in Seq(Event) :
            /\ events = <<e>> /\ Distinct(events) /\ \A k \in DOMAIN events : events[k] = e
            /\ {events[k] : k \in DOMAIN events} = {e}
      BY OneEvent
  <2>11. PICK then \in Thens : then = IF status \in {"failed", "blocked"} THEN "react" ELSE "answer"
      BY DEF Thens
  <2>12. PushEvents(c, op, events, then) /\ nonce' = nonce + 1 /\ clock' \in Nat
      BY <1>0, <1>2, <2>2, <2>5, <2>7, <2>9, <2>10, <2>11 DEF VerifyRun, NextNonce, Now
  <2>13. UNCHANGED <<log, unsaved, merges, answered, passLost, started, restarts>>
      BY <1>2 DEF VerifyRun
  <2>14. \A k \in DOMAIN events : Real(events[k], merges') BY <2>9, <2>10 DEF Real
  <2>15. Ready(op.made \cup {events[k] : k \in DOMAIN events}, then)
    <3>1. op.made \cup {events[k] : k \in DOMAIN events} = {e} BY <2>3, <2>10
    <3>2. report.sig = sig BY <2>7
    <3> QED BY <2>6, <2>9, <2>11, <3>1, <3>2 DEF Ready
  <2>16. \A x \in op.made : Kept(x) BY <2>3
  <2>17. nonce' \in Nat /\ clock' \in Nat /\ started' \in 0..MaxOps /\ merges \subseteq merges' /\ merges' \ merges = {}
         /\ merges' \subseteq [item : Items, report : ReportIds, epoch : 0..restarts]
      BY <1>0, <2>12, <2>13
  <2>18. ops[c].step # "store" BY <2>1
  <2> QED BY <2>3, <2>10, <2>12, <2>13, <2>14, <2>15, <2>16, <2>17, <2>18, PushStep
<1>3. CASE React(c)
  <2>1. ops[c].step = "react" /\ ops[c] # Idle BY <1>3 DEF React, Idle
  <2>2. PICK op \in Op : op = ops[c] BY <2>1, OpTypes
  <2>3. op.seen <= Len(log) /\ Ready(op.made, "react") /\ \A x \in op.made : Kept(x)
      BY <1>0, <2>1, <2>2, NotWaiting DEF OpInv
  <2>4. PICK first \in op.made : first = Made(c, "report") /\ first.type = "report"
      BY <2>2, <2>3 DEF Ready, Made
  <2>5. first \in Event /\ first.data \in Report /\ first.data.sig \in Signatures
      BY <2>3, <2>4, EventLemma DEF Op, Ready
  <2>6. first.data.id \in ReportIds /\ first.data.id[2] \in Nat /\ clock' \in Nat
      BY <1>0, <1>3, <2>5 DEF Report, ReportIds, React, Now
  <2>7. PICK card : card = [id |-> first.data.id, sig |-> first.data.sig, at |-> clock'] OBVIOUS
  <2>8. card \in Data["card"] /\ "card" \in Types BY <2>5, <2>6, <2>7, DataLemma DEF Types, Card
  <2>9. PICK e \in Event : e = Ev("card", first.data.id[2], card) /\ e.type = "card"
      BY <2>6, <2>8, EvLemma
  <2>10. PICK events \in Seq(Event) :
            /\ events = <<e>> /\ Distinct(events) /\ \A k \in DOMAIN events : events[k] = e
            /\ {events[k] : k \in DOMAIN events} = {e}
      BY OneEvent
  <2>11. PushEvents(c, op, events, "correct")
      BY <1>3, <2>2, <2>4, <2>7, <2>9, <2>10 DEF React
  <2>12. UNCHANGED <<log, unsaved, nonce, merges, answered, passLost, started, restarts>>
      BY <1>3 DEF React
  <2>13. \A k \in DOMAIN events : Real(events[k], merges') BY <2>9, <2>10 DEF Real
  <2>14. Ready(op.made \cup {events[k] : k \in DOMAIN events}, "correct") BY <2>9, <2>10 DEF Ready
  <2>15. nonce' \in Nat /\ clock' \in Nat /\ started' \in 0..MaxOps /\ merges \subseteq merges' /\ merges' \ merges = {}
         /\ merges' \subseteq [item : Items, report : ReportIds, epoch : 0..restarts]
      BY <1>0, <2>6, <2>12
  <2>16. ops[c].step # "store" /\ "correct" \in Thens BY <2>1 DEF Thens
  <2> QED BY <2>3, <2>10, <2>11, <2>12, <2>13, <2>14, <2>15, <2>16, PushStep
<1>4. CASE Correct(c)
  <2>1. ops[c].step = "correct" /\ ops[c] # Idle BY <1>4 DEF Correct, Idle
  <2>2. PICK op \in Op : op = ops[c] BY <2>1, OpTypes
  <2>3. op.seen <= Len(log) /\ Ready(op.made, "correct") /\ \A x \in op.made : Kept(x)
      BY <1>0, <2>1, <2>2, NotWaiting DEF OpInv
  <2>4. PICK card \in op.made : card = Made(c, "card") /\ card.type = "card"
      BY <2>2, <2>3 DEF Ready, Made
  <2>5. card \in Event /\ card.key \in Nat /\ card.data \in Card
      BY <2>4, EventLemma DEF Op
  <2>6. PICK data : data = [id |-> card.data.id,
                            action |-> Decide(Seen(c), card.data.sig, ops[c].agent)]
      OBVIOUS
  <2>7. Decide(Seen(c), card.data.sig, ops[c].agent) \in {"retry", "stop_same_error", "require_human"}
      BY DEF Decide
  <2>8. data \in Data["correction"] /\ "correction" \in Types
      BY <2>5, <2>6, <2>7, DataLemma DEF Types, Card
  <2>9. PICK e \in Event : e = Ev("correction", card.key, data) /\ e.type = "correction"
      BY <2>5, <2>8, EvLemma
  <2>10. PICK events \in Seq(Event) :
            /\ events = <<e>> /\ Distinct(events) /\ \A k \in DOMAIN events : events[k] = e
      BY OneEvent
  <2>11. PushEvents(c, op, events, "answer")
      BY <1>4, <2>2, <2>4, <2>6, <2>9, <2>10 DEF Correct
  <2>12. UNCHANGED <<log, unsaved, nonce, clock, merges, answered, passLost, started, restarts>>
      BY <1>4 DEF Correct
  <2>13. \A k \in DOMAIN events : Real(events[k], merges') BY <2>9, <2>10 DEF Real
  <2>14. Ready(op.made \cup {events[k] : k \in DOMAIN events}, "answer") BY DEF Ready
  <2>15. nonce' \in Nat /\ clock' \in Nat /\ started' \in 0..MaxOps /\ merges \subseteq merges' /\ merges' \ merges = {}
         /\ merges' \subseteq [item : Items, report : ReportIds, epoch : 0..restarts]
      BY <1>0, <2>12
  <2>16. ops[c].step # "store" /\ "answer" \in Thens BY <2>1 DEF Thens
  <2> QED BY <2>3, <2>10, <2>11, <2>12, <2>13, <2>14, <2>15, <2>16, PushStep
<1> QED BY <1>1, <1>2, <1>3, <1>4 DEF Verify

\* Two events with different ids are a push.
LEMMA TwoEvents ==
    ASSUME NEW a \in Event, NEW b \in Event, EventId(a) # EventId(b)
    PROVE  \E events \in Seq(Event) :
              /\ events = <<a>> \o <<b>> /\ Distinct(events)
              /\ \A k \in DOMAIN events : events[k] \in {a, b}
              /\ a \in {events[k] : k \in DOMAIN events}
<1>1. <<a>> \in Seq(Event) /\ <<b>> \in Seq(Event) /\ Len(<<a>>) = 1 /\ Len(<<b>>) = 1 OBVIOUS
<1>2. PICK events : events = <<a>> \o <<b>> OBVIOUS
<1>3. /\ events \in Seq(Event) /\ Len(events) = 2
      /\ \A i \in 1..2 : events[i] = IF i <= 1 THEN <<a>>[i] ELSE <<b>>[i - 1]
  <2>1. /\ <<a>> \o <<b>> \in Seq(Event) /\ Len(<<a>> \o <<b>>) = 1 + 1
        /\ \A i \in 1..1 + 1 : (<<a>> \o <<b>>)[i] = IF i <= 1 THEN <<a>>[i] ELSE <<b>>[i - 1]
      BY ONLY <1>1, ConcatProperties
  <2> QED BY <1>2, <2>1
<1>4. DOMAIN events = 1..2 BY <1>3, LenProperties
<1>5. events[1] = a /\ events[2] = b BY <1>3
<1>6. Distinct(events) BY <1>4, <1>5 DEF Distinct
<1>7. (\A k \in DOMAIN events : events[k] \in {a, b}) /\ a \in {events[k] : k \in DOMAIN events}
    BY <1>4, <1>5
<1>8. events \in Seq(Event) BY <1>3
<1> QED BY <1>2, <1>6, <1>7, <1>8

\* The run of a merge keeps the invariant: what is stored as merged was merged,
\* by an item whose report is still visible.
LEMMA MergeRunStep ==
    ASSUME IInv, NEW c \in Clients, NEW result \in GitResults, MergeRun(c, result)
    PROVE  IInv'
<1>0. /\ TypeInv /\ OpInv(c) /\ log \in Seq(Entry) /\ nonce \in Nat /\ clock \in Nat /\ started \in 0..MaxOps
      /\ restarts \in 0..MaxRestarts /\ MaxRestarts \in Nat
      /\ merges \subseteq [item : Items, report : ReportIds, epoch : 0..restarts]
    BY BoundsAssumption DEF IInv, TypeInv
<1>1. ops[c].step = "run" /\ ops[c].kind = "merge" /\ ops[c] # Idle BY DEF MergeRun, Idle
<1>2. PICK op \in Op : op = ops[c] BY <1>1, OpTypes
<1>3. op.made = {} /\ op.seen <= Len(log) /\ Found(Seen(c), op) BY <1>0, <1>1, <1>2 DEF OpInv
<1>4. PICK seen \in Seq(Entry) : seen = Seen(c) /\ Prefix(seen, log)
  <2>1. op.seen \in 0..Len(log) BY <1>0, <1>2, <1>3, SequenceTypes DEF Op
  <2> QED BY <1>0, <1>2, <2>1, BeginningLemma DEF Seen
<1>5. /\ MergeItems(seen) \subseteq Item
      /\ \A a, b \in MergeItems(seen) : a.id = b.id => a = b
      /\ NextSeq(seen) \in Nat /\ Cardinality(MergeItems(seen)) \in Nat
    BY MissionLemma
<1>6. PICK m \in MergeItems(seen) : m = ItemSeen(c) /\ m.id = op.item /\ MayMerge(seen, m)
  <2>1. PICK found \in MergeItems(seen) : found.id = op.item /\ MayMerge(seen, found)
      BY <1>3, <1>4 DEF Found
  <2>2. PICK m \in MergeItems(seen) : m = ItemSeen(c) /\ m.id = op.item
      BY <1>2, <1>4, <2>1 DEF ItemSeen
  <2>3. m = found BY <1>5, <2>1, <2>2
  <2> QED BY <2>1, <2>2, <2>3
<1>7. HasPass(log, m) BY <1>0, <1>4, <1>6, PrefixLemma DEF HasPass, MayMerge
<1>8. m.id \in Items /\ m.report \in ReportIds BY <1>5 DEF Item
<1>9. PICK seq \in Nat : seq = NextSeq(seen) + Cardinality(MergeItems(seen)) BY <1>5
<1>10. PICK item : item = [id |-> m.id, status |-> result, report |-> m.report, by |-> "server"]
    OBVIOUS
<1>11. item \in Data["queued"] /\ "queued" \in Types
    BY <1>8, <1>10, DataLemma, ClosingsAssumption DEF Types, Item, Makers, ItemStatuses
<1>12. PICK first \in Event :
           /\ first = Ev("queued", seq, item) /\ first.type = "queued" /\ first.data = item
           /\ EventId(first) = <<"queued", seq>>
    BY <1>9, <1>11, EvLemma
<1>13. UNCHANGED <<log, unsaved, nonce, clock, answered, passLost, started, restarts>> BY DEF MergeRun
<1>14. ops[c].step # "store" /\ \A x \in op.made : Kept(x) BY <1>1, <1>3
<1>15. CASE result = "merged"
  <2>1. PICK merge : merge = [item |-> m.id, report |-> m.report, epoch |-> restarts] OBVIOUS
  <2>2. merges' = merges \cup {merge} BY <1>6, <1>15, <2>1 DEF MergeRun
  <2>3. merge \in [item : Items, report : ReportIds, epoch : 0..restarts] BY <1>0, <1>8, <2>1
  <2>4. HasPass(log, merge) BY <1>7, <2>1 DEF HasPass
  <2>5. PICK closed : closed = [status |-> "merged", item |-> m.id] OBVIOUS
  <2>6. closed \in Data["closed"] /\ "closed" \in Types
      BY <1>8, <2>5, DataLemma DEF Types, Closings
  <2>7. PICK second \in Event :
            /\ second = Ev("closed", seq + 1, closed) /\ second.type = "closed" /\ second.data = closed
            /\ EventId(second) = <<"closed", seq + 1>>
    <3>1. seq + 1 \in Nat BY <1>9
    <3> QED BY <2>6, <3>1, EvLemma
  <2>8. EventId(first) # EventId(second) BY <1>12, <2>7
  <2>9. PICK events \in Seq(Event) :
            /\ events = <<first>> \o <<second>> /\ Distinct(events)
            /\ \A k \in DOMAIN events : events[k] \in {first, second}
            /\ first \in {events[k] : k \in DOMAIN events}
      BY <2>8, TwoEvents
  <2>10. Closing(seq + 1, m.id, result) = <<second>> BY <1>15, <2>5, <2>7 DEF Closing
  <2>11. PushEvents(c, op, events, "skills")
      BY <1>2, <1>4, <1>6, <1>9, <1>10, <1>12, <1>15, <2>9, <2>10 DEF MergeRun
  <2>12. merge \in merges' /\ merge.item = m.id /\ merge.report = m.report BY <2>1, <2>2
  <2>13. \A k \in DOMAIN events : Real(events[k], merges')
      BY <1>10, <1>12, <2>5, <2>7, <2>9, <2>12 DEF Real
  <2>14. Ready(op.made \cup {events[k] : k \in DOMAIN events}, "skills") /\ "skills" \in Thens
      BY <1>10, <1>12, <1>15, <2>9 DEF Ready, Thens
  <2>15. /\ nonce' \in Nat /\ clock' \in Nat /\ started' \in 0..MaxOps /\ merges \subseteq merges'
         /\ merges' \subseteq [item : Items, report : ReportIds, epoch : 0..restarts]
         /\ \A x \in merges' \ merges : HasPass(log, x)
      BY <1>0, <1>13, <2>2, <2>3, <2>4
  <2> QED BY <1>3, <1>13, <1>14, <2>9, <2>11, <2>13, <2>14, <2>15, PushStep
<1>16. CASE result # "merged"
  <2>1. merges' = merges BY <1>16 DEF MergeRun
  <2>2. PICK events \in Seq(Event) :
            /\ events = <<first>> /\ Distinct(events) /\ \A k \in DOMAIN events : events[k] = first
      BY OneEvent
  <2>3. <<first>> \o Closing(seq + 1, m.id, result) = events
    <3>1. <<first>> \o << >> = <<first>> BY <2>2, ConcatEmptySeq
    <3> QED BY <1>16, <2>2, <3>1 DEF Closing
  <2>4. PushEvents(c, op, events, "answer")
      BY <1>2, <1>4, <1>6, <1>9, <1>10, <1>12, <1>16, <2>3 DEF MergeRun
  <2>5. \A k \in DOMAIN events : Real(events[k], merges') BY <1>10, <1>12, <1>16, <2>2 DEF Real
  <2>6. Ready(op.made \cup {events[k] : k \in DOMAIN events}, "answer") /\ "answer" \in Thens
      BY DEF Ready, Thens
  <2>7. /\ nonce' \in Nat /\ clock' \in Nat /\ started' \in 0..MaxOps /\ merges \subseteq merges'
        /\ merges' \subseteq [item : Items, report : ReportIds, epoch : 0..restarts]
        /\ \A x \in merges' \ merges : HasPass(log, x)
      BY <1>0, <1>13, <2>1
  <2> QED BY <1>3, <1>13, <1>14, <2>2, <2>4, <2>5, <2>6, <2>7, PushStep
<1> QED BY <1>15, <1>16

\* The skills of a merge keep the invariant.
LEMMA SkillsStep == ASSUME IInv, NEW c \in Clients, Skills(c) PROVE IInv'
<1>0. /\ TypeInv /\ OpInv(c) /\ nonce \in Nat /\ clock \in Nat /\ started \in 0..MaxOps
      /\ restarts \in 0..MaxRestarts /\ MaxRestarts \in Nat
      /\ merges \subseteq [item : Items, report : ReportIds, epoch : 0..restarts]
      /\ answered \subseteq [epoch : 0..restarts, kind : Kinds, events : SUBSET Event]
    BY BoundsAssumption DEF IInv, TypeInv
<1>1. ops[c].step = "skills" /\ ops[c] # Idle BY DEF Skills, Idle
<1>2. PICK op \in Op : op = ops[c] BY <1>1, OpTypes
<1>3. op.seen <= Len(log) /\ Ready(op.made, "skills") /\ \A x \in op.made : Kept(x)
    BY <1>0, <1>1, <1>2, NotWaiting DEF OpInv
<1>4. UNCHANGED <<log, unsaved, nonce, clock, merges, passLost, started, restarts>> BY DEF Skills
<1>5. ops[c].step # "store" BY <1>1
<1>6. CASE SkillKeys(log) = << >>
  <2>1. PICK a : a = [epoch |-> restarts, kind |-> op.kind, events |-> op.made] OBVIOUS
  <2>2. /\ answered' = answered \cup {a} /\ ops' = [ops EXCEPT ![c] = Idle] /\ UNCHANGED queue
      BY <1>2, <1>6, <2>1 DEF Skills, Answer
  <2>3. a \in [epoch : 0..restarts, kind : Kinds, events : SUBSET Event]
      BY <1>0, <2>1 DEF Op
  <2>4. /\ answered' \subseteq [epoch : 0..restarts, kind : Kinds, events : SUBSET Event]
        /\ \A x \in answered' \ answered : \A e \in x.events : Kept(e)
        /\ started' \in 0..MaxOps
      BY <1>0, <1>3, <1>4, <2>1, <2>2, <2>3
  <2>5. PICK idle \in {Idle} \cup Op : idle = Idle OBVIOUS
  <2> QED BY <1>4, <1>5, <2>2, <2>4, <2>5, OpStep
<1>7. CASE SkillKeys(log) # << >>
  <2>1. PICK keys \in {<<0>>, <<0, 1>>} : keys = SkillKeys(log) BY <1>7 DEF SkillKeys
  <2>2. PICK n \in {1, 2} : n = Len(keys) /\ DOMAIN keys = 1..n BY <2>1
  <2>3. \A i \in 1..n : keys[i] = i - 1 BY <2>1, <2>2
  <2>4. PICK events : events = [i \in 1..n |-> Ev("skill", keys[i], [id |-> keys[i]])] OBVIOUS
  <2>5. ASSUME NEW i \in 1..n
        PROVE  /\ Ev("skill", keys[i], [id |-> keys[i]]) \in Event
               /\ events[i].type = "skill" /\ EventId(events[i]) = <<"skill", i - 1>>
    <3>1. PICK k \in {0, 1} : k = keys[i] /\ k = i - 1 BY <2>2, <2>3
    <3>2. [id |-> k] \in Data["skill"] /\ "skill" \in Types BY DataLemma DEF Types
    <3>3. k \in Nat OBVIOUS
    <3>4. Ev("skill", k, [id |-> k]) \in Event /\ Ev("skill", k, [id |-> k]).type = "skill"
          /\ EventId(Ev("skill", k, [id |-> k])) = <<"skill", k>>
        BY <3>2, <3>3, EvLemma
    <3> QED BY <2>4, <3>1, <3>4
  <2>6. events \in Seq(Event)
    <3>1. n \in Nat /\ \A i \in 1..n : Ev("skill", keys[i], [id |-> keys[i]]) \in Event BY <2>5
    <3>2. [i \in 1..n |-> Ev("skill", keys[i], [id |-> keys[i]])] \in Seq(Event) BY ONLY <3>1, IsASeq
    <3> QED BY <2>4, <3>2
  <2>7. DOMAIN events = 1..n BY <2>4
  <2>8. Distinct(events)
    <3>1. SUFFICES ASSUME NEW i \in 1..n, NEW j \in 1..n, EventId(events[i]) = EventId(events[j])
                   PROVE  i = j
        BY <2>7 DEF Distinct
    <3>2. <<"skill", i - 1>> = <<"skill", j - 1>> BY <2>5, <3>1
    <3>3. i - 1 = j - 1 BY <3>2
    <3> QED BY <2>2, <3>3
  <2>9. PushEvents(c, op, events, "answer") /\ UNCHANGED answered
      BY <1>2, <1>7, <2>1, <2>2, <2>4 DEF Skills
  <2>10. \A k \in DOMAIN events : Real(events[k], merges')
    <3>1. PICK e \in op.made : e.type = "queued" /\ e.data.by = "server" /\ e.data.status = "merged"
        BY <1>3 DEF Ready
    <3>2. PICK i \in DOMAIN log : log[i] = e BY <1>3, <3>1 DEF Kept
    <3>3. merges # {} BY <3>1, <3>2 DEF IInv, RealInv, Real
    <3> QED BY <1>4, <2>5, <2>7, <3>3 DEF Real
  <2>11. Ready(op.made \cup {events[k] : k \in DOMAIN events}, "answer") /\ "answer" \in Thens
      BY DEF Ready, Thens
  <2>12. nonce' \in Nat /\ clock' \in Nat /\ started' \in 0..MaxOps /\ merges \subseteq merges' /\ merges' \ merges = {}
         /\ merges' \subseteq [item : Items, report : ReportIds, epoch : 0..restarts]
      BY <1>0, <1>4
  <2> QED BY <1>3, <1>4, <1>5, <2>6, <2>8, <2>9, <2>10, <2>11, <2>12, PushStep
<1> QED BY <1>6, <1>7

\* Every step of a merge, and a checkpoint that fails, keeps the invariant.
LEMMA MergeStep == ASSUME IInv, NEW c \in Clients, Merge(c) \/ CheckpointFails(c) PROVE IInv'
<1>0. /\ TypeInv /\ started \in 0..MaxOps
      /\ answered \subseteq [epoch : 0..restarts, kind : Kinds, events : SUBSET Event]
    BY DEF IInv, TypeInv
<1>1. ASSUME NEW item \in Items, MergeBegin(c, item) PROVE IInv'
  <2>1. PICK op \in Op : /\ op = NewOp("merge", NoAgent, item) /\ op.seen = Len(log)
                         /\ op.made = {} /\ op.step = "run" /\ op.item = item
      BY NewOpLemma DEF Kinds
  <2>2. Found(log, op) BY <1>1, <2>1 DEF MergeBegin, Found
  <2>3. ops[c].step # "store" /\ started' \in 0..MaxOps BY <1>1, StartLemma DEF MergeBegin
  <2>4. /\ ops' = [ops EXCEPT ![c] = op]
        /\ UNCHANGED <<log, unsaved, queue, nonce, clock, merges, answered, passLost, restarts>>
      BY <1>1, <2>1 DEF MergeBegin
  <2>5. answered' \ answered = {} BY <2>4
  <2> QED BY <1>0, <2>1, <2>2, <2>3, <2>4, <2>5, OpStep
<1>2. ASSUME NEW result \in GitResults, MergeRun(c, result) PROVE IInv' BY <1>2, MergeRunStep
<1>3. CASE Skills(c) BY <1>3, SkillsStep
<1>4. CASE CheckpointFails(c)
  <2>1. /\ ops[c].step # "store" /\ ops' = [ops EXCEPT ![c] = Idle]
        /\ UNCHANGED <<log, unsaved, queue, nonce, clock, merges, answered, passLost, started, restarts>>
      BY <1>4 DEF CheckpointFails
  <2>2. PICK idle \in {Idle} \cup Op : idle = Idle OBVIOUS
  <2>3. answered' \ answered = {} /\ started' \in 0..MaxOps BY <1>0, <2>1
  <2> QED BY <1>0, <2>1, <2>2, <2>3, OpStep
<1> QED BY <1>1, <1>2, <1>3, <1>4 DEF Merge

-----------------------------------------------------------------------------
(* Steps of the storage. *)

\* What the log becomes when a push is stored: the events whose ids are free come
\* after what there was, and ids stay unique.
LEMMA StoredLemma ==
    ASSUME TypeInv, LogInv, NEW events \in Seq(Event), Distinct(events), log' = log \o Fresh(events)
    PROVE  /\ log' \in Seq(Entry) /\ Prefix(log, log')
           /\ \A i \in DOMAIN log : i \in DOMAIN log' /\ log'[i] = log[i]
           /\ \A i \in DOMAIN log' :
                 \/ i \in DOMAIN log
                 \/ log'[i] = Gap
                 \/ \E k \in DOMAIN events : log'[i] = events[k]
           /\ \A i, j \in Present' : EventId(log'[i]) = EventId(log'[j]) => i = j
           /\ StoredIds \subseteq StoredIds'
           /\ Complete(events) => \A k \in DOMAIN events :
                 /\ EventId(events[k]) \notin StoredIds
                 /\ EventId(events[k]) \in StoredIds'
                 /\ \E i \in DOMAIN log' : log'[i] = events[k]
<1>1. log \in Seq(Entry) BY DEF TypeInv
<1>2. /\ DOMAIN events = 1..Len(events) /\ Len(events) \in Nat
      /\ \A k \in DOMAIN events : events[k] \in Event
    BY LenProperties, ElementOfSeq
<1>3. PICK new : new = Fresh(events) OBVIOUS
<1>4. /\ DOMAIN new = DOMAIN events
      /\ \A k \in DOMAIN events :
            new[k] = IF EventId(events[k]) \in StoredIds THEN Gap ELSE events[k]
    BY <1>3 DEF Fresh
<1>5. new \in Seq(Entry)
  <2> DEFINE F(k) == IF EventId(events[k]) \in StoredIds THEN Gap ELSE events[k]
  <2>1. \A k \in 1..Len(events) : F(k) \in Entry BY <1>2, EntryLemma
  <2>2. new = [k \in 1..Len(events) |-> F(k)] BY <1>2, <1>3 DEF Fresh
  <2> HIDE DEF F
  <2>3. [k \in 1..Len(events) |-> F(k)] \in Seq(Entry) BY ONLY <1>2, <2>1, IsASeq
  <2> QED BY <2>2, <2>3
<1>6. PICK l : l = log' OBVIOUS
<1>7. /\ l \in Seq(Entry) /\ Prefix(log, l)
      /\ \A i \in DOMAIN log : i \in DOMAIN l /\ l[i] = log[i]
      /\ \A k \in DOMAIN new : Len(log) + k \in DOMAIN l /\ l[Len(log) + k] = new[k]
      /\ \A i \in DOMAIN l : i \in DOMAIN log \/ i - Len(log) \in DOMAIN new
      /\ DOMAIN l = 1..Len(l) /\ Len(l) \in Nat /\ Len(log) \in Nat
  <2>1. PICK old : old = log OBVIOUS
  <2>2. old \in Seq(Entry) /\ l = old \o new BY <1>1, <1>3, <1>6, <2>1
  <2>3. l \in Seq(Entry) /\ Prefix(old, l) BY ONLY <1>5, <2>2, ConcatLemma
  <2>4. \A i \in DOMAIN old : i \in DOMAIN l /\ l[i] = old[i] BY ONLY <1>5, <2>2, ConcatLemma
  <2>5. \A k \in DOMAIN new : Len(old) + k \in DOMAIN l /\ l[Len(old) + k] = new[k]
      BY ONLY <1>5, <2>2, ConcatLemma
  <2>6. \A i \in DOMAIN l : i \in DOMAIN old \/ i - Len(old) \in DOMAIN new
      BY ONLY <1>5, <2>2, ConcatLemma
  <2>7. DOMAIN l = 1..Len(l) /\ Len(l) \in Nat /\ Len(old) \in Nat BY <2>2, <2>3, LenProperties
  <2> QED BY <2>1, <2>3, <2>4, <2>5, <2>6, <2>7
<1>8. ASSUME NEW i \in DOMAIN l, i \notin DOMAIN log
      PROVE  \E k \in DOMAIN events : i = Len(log) + k /\ l[i] = new[k]
  <2>1. PICK k : k = i - Len(log) OBVIOUS
  <2>2. k \in DOMAIN events /\ i = Len(log) + k BY <1>4, <1>7, <1>8, <2>1
  <2> QED BY <1>4, <1>7, <2>2
<1>9. \A i \in DOMAIN l : i \in DOMAIN log \/ l[i] = Gap \/ \E k \in DOMAIN events : l[i] = events[k]
    BY <1>4, <1>8
<1>10. ASSUME NEW i \in DOMAIN l, l[i].type # "gap"
       PROVE  \/ i \in Present /\ l[i] = log[i]
              \/ \E k \in DOMAIN events :
                    i = Len(log) + k /\ l[i] = events[k] /\ EventId(events[k]) \notin StoredIds
  <2>1. CASE i \in DOMAIN log BY <1>7, <1>10, <2>1 DEF Present
  <2>2. CASE i \notin DOMAIN log
    <3>1. PICK k \in DOMAIN events : i = Len(log) + k /\ l[i] = new[k] BY <1>8, <2>2
    <3>2. new[k] # Gap BY <1>10, <3>1, EntryLemma
    <3> QED BY <1>4, <3>1, <3>2
  <2> QED BY <2>1, <2>2
<1>11. ASSUME NEW i \in DOMAIN l, l[i].type # "gap", NEW j \in DOMAIN l, l[j].type # "gap",
              EventId(l[i]) = EventId(l[j])
       PROVE  i = j
  <2>1. CASE i \in Present /\ l[i] = log[i] /\ j \in Present /\ l[j] = log[j]
      BY <1>11, <2>1 DEF LogInv
  <2>2. CASE i \in Present /\ l[i] = log[i] /\ \E k \in DOMAIN events :
                 j = Len(log) + k /\ l[j] = events[k] /\ EventId(events[k]) \notin StoredIds
      BY <1>11, <2>2 DEF StoredIds
  <2>3. CASE j \in Present /\ l[j] = log[j] /\ \E k \in DOMAIN events :
                 i = Len(log) + k /\ l[i] = events[k] /\ EventId(events[k]) \notin StoredIds
      BY <1>11, <2>3 DEF StoredIds
  <2>4. ASSUME NEW k \in DOMAIN events, i = Len(log) + k, l[i] = events[k],
               NEW n \in DOMAIN events, j = Len(log) + n, l[j] = events[n]
        PROVE  i = j
    <3>1. k = n BY <1>11, <2>4 DEF Distinct
    <3> QED BY <2>4, <3>1
  <2> QED BY <1>10, <1>11, <2>1, <2>2, <2>3, <2>4
<1>12. \A i \in Present : i \in Present' /\ l[i] = log[i] BY <1>6, <1>7 DEF Present
<1>13. StoredIds \subseteq StoredIds' BY <1>6, <1>12 DEF StoredIds
<1>14. ASSUME Complete(events), NEW k \in DOMAIN events
       PROVE  /\ EventId(events[k]) \notin StoredIds
              /\ EventId(events[k]) \in StoredIds'
              /\ \E i \in DOMAIN l : l[i] = events[k]
  <2>1. new[k] = events[k] BY <1>3, <1>14 DEF Complete
  <2>2. events[k].type # "gap" /\ events[k] # Gap BY <1>2, EventLemma, EntryLemma
  <2>3. EventId(events[k]) \notin StoredIds BY <1>4, <2>1, <2>2
  <2>4. PICK i \in DOMAIN l : l[i] = events[k] BY <1>4, <1>7, <2>1
  <2>5. i \in Present' BY <1>6, <2>2, <2>4 DEF Present
  <2> QED BY <1>6, <2>3, <2>4, <2>5 DEF StoredIds
<1>15. \A i, j \in Present' : EventId(log'[i]) = EventId(log'[j]) => i = j BY <1>6, <1>11 DEF Present
<1> QED BY <1>6, <1>7, <1>9, <1>13, <1>14, <1>15

\* A push of one event adds one element to the log.
LEMMA OneStored ==
    ASSUME TypeInv, NEW events \in Seq(Event), Len(events) = 1, log' = log \o Fresh(events),
           NEW i \in DOMAIN log', i \notin DOMAIN log
    PROVE  i = Len(log) + 1
<1>1. PICK n : n = Len(log) /\ n \in Nat /\ DOMAIN log = 1..n BY SequenceTypes
<1>2. Fresh(events) = [m \in 1..1 |-> Fresh(events)[m]] BY LenProperties DEF Fresh
<1>3. PICK new : new = Fresh(events) OBVIOUS
<1>4. new \in Seq({new[1]}) /\ Len(new) = 1 BY <1>2, <1>3
<1>5. PICK S : S = Entry \cup {new[1]} OBVIOUS
<1>6. PICK old : old = log OBVIOUS
<1>7. old \in Seq(S) /\ new \in Seq(S)
    BY <1>1, <1>4, <1>5, <1>6, SequenceTypes, IsASeq, ElementOfSeq DEF TypeInv
<1>8. PICK l : l = log' /\ l = old \o new BY <1>3, <1>6
<1>9. Len(l) = Len(old) + Len(new) /\ DOMAIN l = 1..Len(l) BY ONLY <1>7, <1>8, ConcatLemma
<1> QED BY <1>1, <1>4, <1>6, <1>8, <1>9

\* The storage keeps the invariant: what it has stored stays, and a request goes
\* on or is answered only when all of its push is kept.
LEMMA StoreStep == ASSUME IInv, Store PROVE IInv'
<1>1. TypeInv /\ LogInv /\ QueueInv /\ MergeInv /\ RealInv /\ AnswerInv BY DEF IInv
<1>2. UNCHANGED <<nonce, clock, merges, passLost, started, restarts>> BY DEF Store
<1>3. PICK p \in Pushed : p = Head(queue) /\ p = queue[1] /\ 1 \in DOMAIN queue
    BY <1>1, TailLemma DEF TypeInv, Store
<1>4. /\ queue' \in Seq(Pushed)
      /\ \A i \in DOMAIN queue' : i + 1 \in DOMAIN queue /\ i \in Nat \ {0} /\ queue'[i] = queue[i + 1]
      /\ \A i \in DOMAIN queue : i # 1 => i - 1 \in DOMAIN queue' /\ queue'[i - 1] = queue[i]
    BY <1>1, TailLemma DEF TypeInv, Store
<1>5. PICK c \in Clients : c = p.client BY DEF Pushed
<1>6. ops[c].step = "store" /\ ops[c] # Idle /\ OpInv(c) BY <1>1, <1>3, <1>5 DEF QueueInv, Idle, IInv
<1>7. PICK op \in Op : op = ops[c] BY <1>6, OpTypes
<1>8. p.events \in Seq(Event) /\ p.then \in Thens BY DEF Pushed
<1>9. /\ Ready(op.made, p.then) /\ Distinct(p.events)
      /\ \A k \in DOMAIN p.events : Real(p.events[k], merges)
    BY <1>1, <1>3, <1>5, <1>7 DEF QueueInv
<1>10. log' = log \o Fresh(p.events) BY <1>3 DEF Store
<1>11. /\ log' \in Seq(Entry) /\ Prefix(log, log')
       /\ \A i \in DOMAIN log : i \in DOMAIN log' /\ log'[i] = log[i]
       /\ \A i \in DOMAIN log' :
             \/ i \in DOMAIN log
             \/ log'[i] = Gap
             \/ \E k \in DOMAIN p.events : log'[i] = p.events[k]
       /\ \A i, j \in Present' : EventId(log'[i]) = EventId(log'[j]) => i = j
       /\ StoredIds \subseteq StoredIds'
       /\ Complete(p.events) => \A k \in DOMAIN p.events :
             /\ EventId(p.events[k]) \notin StoredIds
             /\ EventId(p.events[k]) \in StoredIds'
             /\ \E i \in DOMAIN log' : log'[i] = p.events[k]
    BY <1>1, <1>8, <1>9, <1>10, StoredLemma
<1>12. PICK saved \in BOOLEAN :
          /\ unsaved' = IF saved THEN unsaved ELSE unsaved \cup (StoredIds' \ StoredIds)
          /\ IF ~saved \/ ~Complete(p.events)
             THEN ops' = [ops EXCEPT ![p.client] = Idle] /\ UNCHANGED answered
             ELSE IF p.then = "answer" THEN Answer(p.client)
             ELSE ops' = [ops EXCEPT ![p.client].step = p.then] /\ UNCHANGED answered
    BY <1>3 DEF Store
<1>13. LogInv' BY <1>1, <1>11, <1>12 DEF LogInv
<1>14. ASSUME NEW e \in Event, Kept(e) PROVE Kept(e)'
  <2>1. PICK i \in DOMAIN log : log[i] = e BY <1>14 DEF Kept
  <2>2. EventId(e) \in StoredIds BY <2>1, EventLemma DEF StoredIds, Present
  <2>3. EventId(e) \notin unsaved' BY <1>12, <1>14, <2>2 DEF Kept
  <2> QED BY <1>11, <2>1, <2>3 DEF Kept
<1>15. ASSUME saved, Complete(p.events), NEW e \in op.made PROVE Kept(e)'
  <2>1. e \in Event BY DEF Op
  <2>2. CASE Kept(e) BY <1>14, <2>1, <2>2
  <2>3. CASE Waits(c, e)
    <3>1. PICK i \in DOMAIN queue :
              queue[i].client = c /\ \E k \in DOMAIN queue[i].events : queue[i].events[k] = e
        BY <2>3 DEF Waits
    <3>2. i = 1 BY <1>1, <1>3, <1>5, <3>1 DEF QueueInv
    <3>3. PICK k \in DOMAIN p.events : p.events[k] = e BY <1>3, <3>1, <3>2
    <3>4. EventId(e) \notin StoredIds /\ \E n \in DOMAIN log' : log'[n] = e BY <1>11, <1>15, <3>3
    <3>5. EventId(e) \notin unsaved' BY <1>1, <1>12, <1>15, <3>4 DEF LogInv
    <3> QED BY <3>4, <3>5 DEF Kept
  <2> QED BY <1>6, <1>7, <2>2, <2>3 DEF OpInv
<1>16. \A d \in Clients : d # c => ops'[d] = ops[d] BY <1>1, <1>5, <1>12 DEF TypeInv, Answer
<1>17. \/ ops'[c] = Idle
       \/ saved /\ Complete(p.events) /\ p.then # "answer" /\ ops'[c] = [op EXCEPT !.step = p.then]
    BY <1>1, <1>5, <1>7, <1>12 DEF TypeInv, Answer
<1>18. \/ answered' = answered
       \/ /\ saved /\ Complete(p.events)
          /\ answered' = answered \cup {[epoch |-> restarts, kind |-> op.kind, events |-> op.made]}
    BY <1>5, <1>7, <1>12 DEF Answer
<1>19. ASSUME p.then # "answer" PROVE [op EXCEPT !.step = p.then] \in Op
    BY <1>8, <1>19 DEF Op, Thens
<1>20. TypeInv'
  <2>1. ops' \in [Clients -> {Idle} \cup Op]
    <3>1. DOMAIN ops' = Clients /\ ops' = [d \in Clients |-> ops'[d]] BY <1>1, <1>12 DEF TypeInv, Answer
    <3>2. \A d \in Clients : ops'[d] \in {Idle} \cup Op BY <1>1, <1>16, <1>17, <1>19 DEF TypeInv
    <3> QED BY <3>1, <3>2
  <2>2. PICK a : a = [epoch |-> restarts, kind |-> op.kind, events |-> op.made] OBVIOUS
  <2>3. a \in [epoch : 0..restarts, kind : Kinds, events : SUBSET Event]
      BY <1>1, <2>2, BoundsAssumption DEF TypeInv, Op
  <2>4. answered' \subseteq [epoch : 0..restarts', kind : Kinds, events : SUBSET Event]
      BY <1>1, <1>2, <1>18, <2>2, <2>3 DEF TypeInv
  <2> QED BY <1>1, <1>2, <1>4, <1>11, <2>1, <2>4 DEF TypeInv
<1>21. MergeInv'
  <2>1. Reports(log) \subseteq Reports(log') BY <1>1, <1>11, PrefixLemma DEF TypeInv
  <2> QED BY <1>1, <1>2, <2>1 DEF MergeInv, HasPass
<1>22. RealInv'
  <2>1. Real(Gap, merges) BY EntryLemma DEF Real
  <2> QED BY <1>1, <1>2, <1>9, <1>11, <2>1 DEF RealInv
<1>23. AnswerInv'
  <2>1. ASSUME NEW a \in answered, NEW e \in a.events PROVE Kept(e)'
    <3>1. e \in Event /\ Kept(e) BY <1>1, <2>1 DEF TypeInv, AnswerInv
    <3> QED BY <1>14, <3>1
  <2> QED BY <1>15, <1>18, <2>1 DEF AnswerInv
<1>24. QueueInv'
  <2>1. ASSUME NEW i \in DOMAIN queue'
        PROVE  /\ i + 1 \in DOMAIN queue /\ queue'[i] = queue[i + 1]
               /\ ops'[queue'[i].client] = ops[queue[i + 1].client]
    <3>1. i + 1 \in DOMAIN queue /\ queue'[i] = queue[i + 1] /\ i + 1 # 1 BY <1>4
    <3>2. queue[i + 1].client # c BY <1>1, <1>3, <1>5, <3>1 DEF QueueInv
    <3>3. queue[i + 1].client \in Clients BY <1>1, <3>1, SequenceTypes DEF Pushed
    <3> QED BY <1>16, <3>1, <3>2, <3>3
  <2>2. ASSUME NEW i \in DOMAIN queue', NEW j \in DOMAIN queue', queue'[i].client = queue'[j].client
        PROVE  i = j
    <3>1. i + 1 = j + 1 BY <1>1, <2>1, <2>2 DEF QueueInv
    <3> QED BY <1>4, <3>1
  <2> QED BY <1>1, <1>2, <2>1, <2>2 DEF QueueInv
<1>25. Len(log) <= Len(log') /\ Len(log) \in Nat /\ Len(log') \in Nat
    BY <1>1, <1>11, SequenceTypes, LenProperties DEF Prefix
<1>26. ASSUME NEW d \in Clients PROVE OpInv(d)'
  <2>1. CASE d # c
    <3>1. SUFFICES ASSUME ops[d] # Idle PROVE OpInv(d)' BY <1>16, <2>1 DEF OpInv
    <3>2. PICK other \in Op : other = ops[d] BY <3>1, OpTypes
    <3>3. OpInv(d) /\ ops'[d] = other BY <1>16, <2>1, <3>2 DEF IInv
    <3>4. other.seen \in 0..Len(log) /\ other.seen <= Len(log')
        BY <1>25, <3>1, <3>2, <3>3 DEF OpInv, Op
    <3>5. Seen(d)' = Seen(d) BY <1>1, <1>11, <3>2, <3>3, <3>4, BeginningLemma DEF TypeInv, Seen
    <3>6. ASSUME NEW e \in other.made PROVE Kept(e)' \/ Waits(d, e)'
      <4>1. CASE Kept(e) BY <1>14, <4>1 DEF Op
      <4>2. CASE Waits(d, e)
        <5>1. PICK i \in DOMAIN queue :
                  queue[i].client = d /\ \E k \in DOMAIN queue[i].events : queue[i].events[k] = e
            BY <4>2 DEF Waits
        <5>2. i # 1 BY <1>3, <1>5, <2>1, <5>1
        <5>3. i - 1 \in DOMAIN queue' /\ queue'[i - 1] = queue[i] BY <1>4, <5>2
        <5> QED BY <5>1, <5>3 DEF Waits
      <4> QED BY <3>1, <3>2, <3>3, <4>1, <4>2 DEF OpInv
    <3> QED BY <3>1, <3>2, <3>3, <3>4, <3>5, <3>6 DEF OpInv
  <2>2. CASE d = c /\ ops'[c] = Idle BY <2>2 DEF OpInv
  <2>3. CASE d = c /\ ops'[c] # Idle
    <3>1. saved /\ Complete(p.events) /\ p.then # "answer" /\ ops'[c] = [op EXCEPT !.step = p.then]
        BY <1>17, <2>3
    <3>2. PICK next \in Op : next = ops'[c] BY <1>19, <3>1
    <3>3. next.step = p.then /\ next.seen = op.seen /\ next.made = op.made BY <3>1, <3>2 DEF Op
    <3>4. op.seen <= Len(log') BY <1>6, <1>7, <1>25 DEF OpInv, Op
    <3>5. next.step # "run" BY <1>8, <3>3 DEF Thens
    <3> QED BY <1>9, <1>15, <2>3, <3>1, <3>2, <3>3, <3>4, <3>5 DEF OpInv
  <2> QED BY <2>1, <2>2, <2>3
<1> QED BY <1>13, <1>20, <1>21, <1>22, <1>23, <1>24, <1>26 DEF IInv

\* A crash keeps the invariant: what it takes was neither answered nor saved.
LEMMA CrashStep == ASSUME IInv, Crash PROVE IInv'
<1>1. TypeInv /\ LogInv /\ RealInv /\ AnswerInv BY DEF IInv
<1>2. DOMAIN log = 1..Len(log) /\ Len(log) \in Nat /\ \A i \in DOMAIN log : log[i] \in Entry
    BY <1>1, SequenceTypes
<1>3. log' = [i \in DOMAIN log |-> IF EventId(log[i]) \in unsaved THEN Gap ELSE log[i]] BY DEF Crash
<1>4. /\ unsaved' = {} /\ queue' = << >> /\ ops' = [d \in Clients |-> Idle] /\ nonce' = 0
      /\ restarts' = restarts + 1 /\ restarts < MaxRestarts
      /\ UNCHANGED <<clock, merges, answered, started>>
      /\ passLost' \in BOOLEAN
    BY <1>1 DEF Crash, TypeInv
<1>5. log' \in Seq(Entry)
  <2>1. PICK n \in Nat : n = Len(log) BY <1>2
  <2>2. PICK f : f = [i \in 1..n |-> log'[i]] OBVIOUS
  <2>3. log' = f BY <1>2, <1>3, <2>1, <2>2
  <2>4. \A i \in 1..n : f[i] \in Entry BY <1>2, <1>3, <2>1, <2>2, EntryLemma
  <2>5. [i \in 1..n |-> f[i]] \in Seq(Entry) BY ONLY <2>1, <2>4, IsASeq
  <2>6. f = [i \in 1..n |-> f[i]] BY <2>2
  <2> QED BY <2>3, <2>5, <2>6
<1>6. ASSUME NEW e, Kept(e) PROVE Kept(e)'
  <2>1. PICK i \in DOMAIN log : log[i] = e BY <1>6 DEF Kept
  <2>2. i \in DOMAIN log' /\ log'[i] = e BY <1>3, <1>6, <2>1 DEF Kept
  <2> QED BY <1>4, <2>2 DEF Kept
<1>7. DOMAIN log' = DOMAIN log /\ \A i \in DOMAIN log' : log'[i] = Gap \/ log'[i] = log[i] BY <1>3
<1>8. TypeInv'
  <2>1. restarts \in Nat /\ restarts' \in 0..MaxRestarts /\ 0..restarts \subseteq 0..restarts'
      BY <1>1, <1>4, BoundsAssumption DEF TypeInv
  <2>2. queue' \in Seq(Pushed) /\ ops' \in [Clients -> {Idle} \cup Op] BY <1>4
  <2>3. merges' \subseteq [item : Items, report : ReportIds, epoch : 0..restarts']
      BY <1>1, <1>4, <2>1 DEF TypeInv
  <2>4. answered' \subseteq [epoch : 0..restarts', kind : Kinds, events : SUBSET Event]
    <3>1. ASSUME NEW a \in answered
          PROVE  a \in [epoch : 0..restarts', kind : Kinds, events : SUBSET Event]
      <4>1. a \in [epoch : 0..restarts, kind : Kinds, events : SUBSET Event] BY <1>1 DEF TypeInv
      <4> QED BY <2>1, <4>1
    <3> QED BY <1>4, <3>1
  <2>5. nonce' \in Nat /\ clock' \in Nat /\ started' \in 0..MaxOps BY <1>1, <1>4 DEF TypeInv
  <2> QED BY <1>4, <1>5, <2>1, <2>2, <2>3, <2>4, <2>5 DEF TypeInv
<1>9. LogInv'
  <2>1. ASSUME NEW i \in Present' PROVE i \in Present /\ log'[i] = log[i]
    <3>1. i \in DOMAIN log' /\ log'[i].type # "gap" BY DEF Present
    <3>2. log'[i] = log[i] BY <1>7, <3>1, EntryLemma
    <3> QED BY <1>7, <3>1, <3>2 DEF Present
  <2>2. \A i, j \in Present' : EventId(log'[i]) = EventId(log'[j]) => i = j BY <1>1, <2>1 DEF LogInv
  <2> QED BY <1>4, <2>2 DEF LogInv
<1>10. QueueInv' BY <1>4 DEF QueueInv
<1>11. MergeInv'
  <2>1. ASSUME NEW m \in merges PROVE m.epoch # restarts + 1
    <3>1. m.epoch \in 0..restarts /\ restarts \in Nat BY <1>1 DEF TypeInv
    <3> QED BY <3>1
  <2> QED BY <1>4, <2>1 DEF MergeInv
<1>12. RealInv'
  <2>1. Real(Gap, merges) BY EntryLemma DEF Real
  <2> QED BY <1>1, <1>4, <1>7, <2>1 DEF RealInv
<1>13. AnswerInv' BY <1>1, <1>4, <1>6 DEF AnswerInv
<1>14. \A d \in Clients : OpInv(d)' BY <1>4 DEF OpInv
<1> QED BY <1>8, <1>9, <1>10, <1>11, <1>12, <1>13, <1>14 DEF IInv

-----------------------------------------------------------------------------
(* The theorems. *)

\* The invariant holds at the start: the mission is not there, or just created.
LEMMA InitLemma == Init => IInv
<1> SUFFICES ASSUME Init PROVE IInv OBVIOUS
<1>1. /\ unsaved = {} /\ queue = << >> /\ ops = [c \in Clients |-> Idle]
      /\ nonce = 0 /\ clock = 1 /\ merges = {} /\ answered = {} /\ passLost = FALSE
      /\ started = 0 /\ restarts = 0
    BY DEF Init
<1>2. /\ log \in Seq(Entry)
      /\ Distinct(log)
      /\ \A i \in DOMAIN log : log[i].type \in {"created", "worker"}
  <2>1. CASE log = << >> BY <2>1 DEF Distinct
  <2>2. CASE \E team \in Teams : log = CreateEvents(team)
    <3>1. /\ log \in Seq(Event) /\ Distinct(log)
          /\ \A i \in DOMAIN log : log[i].type \in {"created", "worker"}
        BY <2>2, CreateLemma
    <3>2. Event \subseteq Entry BY DEF Entry
    <3> QED BY <3>1, <3>2
  <2> QED BY <2>1, <2>2 DEF Init
<1>3. TypeInv
  <2>1. queue \in Seq(Pushed) /\ ops \in [Clients -> {Idle} \cup Op] BY <1>1
  <2>2. started \in 0..MaxOps /\ restarts \in 0..MaxRestarts /\ nonce \in Nat /\ clock \in Nat
      BY <1>1, BoundsAssumption
  <2>3. /\ merges \subseteq [item : Items, report : ReportIds, epoch : 0..restarts]
        /\ answered \subseteq [epoch : 0..restarts, kind : Kinds, events : SUBSET Event]
      BY <1>1
  <2>4. passLost \in BOOLEAN BY <1>1
  <2> QED BY <1>2, <2>1, <2>2, <2>3, <2>4 DEF TypeInv
<1>4. LogInv BY <1>1, <1>2 DEF LogInv, Distinct, Present
<1>5. QueueInv BY <1>1 DEF QueueInv
<1>6. RealInv BY <1>2 DEF RealInv, Real
<1>7. MergeInv /\ AnswerInv BY <1>1 DEF MergeInv, AnswerInv
<1>8. \A c \in Clients : OpInv(c) BY <1>1 DEF OpInv
<1> QED BY <1>3, <1>4, <1>5, <1>6, <1>7, <1>8 DEF IInv

\* Every step keeps the invariant.
LEMMA NextLemma == IInv /\ [Next]_vars => IInv'
<1> SUFFICES ASSUME IInv, [Next]_vars PROVE IInv' OBVIOUS
<1>1. ASSUME NEW c \in Clients, NEW team \in Teams, Create(c, team) PROVE IInv' BY <1>1, CreateStep
<1>2. ASSUME NEW c \in Clients, AppendOne(c) PROVE IInv' BY <1>2, AppendOneStep
<1>3. ASSUME NEW c \in Clients, Verify(c) PROVE IInv' BY <1>3, VerifyStep
<1>4. ASSUME NEW c \in Clients, Merge(c) \/ CheckpointFails(c) PROVE IInv' BY <1>4, MergeStep
<1>5. CASE Store BY <1>5, StoreStep
<1>6. CASE Crash BY <1>6, CrashStep
<1>7. CASE UNCHANGED vars
    BY <1>7 DEF vars, IInv, TypeInv, LogInv, QueueInv, MergeInv, RealInv, AnswerInv, OpInv,
                Present, StoredIds, Kept, Waits, Seen
<1> QED BY <1>1, <1>2, <1>3, <1>4, <1>5, <1>6, <1>7 DEF Next

\* The inductive invariant: it holds in every state of every behaviour.
THEOREM Inductive == Spec => []IInv
<1>1. Init => IInv BY InitLemma
<1>2. IInv /\ [Next]_vars => IInv' BY NextLemma
<1> QED BY <1>1, <1>2, PTL DEF Spec

\* Every variable has its type, the ids in memory are unique, what is not saved
\* is in memory, and a request waits for at most one push, which is its own.
THEOREM TypeCorrect == Spec => []TypeOK
<1>1. IInv => TypeOK BY TypesFollow
<1> QED BY <1>1, Inductive, PTL

\* What a request was answered 2xx for is stored, and stays so through crashes
\* (the commit of createServerMissionStore).
THEOREM AnswersAreStored == Spec => []AnsweredIsStored
<1>1. IInv => AnsweredIsStored BY DEF IInv, AnswerInv, Kept, AnsweredIsStored
<1> QED BY <1>1, Inductive, PTL

\* executeMerge runs only on the strength of a report that is visible, passed
\* and observed, and that stays so while the process lives.
THEOREM MergesAreOnlyOfPassed == Spec => []MergesArePassed
<1>1. IInv => MergesArePassed BY DEF IInv, MergeInv, HasPass, MergesArePassed
<1> QED BY <1>1, Inductive, PTL

\* What the server itself stores as merged was merged by git, for the item and the
\* report it names; what clients have stored as merged may not have been.
THEOREM NoFalseMerge == Spec => []MergedIsReal
<1>1. IInv => MergedIsReal BY DEF IInv, RealInv, Real, MergedIsReal
<1> QED BY <1>1, Inductive, PTL

\* No step but a restart takes a verdict back that the mission shows.
LEMMA VerdictsStay == IInv /\ [Next]_vars /\ restarts' = restarts => Reports(log) \subseteq Reports(log')
<1> SUFFICES ASSUME IInv, [Next]_vars, restarts' = restarts PROVE Reports(log) \subseteq Reports(log')
    OBVIOUS
<1>1. TypeInv /\ TypeInv' BY NextLemma DEF IInv
<1>2. CASE Store
  <2>1. TypeInv /\ LogInv /\ QueueInv BY DEF IInv
  <2>2. PICK p \in Pushed : p = Head(queue) /\ p = queue[1] /\ 1 \in DOMAIN queue
      BY <1>2, <2>1, TailLemma DEF TypeInv, Store
  <2>3. p.events \in Seq(Event) /\ Distinct(p.events) BY <2>1, <2>2 DEF Pushed, QueueInv
  <2>4. log' = log \o Fresh(p.events) BY <1>2, <2>2 DEF Store
  <2>5. log' \in Seq(Entry) /\ Prefix(log, log') BY <2>1, <2>3, <2>4, StoredLemma
  <2> QED BY <1>1, <2>5, PrefixLemma DEF TypeInv
<1>3. CASE Crash
  <2>1. restarts' = restarts + 1 /\ restarts \in Nat BY <1>1, <1>3 DEF Crash, TypeInv
  <2> QED BY <2>1
<1>4. CASE log' = log BY <1>4
<1>5. Next => Store \/ Crash \/ log' = log
    BY DEF Next, Create, AppendOne, AppendWorker, AppendArtifact, AppendReport, AppendQueued,
           AppendClosed, AppendEvent, Verify, VerifyBegin, VerifyRun, React, Correct, Merge,
           MergeBegin, MergeRun, Skills, CheckpointFails
<1> QED BY <1>2, <1>3, <1>4, <1>5 DEF vars

\* A verdict that is visible stays as it is while the process lives.
THEOREM VerdictsStayFinal == Spec => VerdictsAreFinal
<1>1. IInv /\ [Next]_vars => [restarts' = restarts => Reports(log) \subseteq Reports(log')]_vars
    BY VerdictsStay
<1> QED BY <1>1, Inductive, PTL DEF Spec, VerdictsAreFinal

-----------------------------------------------------------------------------
(* Why the retries are bounded. *)

\* The card of a correction is in memory and on the disk.
CardIsKept(key) ==
    \E j \in DOMAIN log : log[j].type = "card" /\ log[j].key = key /\ EventId(log[j]) \notin unsaved

\* The requests that have read a mission that allows a retry.
MayRetry == {c \in Clients : ops[c] # Idle /\ Cardinality(PriorCards(Seen(c))) < MaxAttempts}

\* A suggestion is a push of its own, and the last of its request; a retry is
\* pushed only by a request that has read a mission that allows it.
Suggests(p) ==
    \A k \in DOMAIN p.events : p.events[k].type = "correction" =>
        /\ CardIsKept(p.events[k].key) /\ Len(p.events) = 1 /\ p.then = "answer"
        /\ p.events[k].data.action = "retry" => p.client \in MayRetry

CorrectionInv == \A i \in DOMAIN log : log[i].type = "correction" => CardIsKept(log[i].key)
SuggestInv == \A n \in DOMAIN queue : Suggests(queue[n])
\* A retry that is stored was one that could still come.
CountInv == passLost \/ Cardinality(Retries) + Cardinality(MayRetry) <= MaxAttempts + Cardinality(Clients) - 1
RetryInv == CorrectionInv /\ SuggestInv /\ CountInv

\* There are no more retries than cards since the last pass, one for each, and no
\* more requests than clients.
LEMMA CountLemma ==
    ASSUME TypeInv, LogInv
    PROVE  /\ IsFiniteSet(Retries) /\ Cardinality(Retries) \in Nat
           /\ IsFiniteSet(PriorCards(log)) /\ Cardinality(PriorCards(log)) \in Nat
           /\ Cardinality(Retries) <= Cardinality(PriorCards(log))
           /\ IsFiniteSet(MayRetry) /\ Cardinality(MayRetry) \in Nat
           /\ Cardinality(Clients) \in Nat \ {0}
           /\ Cardinality(MayRetry) <= Cardinality(Clients)
<1>1. DOMAIN log = 1..Len(log) /\ Len(log) \in Nat BY SequenceTypes
<1>2. IsFiniteSet(DOMAIN log) BY <1>1, FS_Interval
<1> DEFINE since == {log[j].key : j \in PriorCards(log)}
<1>3. IsFiniteSet(PriorCards(log)) /\ Cardinality(PriorCards(log)) \in Nat
  <2>1. PriorCards(log) \subseteq DOMAIN log BY DEF PriorCards, At
  <2> QED BY <1>2, <2>1, FS_Subset, FS_CardinalityType
<1>4. IsFiniteSet(Retries) /\ Cardinality(Retries) \in Nat
  <2>1. Retries \subseteq DOMAIN log BY DEF Retries, At
  <2> QED BY <1>2, <2>1, FS_Subset, FS_CardinalityType
<1>5. IsFiniteSet(since) /\ Cardinality(since) <= Cardinality(PriorCards(log))
  <2> DEFINE f == [j \in PriorCards(log) |-> log[j].key]
  <2>1. f \in Surjection(PriorCards(log), since) BY DEF Surjection
  <2> HIDE DEF f, since
  <2> QED BY <1>3, <2>1, FS_Surjection
<1>6. Cardinality(Retries) <= Cardinality(since)
  <2> DEFINE g == [i \in Retries |-> log[i].key]
  <2>1. \A i \in Retries : log[i].key \in since BY DEF Retries
  <2>2. ASSUME NEW i \in Retries, NEW j \in Retries, log[i].key = log[j].key PROVE i = j
    <3>1. log[i].type = "correction" /\ log[j].type = "correction" /\ i \in Present /\ j \in Present
        BY DEF Retries, At, Present
    <3>2. EventId(log[i]) = EventId(log[j]) BY <2>2, <3>1 DEF EventId
    <3> QED BY <3>1, <3>2 DEF LogInv
  <2> HIDE DEF since
  <2>3. g \in Injection(Retries, since) BY <2>1, <2>2 DEF Injection, IsInjective
  <2> HIDE DEF g
  <2> QED BY <1>5, <2>3, FS_Injection
<1>7. IsFiniteSet(MayRetry) /\ Cardinality(MayRetry) \in Nat /\ Cardinality(MayRetry) <= Cardinality(Clients)
  <2>1. MayRetry \subseteq Clients BY DEF MayRetry
  <2> QED BY <2>1, ClientsAssumption, FS_Subset, FS_CardinalityType
<1>8. Cardinality(Clients) \in Nat \ {0} BY ClientsAssumption, FS_CardinalityType, FS_EmptySet
<1>9. Cardinality(since) \in Nat BY <1>5, FS_CardinalityType
<1> HIDE DEF since
<1>10. Cardinality(Retries) <= Cardinality(PriorCards(log)) BY <1>3, <1>4, <1>5, <1>6, <1>9
<1> QED BY <1>3, <1>4, <1>7, <1>8, <1>10

\* A request that has not pushed reads anew, goes on with what it has read, or
\* ends: what may be retried stays bounded.  If it reads anew and may retry, there
\* are fewer cards than attempts, and the other clients are all there are.
LEMMA RequestStep ==
    ASSUME IInv, IInv', RetryInv, NEW c \in Clients, UNCHANGED <<log, unsaved, passLost>>,
           ops[c].step # "store",
           \A d \in Clients : d # c => ops'[d] = ops[d],
           \/ ops'[c] = Idle \/ ops'[c].seen = Len(log)
           \/ ops[c] # Idle /\ ops'[c].seen = ops[c].seen,
           queue' = queue \/ \E p : queue' = Append(queue, p) /\ Suggests(p)'
    PROVE  RetryInv'
<1>1. TypeInv /\ LogInv /\ QueueInv /\ TypeInv' BY DEF IInv
<1>2. \A key : CardIsKept(key)' <=> CardIsKept(key) BY DEF CardIsKept
<1>3. CorrectionInv' BY <1>2 DEF RetryInv, CorrectionInv
<1>4. \A d \in Clients : d # c => (d \in MayRetry' <=> d \in MayRetry)
  <2>1. \A d \in Clients : d # c => Seen(d)' = Seen(d) BY DEF Seen
  <2> QED BY <2>1 DEF MayRetry
<1>5. ASSUME NEW n \in DOMAIN queue, NEW p, p = queue[n] PROVE Suggests(p)'
  <2>1. Suggests(p) BY <1>5 DEF RetryInv, SuggestInv
  <2>2. p.client \in Clients /\ p.client # c BY <1>1, <1>5, NotWaiting, SequenceTypes DEF Pushed
  <2>3. p.client \in MayRetry' <=> p.client \in MayRetry BY <1>4, <2>2
  <2> QED BY <1>2, <2>1, <2>3 DEF Suggests
<1>6. ASSUME NEW n \in DOMAIN queue', NEW q, q = queue'[n] PROVE Suggests(q)'
  <2>1. CASE queue' = queue BY <1>5, <1>6, <2>1
  <2>2. ASSUME NEW p, queue' = Append(queue, p), Suggests(p)' PROVE Suggests(q)'
    <3>1. queue \in Seq(Pushed \cup {p}) BY <1>1, SequenceTypes, IsASeq DEF TypeInv
    <3>2. Longer(queue', queue, Pushed \cup {p}, p) BY ONLY <2>2, <3>1, PushLemma
    <3>3. CASE n \in DOMAIN queue BY <1>5, <1>6, <3>2, <3>3 DEF Longer
    <3>4. CASE n = Len(queue) + 1 BY <1>6, <2>2, <3>2, <3>4 DEF Longer
    <3> QED BY <1>6, <3>2, <3>3, <3>4 DEF Longer
  <2> QED BY <2>1, <2>2
<1>7. SuggestInv' BY <1>6 DEF SuggestInv
<1>8. Retries' = Retries BY DEF Retries
<1>9. CountInv'
  <2>1. CASE c \in MayRetry \/ c \notin MayRetry'
    <3>1. MayRetry' \subseteq MayRetry BY <1>4, <2>1 DEF MayRetry
    <3>2. IsFiniteSet(MayRetry') /\ Cardinality(MayRetry') <= Cardinality(MayRetry)
          /\ Cardinality(MayRetry') \in Nat
        BY <1>1, <3>1, CountLemma, FS_Subset, FS_CardinalityType
    <3>3. passLost' = passLost BY DEF CountInv
    <3> QED BY <1>1, <1>8, <3>2, <3>3, CountLemma, BoundsAssumption DEF CountInv, RetryInv
  <2>2. CASE c \notin MayRetry /\ c \in MayRetry'
    <3>1. ops'[c] # Idle /\ Cardinality(PriorCards(Seen(c)')) < MaxAttempts
        BY <2>2 DEF MayRetry
    <3>2. ops'[c].seen = Len(log)
      <4>1. ASSUME ops[c] # Idle, ops'[c].seen = ops[c].seen PROVE FALSE
        <5>1. Seen(c)' = Seen(c) BY <4>1 DEF Seen
        <5> QED BY <2>2, <3>1, <4>1, <5>1 DEF MayRetry
      <4> QED BY <3>1, <4>1
    <3>3. Seen(c)' = log BY <1>1, <3>2, SubSeqFull DEF Seen, TypeInv
    <3>4. Cardinality(PriorCards(log)) < MaxAttempts BY <3>1, <3>3
    <3>5. IsFiniteSet(MayRetry') /\ Cardinality(MayRetry') <= Cardinality(Clients)
          /\ Cardinality(MayRetry') \in Nat
      <4>1. MayRetry' \subseteq Clients BY DEF MayRetry
      <4> QED BY <4>1, ClientsAssumption, FS_Subset, FS_CardinalityType
    <3>6. Cardinality(Retries') + Cardinality(MayRetry') <= MaxAttempts + Cardinality(Clients) - 1
        BY <1>1, <1>8, <3>4, <3>5, CountLemma, BoundsAssumption
    <3> QED BY <3>6 DEF CountInv
  <2> QED BY <2>1, <2>2
<1> QED BY <1>3, <1>7, <1>9 DEF RetryInv

\* A push keeps retries bounded if a suggestion in it is one that may be.
LEMMA PushRetries ==
    ASSUME IInv, IInv', RetryInv, NEW c \in Clients, NEW op \in Op, NEW events, NEW then,
           PushEvents(c, op, events, then), UNCHANGED <<log, unsaved, passLost>>,
           ops[c].step # "store",
           op.seen = Len(log) \/ (ops[c] # Idle /\ op.seen = ops[c].seen),
           \A k \in DOMAIN events : events[k].type = "correction" =>
               /\ CardIsKept(events[k].key) /\ Len(events) = 1 /\ then = "answer"
               /\ events[k].data.action = "retry" =>
                     Cardinality(PriorCards(SubSeq(log, 1, op.seen))) < MaxAttempts
    PROVE  RetryInv'
<1>1. ops \in [Clients -> {Idle} \cup Op] BY DEF IInv, TypeInv
<1>2. PICK made : made = op.made \cup {events[k] : k \in DOMAIN events} OBVIOUS
<1>3. PICK next : next = [op EXCEPT !.step = "store", !.made = made] OBVIOUS
<1>4. next.seen = op.seen /\ next.step = "store" BY <1>3 DEF Op
<1>5. ops' = [ops EXCEPT ![c] = next] BY <1>2, <1>3 DEF PushEvents
<1>6. ops'[c] = next /\ \A d \in Clients : d # c => ops'[d] = ops[d] BY <1>1, <1>5
<1>7. PICK p : p = [client |-> c, events |-> events, then |-> then] OBVIOUS
<1>8. queue' = Append(queue, p) BY <1>7 DEF PushEvents
<1>9. ops'[c] # Idle BY <1>4, <1>6 DEF Idle
<1>10. Seen(c)' = SubSeq(log, 1, op.seen) BY <1>4, <1>6 DEF Seen
<1>11. \A key : CardIsKept(key)' <=> CardIsKept(key) BY DEF CardIsKept
<1>12. Suggests(p)' BY <1>7, <1>9, <1>10, <1>11 DEF Suggests, MayRetry
<1>13. \/ ops'[c] = Idle \/ ops'[c].seen = Len(log)
       \/ ops[c] # Idle /\ ops'[c].seen = ops[c].seen
    BY <1>4, <1>6
<1> QED BY <1>6, <1>8, <1>12, <1>13, RequestStep

\* A request that reads anew without a push, or ends, keeps retries bounded.
LEMMA OpRetries ==
    ASSUME IInv, IInv', RetryInv, NEW c \in Clients, NEW op, ops' = [ops EXCEPT ![c] = op],
           op = Idle \/ op.seen = Len(log),
           UNCHANGED <<log, unsaved, queue, passLost>>, ops[c].step # "store"
    PROVE  RetryInv'
<1>1. ops \in [Clients -> {Idle} \cup Op] BY DEF IInv, TypeInv
<1>2. ops'[c] = op /\ \A d \in Clients : d # c => ops'[d] = ops[d] BY <1>1
<1> QED BY <1>2, RequestStep

\* Steps that push no suggestion.
LEMMA QuietSteps ==
    ASSUME IInv, IInv', RetryInv, NEW c \in Clients,
           \/ \E team \in Teams : Create(c, team)
           \/ AppendOne(c)
           \/ \E agent \in Agents \cup {NoAgent} : VerifyBegin(c, agent)
           \/ CheckpointFails(c)
    PROVE  RetryInv'
<1>1. ASSUME NEW team \in Teams, Create(c, team) PROVE RetryInv'
  <2>1. PICK op \in Op : op = NewOp("create", NoAgent, NoItem) /\ op.seen = Len(log)
      BY NewOpLemma DEF Kinds
  <2>2. PICK events : events = CreateEvents(team) OBVIOUS
  <2>3. \A k \in DOMAIN events : events[k].type # "correction" BY <2>2, CreateLemma
  <2>4. PushEvents(c, op, events, "answer") /\ UNCHANGED <<log, unsaved, passLost>>
      BY <1>1, <2>1, <2>2 DEF Create
  <2>5. ops[c].step # "store" BY <1>1, StartLemma DEF Create
  <2>6. op.seen = Len(log) \/ (ops[c] # Idle /\ op.seen = ops[c].seen) BY <2>1
  <2> QED BY <2>3, <2>4, <2>5, <2>6, PushRetries
<1>2. ASSUME NEW type, type # "correction", NEW data, AppendEvent(c, type, data) PROVE RetryInv'
  <2>1. PICK op \in Op : op = NewOp("append", NoAgent, NoItem) /\ op.seen = Len(log)
      BY NewOpLemma DEF Kinds
  <2>2. PICK events : events = <<Ev(type, NextSeq(log), data)>> OBVIOUS
  <2>3. \A k \in DOMAIN events : events[k].type # "correction" BY <1>2, <2>2 DEF Ev
  <2>4. PushEvents(c, op, events, "answer") /\ UNCHANGED <<log, unsaved, passLost>>
      BY <1>2, <2>1, <2>2 DEF AppendEvent
  <2>5. ops[c].step # "store" BY <1>2, StartLemma DEF AppendEvent
  <2>6. op.seen = Len(log) \/ (ops[c] # Idle /\ op.seen = ops[c].seen) BY <2>1
  <2> QED BY <2>3, <2>4, <2>5, <2>6, PushRetries
<1>3. CASE AppendOne(c)
    BY <1>2, <1>3 DEF AppendOne, AppendWorker, AppendArtifact, AppendReport, AppendQueued, AppendClosed
<1>4. ASSUME NEW agent \in Agents \cup {NoAgent}, VerifyBegin(c, agent) PROVE RetryInv'
  <2>1. PICK op : op = NewOp("verify", VerifierOf(log, agent), NoItem) OBVIOUS
  <2>2. op.seen = Len(log) BY <2>1 DEF NewOp
  <2>3. ops' = [ops EXCEPT ![c] = op] /\ UNCHANGED <<log, unsaved, queue, passLost>>
      BY <1>4, <2>1 DEF VerifyBegin
  <2>4. ops[c].step # "store" BY <1>4, StartLemma DEF VerifyBegin
  <2> QED BY <2>2, <2>3, <2>4, OpRetries
<1>5. CASE CheckpointFails(c)
  <2>1. PICK op : op = Idle OBVIOUS
  <2>2. /\ ops[c].step # "store" /\ ops' = [ops EXCEPT ![c] = op]
        /\ UNCHANGED <<log, unsaved, queue, passLost>>
      BY <1>5, <2>1 DEF CheckpointFails
  <2> QED BY <2>1, <2>2, OpRetries
<1> QED BY <1>1, <1>3, <1>4, <1>5

\* The steps of a verify keep retries bounded: the suggestion, decided on what was
\* read before the run, names a card that is kept by now.
LEMMA VerifyRetries ==
    ASSUME IInv, IInv', RetryInv, NEW c \in Clients, Verify(c)
    PROVE  RetryInv'
<1>1. CASE \E agent \in Agents \cup {NoAgent} : VerifyBegin(c, agent) BY <1>1, QuietSteps
<1>2. ASSUME NEW status, NEW sig, VerifyRun(c, status, sig) PROVE RetryInv'
  <2>1. ops[c].step = "run" /\ ops[c] # Idle BY <1>2 DEF VerifyRun, Idle
  <2>2. PICK op \in Op : op = ops[c] BY <2>1, OpTypes
  <2>3. PICK events, then :
            /\ PushEvents(c, op, events, then)
            /\ events = <<Ev("report", NextSeq(Seen(c)),
                             [id |-> <<"verify", nonce>>, status |-> status,
                              observed |-> status \in {"passed", "failed"}, sig |-> sig,
                              at |-> clock', by |-> "server"])>>
      BY <1>2, <2>2 DEF VerifyRun
  <2>4. \A k \in DOMAIN events : events[k].type # "correction" BY <2>3 DEF Ev
  <2>5. UNCHANGED <<log, unsaved, passLost>> BY <1>2 DEF VerifyRun
  <2>6. op.seen = ops[c].seen /\ ops[c].step # "store" BY <2>1, <2>2
  <2> QED BY <2>1, <2>3, <2>4, <2>5, <2>6, PushRetries
<1>3. CASE React(c)
  <2>1. ops[c].step = "react" /\ ops[c] # Idle BY <1>3 DEF React, Idle
  <2>2. PICK op \in Op : op = ops[c] BY <2>1, OpTypes
  <2>3. PICK events, then, key, data :
            PushEvents(c, op, events, then) /\ events = <<Ev("card", key, data)>>
      BY <1>3, <2>2 DEF React
  <2>4. \A k \in DOMAIN events : events[k].type # "correction" BY <2>3 DEF Ev
  <2>5. UNCHANGED <<log, unsaved, passLost>> BY <1>3 DEF React
  <2>6. op.seen = ops[c].seen /\ ops[c].step # "store" BY <2>1, <2>2
  <2> QED BY <2>1, <2>3, <2>4, <2>5, <2>6, PushRetries
<1>4. CASE Correct(c)
  <2>1. ops[c].step = "correct" /\ ops[c] # Idle BY <1>4 DEF Correct, Idle
  <2>2. PICK op \in Op : op = ops[c] BY <2>1, OpTypes
  <2>3. OpInv(c) /\ TypeInv BY DEF IInv
  <2>4. op.seen <= Len(log) /\ Ready(op.made, "correct") /\ \A x \in op.made : Kept(x)
      BY <2>1, <2>2, <2>3, NotWaiting DEF OpInv
  <2>5. PICK card \in op.made : card = Made(c, "card") /\ card.type = "card"
      BY <2>2, <2>4 DEF Ready, Made
  <2>6. CardIsKept(card.key) BY <2>4, <2>5 DEF Kept, CardIsKept
  <2>7. PICK action : action = Decide(Seen(c), card.data.sig, ops[c].agent) OBVIOUS
  <2>8. PICK events : events = <<Ev("correction", card.key, [id |-> card.data.id, action |-> action])>>
      OBVIOUS
  <2>9. PushEvents(c, op, events, "answer") /\ UNCHANGED <<log, unsaved, passLost>>
      BY <1>4, <2>2, <2>5, <2>7, <2>8 DEF Correct
  <2>10. action = "retry" => Cardinality(PriorCards(SubSeq(log, 1, op.seen))) < MaxAttempts
    <3>1. PICK seen : seen = SubSeq(log, 1, op.seen) /\ seen = Seen(c) BY <2>2 DEF Seen
    <3>2. op.seen \in 0..Len(log) BY <2>2, <2>3, <2>4, SequenceTypes DEF Op
    <3>3. seen \in Seq(Entry) BY <2>3, <3>1, <3>2, BeginningLemma DEF TypeInv
    <3>4. IsFiniteSet(PriorCards(seen))
      <4>1. PriorCards(seen) \subseteq 1..Len(seen) /\ Len(seen) \in Nat
          BY <3>3, LenProperties DEF PriorCards, At
      <4>2. IsFiniteSet(1..Len(seen)) BY <4>1, FS_Interval
      <4> QED BY <4>1, <4>2, FS_Subset
    <3>5. Cardinality(PriorCards(seen)) \in Nat BY <3>4, FS_CardinalityType
    <3>6. action = "retry" => ~(Cardinality(PriorCards(seen)) >= MaxAttempts)
        BY <2>7, <3>1 DEF Decide
    <3> QED BY <3>1, <3>5, <3>6, BoundsAssumption
  <2>11. \A k \in DOMAIN events :
            /\ events[k].key = card.key /\ events[k].data.action = action /\ Len(events) = 1
      BY <2>8 DEF Ev
  <2>12. op.seen = ops[c].seen /\ ops[c].step # "store" BY <2>1, <2>2
  <2> QED BY <2>1, <2>6, <2>9, <2>10, <2>11, <2>12, PushRetries
<1> QED BY <1>1, <1>2, <1>3, <1>4 DEF Verify

\* What the run of a merge pushes.
LEMMA MergePush ==
    ASSUME NEW c \in Clients, NEW result \in GitResults, MergeRun(c, result)
    PROVE  \E events, then :
              /\ PushEvents(c, ops[c], events, then)
              /\ \A k \in DOMAIN events : events[k].type \in {"queued", "closed"}
<1>1. PICK seq, id, report :
          PushEvents(c, ops[c], <<Ev("queued", seq, [id |-> id, status |-> result, report |-> report,
                                                     by |-> "server"])>>
                                \o Closing(seq + 1, id, result),
                     IF result = "merged" THEN "skills" ELSE "answer")
    BY DEF MergeRun
<1>2. PICK first : first = Ev("queued", seq, [id |-> id, status |-> result, report |-> report,
                                              by |-> "server"])
    OBVIOUS
<1>3. PICK second : second = Ev("closed", seq + 1, [status |-> "merged", item |-> id]) OBVIOUS
<1>4. Closing(seq + 1, id, result) \in {<< >>, <<second>>} BY <1>3 DEF Closing
<1>5. first.type = "queued" /\ second.type = "closed" BY <1>2, <1>3 DEF Ev
<1>6. PICK S : S = {first, second} OBVIOUS
<1>7. PICK events : events = <<first>> \o Closing(seq + 1, id, result) OBVIOUS
<1>8. events \in Seq(S)
  <2>1. <<first>> \in Seq(S) /\ <<second>> \in Seq(S) /\ << >> \in Seq(S) BY <1>6
  <2> QED BY <1>4, <1>7, <2>1, ConcatProperties
<1>9. \A k \in DOMAIN events : events[k] \in {first, second} BY <1>6, <1>8, ElementOfSeq, LenProperties
<1>10. \A k \in DOMAIN events : events[k].type \in {"queued", "closed"} BY <1>5, <1>9
<1> QED BY <1>1, <1>2, <1>7, <1>10

\* The steps of a merge suggest nothing.
LEMMA MergeRetries ==
    ASSUME IInv, IInv', RetryInv, NEW c \in Clients, Merge(c)
    PROVE  RetryInv'
<1>1. ASSUME NEW item \in Items, MergeBegin(c, item) PROVE RetryInv'
  <2>1. PICK op : op = NewOp("merge", NoAgent, item) OBVIOUS
  <2>2. op.seen = Len(log) BY <2>1 DEF NewOp
  <2>3. ops' = [ops EXCEPT ![c] = op] /\ UNCHANGED <<log, unsaved, queue, passLost>>
      BY <1>1, <2>1 DEF MergeBegin
  <2>4. ops[c].step # "store" BY <1>1, StartLemma DEF MergeBegin
  <2> QED BY <2>2, <2>3, <2>4, OpRetries
<1>2. ASSUME NEW result \in GitResults, MergeRun(c, result) PROVE RetryInv'
  <2>1. ops[c].step = "run" /\ ops[c] # Idle BY <1>2 DEF MergeRun, Idle
  <2>2. PICK op \in Op : op = ops[c] BY <2>1, OpTypes
  <2>3. PICK events, then :
            /\ PushEvents(c, op, events, then)
            /\ \A k \in DOMAIN events : events[k].type \in {"queued", "closed"}
      BY <1>2, <2>2, MergePush
  <2>4. \A k \in DOMAIN events : events[k].type # "correction" BY <2>3
  <2>5. UNCHANGED <<log, unsaved, passLost>> BY <1>2 DEF MergeRun
  <2>6. op.seen = ops[c].seen /\ ops[c].step # "store" BY <2>1, <2>2
  <2> QED BY <2>1, <2>3, <2>4, <2>5, <2>6, PushRetries
<1>3. CASE Skills(c)
  <2>1. ops[c].step = "skills" /\ ops[c] # Idle BY <1>3 DEF Skills, Idle
  <2>2. PICK op \in Op : op = ops[c] BY <2>1, OpTypes
  <2>3. UNCHANGED <<log, unsaved, passLost>> BY <1>3 DEF Skills
  <2>4. CASE SkillKeys(log) = << >>
    <3>1. PICK idle : idle = Idle OBVIOUS
    <3>2. ops' = [ops EXCEPT ![c] = idle] /\ UNCHANGED queue BY <1>3, <2>4, <3>1 DEF Skills, Answer
    <3> QED BY <2>1, <2>3, <3>1, <3>2, OpRetries
  <2>5. CASE SkillKeys(log) # << >>
    <3>1. PICK keys : keys = SkillKeys(log) OBVIOUS
    <3>2. PICK events : events = [i \in DOMAIN keys |-> Ev("skill", keys[i], [id |-> keys[i]])] OBVIOUS
    <3>3. PushEvents(c, op, events, "answer") BY <1>3, <2>2, <2>5, <3>1, <3>2 DEF Skills
    <3>4. \A k \in DOMAIN events : events[k].type # "correction" BY <3>2 DEF Ev
    <3>5. op.seen = ops[c].seen /\ ops[c].step # "store" BY <2>1, <2>2
    <3> QED BY <2>1, <2>3, <3>3, <3>4, <3>5, PushRetries
  <2> QED BY <2>4, <2>5
<1> QED BY <1>1, <1>2, <1>3 DEF Merge

\* Storing a push keeps retries bounded: a correction that comes is one of a
\* request that could still retry, and that is answered by now.
LEMMA StoreRetries == ASSUME IInv, IInv', RetryInv, Store PROVE RetryInv'
<1>1. TypeInv /\ LogInv /\ QueueInv /\ TypeInv' /\ LogInv' BY DEF IInv
<1>2. PICK p \in Pushed : p = Head(queue) /\ p = queue[1] /\ 1 \in DOMAIN queue
    BY <1>1, TailLemma DEF TypeInv, Store
<1>3. \A n \in DOMAIN queue' : n + 1 \in DOMAIN queue /\ n \in Nat \ {0} /\ queue'[n] = queue[n + 1]
    BY <1>1, TailLemma DEF TypeInv, Store
<1>4. PICK c \in Clients : c = p.client BY DEF Pushed
<1>5. p.events \in Seq(Event) /\ Distinct(p.events) /\ Suggests(p)
    BY <1>1, <1>2 DEF Pushed, QueueInv, RetryInv, SuggestInv
<1>6. log' = log \o Fresh(p.events) /\ passLost' = passLost BY <1>2 DEF Store
<1>7. /\ log \in Seq(Entry) /\ log' \in Seq(Entry) /\ Prefix(log, log')
      /\ \A i \in DOMAIN log : i \in DOMAIN log' /\ log'[i] = log[i]
      /\ \A i \in DOMAIN log' :
            \/ i \in DOMAIN log
            \/ log'[i] = Gap
            \/ \E k \in DOMAIN p.events : log'[i] = p.events[k]
      /\ StoredIds \subseteq StoredIds'
    BY <1>1, <1>5, <1>6, StoredLemma DEF TypeInv
<1>8. unsaved' \subseteq unsaved \cup (StoredIds' \ StoredIds) BY DEF Store
<1>9. /\ \A d \in Clients : d # c => ops'[d] = ops[d]
      /\ ops'[c] = Idle \/ (p.then # "answer" /\ ops'[c] = [ops[c] EXCEPT !.step = p.then])
    BY <1>1, <1>2, <1>4 DEF TypeInv, Store, Answer
<1>10. ops[c] # Idle /\ ops[c] \in Op
    BY <1>1, <1>2, <1>4, OpTypes DEF QueueInv, Idle
\* What is read stays read, and what was kept stays kept.
<1>11. \A d \in Clients : ops'[d] # Idle => ops[d] # Idle /\ Seen(d)' = Seen(d)
  <2>1. SUFFICES ASSUME NEW d \in Clients, ops'[d] # Idle PROVE ops[d] # Idle /\ Seen(d)' = Seen(d)
      OBVIOUS
  <2>2. ops[d] # Idle /\ ops[d] \in Op BY <1>9, <1>10, <2>1, OpTypes
  <2>3. PICK n \in Nat : n = ops[d].seen BY <2>2 DEF Op
  <2>4. ops'[d].seen = n BY <1>9, <1>10, <2>1, <2>3 DEF Op
  <2>5. n \in 0..Len(log) BY <1>1, <2>2, <2>3, SequenceTypes DEF IInv, OpInv
  <2>6. SubSeq(log', 1, n) = SubSeq(log, 1, n) BY <1>7, <2>5, BeginningLemma
  <2> QED BY <2>2, <2>3, <2>4, <2>6 DEF Seen
<1>12. MayRetry' \subseteq MayRetry BY <1>11 DEF MayRetry
<1>13. \A d \in MayRetry : d # c => d \in MayRetry'
  <2>1. SUFFICES ASSUME NEW d \in MayRetry, d # c PROVE d \in MayRetry' OBVIOUS
  <2>2. ops'[d] = ops[d] /\ ops[d] # Idle /\ d \in Clients BY <1>9, <2>1 DEF MayRetry
  <2>3. Seen(d)' = Seen(d) BY <1>11, <2>2
  <2> QED BY <2>1, <2>2, <2>3 DEF MayRetry
<1>14. ASSUME NEW key, CardIsKept(key) PROVE CardIsKept(key)'
  <2>1. PICK j \in DOMAIN log : log[j].type = "card" /\ log[j].key = key /\ EventId(log[j]) \notin unsaved
      BY <1>14 DEF CardIsKept
  <2>2. EventId(log[j]) \in StoredIds BY <2>1 DEF StoredIds, Present
  <2>3. EventId(log'[j]) \notin unsaved' BY <1>7, <1>8, <2>1, <2>2
  <2> QED BY <1>7, <2>1, <2>3 DEF CardIsKept
<1>15. ASSUME NEW i \in DOMAIN log', i \notin DOMAIN log, log'[i].type = "correction"
       PROVE  /\ CardIsKept(log'[i].key) /\ p.then = "answer" /\ i = Len(log) + 1
              /\ log'[i].data.action = "retry" => c \in MayRetry
  <2>1. log'[i] # Gap BY <1>15, EntryLemma
  <2>2. PICK k \in DOMAIN p.events : log'[i] = p.events[k] BY <1>7, <1>15, <2>1
  <2>3. Len(p.events) = 1 /\ CardIsKept(log'[i].key) /\ p.then = "answer"
        /\ (log'[i].data.action = "retry" => c \in MayRetry)
      BY <1>4, <1>5, <1>15, <2>2 DEF Suggests
  <2>4. i = Len(log) + 1 BY <1>1, <1>5, <1>6, <1>15, <2>3, OneStored
  <2> QED BY <2>3, <2>4
<1>16. CorrectionInv'
  <2>1. ASSUME NEW i \in DOMAIN log', NEW key, log'[i].type = "correction", key = log'[i].key
        PROVE  CardIsKept(key)'
    <3>1. CASE i \in DOMAIN log BY <1>7, <1>14, <2>1, <3>1 DEF RetryInv, CorrectionInv
    <3>2. CASE i \notin DOMAIN log BY <1>14, <1>15, <2>1, <3>2
    <3> QED BY <3>1, <3>2
  <2> QED BY <2>1 DEF CorrectionInv
<1>17. SuggestInv'
  <2>1. ASSUME NEW n \in DOMAIN queue', NEW q, q = queue'[n] PROVE Suggests(q)'
    <3>1. n + 1 \in DOMAIN queue /\ n + 1 # 1 /\ q = queue[n + 1] BY <1>3, <2>1
    <3>2. Suggests(q) BY <3>1 DEF RetryInv, SuggestInv
    <3>3. q.client # c BY <1>1, <1>2, <1>4, <3>1 DEF QueueInv
    <3> QED BY <1>13, <1>14, <3>2, <3>3 DEF Suggests
  <2> QED BY <2>1 DEF SuggestInv
\* A retry that there was counts only if it did before: its card is the one it had.
<1>18. ASSUME NEW i \in Retries', i \in DOMAIN log PROVE i \in Retries
  <2>1. i \in At(log', "correction") /\ log'[i].data.action = "retry" BY DEF Retries
  <2>2. PICK j \in PriorCards(log') : log'[j].key = log'[i].key BY DEF Retries
  <2>3. log'[i] = log[i] /\ log[i].type = "correction" BY <1>7, <1>18, <2>1 DEF At
  <2>4. PICK h \in DOMAIN log : log[h].type = "card" /\ log[h].key = log[i].key
      BY <1>18, <2>3 DEF RetryInv, CorrectionInv, CardIsKept
  <2>5. j \in At(log', "card") BY <2>2 DEF PriorCards
  <2>6. j = h
    <3>1. j \in DOMAIN log' /\ log'[j].type = "card" BY <2>5 DEF At
    <3>2. j \in Present' /\ h \in Present' BY <1>7, <2>4, <3>1 DEF Present
    <3>3. EventId(log'[j]) = EventId(log'[h]) BY <1>7, <2>2, <2>3, <2>4, <3>1 DEF EventId
    <3> QED BY <1>1, <3>2, <3>3 DEF LogInv
  <2>7. DOMAIN log = 1..Len(log) /\ Len(log) \in Nat BY <1>7, LenProperties
  <2>8. \A type, n : n \in DOMAIN log /\ n \in At(log', type) => n \in At(log, type)
      BY <1>7, <2>7 DEF At
  <2>9. \A n \in Firsts(log, "report") : n \in Firsts(log', "report") /\ log'[n] = log[n]
      BY <1>7, FirstsLemma
  <2>10. j \in PriorCards(log) BY <1>7, <2>2, <2>4, <2>5, <2>6, <2>8, <2>9 DEF PriorCards
  <2>11. log[j].key = log[i].key BY <2>4, <2>6
  <2>12. i \in At(log, "correction") BY <1>18, <2>1, <2>8
  <2> QED BY <2>1, <2>3, <2>10, <2>11, <2>12 DEF Retries
<1>19. Retries' \subseteq DOMAIN log' BY DEF Retries, At
<1>20. CountInv'
  <2>1. CASE Retries' \subseteq Retries
    <3>1. Cardinality(Retries') <= Cardinality(Retries) /\ Cardinality(Retries') \in Nat
        BY <1>1, <2>1, CountLemma, FS_Subset, FS_CardinalityType
    <3>2. Cardinality(MayRetry') <= Cardinality(MayRetry) /\ Cardinality(MayRetry') \in Nat
        BY <1>1, <1>12, CountLemma, FS_Subset, FS_CardinalityType
    <3> QED BY <1>1, <1>6, <3>1, <3>2, CountLemma, BoundsAssumption DEF RetryInv, CountInv
  <2>2. ASSUME NEW i \in Retries', i \notin Retries PROVE CountInv'
    <3>1. /\ i \in DOMAIN log' /\ i \notin DOMAIN log /\ log'[i].type = "correction"
          /\ log'[i].data.action = "retry"
        BY <1>18, <1>19, <2>2 DEF Retries, At
    <3>2. p.then = "answer" /\ c \in MayRetry /\ i = Len(log) + 1 BY <1>15, <3>1
    <3>3. Retries' \subseteq Retries \cup {i}
      <4>1. SUFFICES ASSUME NEW n \in Retries', n \notin Retries PROVE n = i OBVIOUS
      <4>2. n \in DOMAIN log' /\ n \notin DOMAIN log /\ log'[n].type = "correction"
          BY <1>18, <1>19, <4>1 DEF Retries, At
      <4> QED BY <1>15, <3>2, <4>2
    <3>4. Cardinality(Retries') <= Cardinality(Retries) + 1 /\ Cardinality(Retries') \in Nat
      <4>1. IsFiniteSet(Retries \cup {i}) /\ Cardinality(Retries \cup {i}) = Cardinality(Retries) + 1
          BY <1>1, <2>2, CountLemma, FS_AddElement
      <4>2. Cardinality(Retries') <= Cardinality(Retries \cup {i}) /\ Cardinality(Retries') \in Nat
          BY <3>3, <4>1, FS_Subset, FS_CardinalityType
      <4> QED BY <4>1, <4>2
    <3>5. MayRetry' \subseteq MayRetry \ {c} BY <1>9, <1>12, <3>2 DEF MayRetry
    <3>6. Cardinality(MayRetry') <= Cardinality(MayRetry) - 1 /\ Cardinality(MayRetry') \in Nat
      <4>1. IsFiniteSet(MayRetry \ {c}) /\ Cardinality(MayRetry \ {c}) = Cardinality(MayRetry) - 1
          BY <1>1, <3>2, CountLemma, FS_RemoveElement
      <4>2. Cardinality(MayRetry') <= Cardinality(MayRetry \ {c}) /\ Cardinality(MayRetry') \in Nat
          BY <3>5, <4>1, FS_Subset, FS_CardinalityType
      <4> QED BY <4>1, <4>2
    <3> QED BY <1>1, <1>6, <3>4, <3>6, CountLemma, BoundsAssumption DEF RetryInv, CountInv
  <2> QED BY <2>1, <2>2
<1> QED BY <1>16, <1>17, <1>20 DEF RetryInv

\* A crash keeps retries bounded: no request is left that could retry, and unless a
\* pass is lost no card becomes younger than every pass.
LEMMA CrashRetries == ASSUME IInv, IInv', RetryInv, Crash PROVE RetryInv'
<1>1. TypeInv /\ LogInv BY DEF IInv
<1>2. DOMAIN log = 1..Len(log) /\ Len(log) \in Nat BY <1>1, SequenceTypes
<1>3. log' = [i \in DOMAIN log |-> IF EventId(log[i]) \in unsaved THEN Gap ELSE log[i]] BY DEF Crash
<1>4. unsaved' = {} /\ queue' = << >> /\ ops' = [d \in Clients |-> Idle] BY DEF Crash
<1>5. DOMAIN log' = DOMAIN log /\ \A i \in DOMAIN log : log'[i].type # "gap" => log'[i] = log[i]
    BY <1>3, EntryLemma
<1>6. \A i \in DOMAIN log : EventId(log[i]) \notin unsaved => log'[i] = log[i] BY <1>3
<1>7. CorrectionInv'
  <2>1. ASSUME NEW i \in DOMAIN log', NEW key, log'[i].type = "correction", key = log'[i].key
        PROVE  CardIsKept(key)'
    <3>1. PICK j \in DOMAIN log : log[j].type = "card" /\ log[j].key = key /\ EventId(log[j]) \notin unsaved
        BY <1>5, <2>1 DEF RetryInv, CorrectionInv, CardIsKept
    <3> QED BY <1>4, <1>5, <1>6, <3>1 DEF CardIsKept
  <2> QED BY <2>1 DEF CorrectionInv
<1>8. SuggestInv' BY <1>4 DEF SuggestInv
<1>9. MayRetry' = {} BY <1>4 DEF MayRetry
<1>10. \A type : \A i \in At(log', type) : type # "gap" => i \in At(log, type) /\ log'[i] = log[i]
  <2>1. SUFFICES ASSUME NEW type, NEW i \in At(log', type), type # "gap"
                 PROVE  i \in At(log, type) /\ log'[i] = log[i]
      OBVIOUS
  <2>2. i \in DOMAIN log /\ log'[i].type = type /\ log'[i] = log[i] BY <1>5, <2>1 DEF At
  <2>3. PICK h \in 1..(i - 1) : log'[h].type = "created" BY DEF At
  <2>4. h \in DOMAIN log /\ log'[h] = log[h] BY <1>2, <1>5, <2>2, <2>3
  <2> QED BY <2>2, <2>3, <2>4 DEF At
<1>11. ASSUME ~passLost', NEW i \in Retries' PROVE i \in Retries
  <2>1. i \in At(log, "correction") /\ log'[i] = log[i] /\ log[i].data.action = "retry"
      BY <1>10, <1>11 DEF Retries
  <2>2. PICK j \in PriorCards(log') : log'[j].key = log'[i].key BY <1>11 DEF Retries
  <2>3. j \in At(log, "card") /\ log'[j] = log[j] /\ j \in At(log', "card") BY <1>10, <2>2 DEF PriorCards
  <2>4. ASSUME NEW n \in Firsts(log, "report"), ObservedPass(log[n].data)
        PROVE  log[n].data.at < log[j].data.at
    <3>1. n \in At(log, "report") /\ n \in DOMAIN log BY DEF Firsts, At
    <3>2. EventId(log[n]) \notin unsaved BY <1>11, <2>4, <3>1 DEF Crash
    <3>3. log'[n] = log[n] /\ log[n].type = "report" BY <1>6, <3>1, <3>2 DEF At
    <3>4. PICK h \in 1..(j - 1) : log'[h].type = "created" BY <2>3 DEF At
    <3>5. PICK k \in 1..(n - 1) : log[k].type = "created" BY <3>1 DEF At
    <3>6. h \in DOMAIN log /\ k \in DOMAIN log /\ j \in DOMAIN log
        BY <1>2, <2>3, <3>1, <3>4, <3>5 DEF At
    <3>7. log'[h] = log[h] BY <1>5, <3>4, <3>6
    <3>8. h = k
      <4>1. h \in Present /\ k \in Present BY <3>4, <3>5, <3>6, <3>7 DEF Present
      <4>2. log[h] \in Event /\ log[k] \in Event BY <1>1, <3>6, <4>1, SequenceTypes, EntryLemma DEF Present
      <4>3. log[h].key = 0 /\ log[k].key = 0 BY <3>4, <3>5, <3>7, <4>2 DEF Event
      <4>4. EventId(log[h]) = EventId(log[k]) BY <3>4, <3>5, <3>7, <4>3 DEF EventId
      <4> QED BY <1>1, <4>1, <4>4 DEF LogInv
    <3>9. n \in At(log', "report") BY <1>5, <3>1, <3>3, <3>4, <3>5, <3>8 DEF At
    <3>10. n \in Firsts(log', "report") BY <1>10, <3>1, <3>3, <3>9 DEF Firsts
    <3>11. log'[n].data.at < log'[j].data.at BY <2>2, <2>4, <3>3, <3>10 DEF PriorCards
    <3> QED BY <2>3, <3>3, <3>11
  <2>5. j \in PriorCards(log) BY <2>3, <2>4 DEF PriorCards
  <2> QED BY <2>1, <2>2, <2>3, <2>5 DEF Retries
<1>12. CountInv'
  <2>1. CASE passLost' BY <2>1 DEF CountInv
  <2>2. CASE ~passLost'
    <3>1. Retries' \subseteq Retries /\ ~passLost BY <1>11, <2>2 DEF Crash
    <3>2. Cardinality(Retries') <= Cardinality(Retries) /\ Cardinality(Retries') \in Nat
        BY <1>1, <3>1, CountLemma, FS_Subset, FS_CardinalityType
    <3>3. Cardinality(MayRetry') = 0 BY <1>9, FS_EmptySet
    <3>4. Cardinality(Retries) + Cardinality(MayRetry) <= MaxAttempts + Cardinality(Clients) - 1
        BY <3>1 DEF RetryInv, CountInv
    <3> QED BY <1>1, <3>2, <3>3, <3>4, CountLemma, BoundsAssumption DEF CountInv
  <2> QED BY <2>1, <2>2
<1> QED BY <1>7, <1>8, <1>12 DEF RetryInv

\* Retries are bounded at the start: there are none.
LEMMA InitRetries == Init => RetryInv
<1> SUFFICES ASSUME Init PROVE RetryInv OBVIOUS
<1>1. TypeInv /\ LogInv BY InitLemma DEF IInv
<1>2. queue = << >> /\ ops = [c \in Clients |-> Idle] BY DEF Init
<1>3. \A i \in DOMAIN log : log[i].type # "correction"
  <2>1. CASE log = << >> BY <2>1
  <2>2. CASE \E team \in Teams : log = CreateEvents(team) BY <2>2, CreateLemma
  <2> QED BY <2>1, <2>2 DEF Init
<1>4. CorrectionInv /\ SuggestInv BY <1>2, <1>3 DEF CorrectionInv, SuggestInv
<1>5. Retries = {} /\ MayRetry = {} BY <1>2, <1>3 DEF Retries, At, MayRetry
<1>6. Cardinality(Retries) = 0 /\ Cardinality(MayRetry) = 0 BY <1>5, FS_EmptySet
<1>7. CountInv BY <1>1, <1>6, CountLemma, BoundsAssumption DEF CountInv
<1> QED BY <1>4, <1>7 DEF RetryInv

\* Every step keeps retries bounded.
LEMMA NextRetries == IInv /\ RetryInv /\ [Next]_vars => RetryInv'
<1> SUFFICES ASSUME IInv, RetryInv, [Next]_vars PROVE RetryInv' OBVIOUS
<1>1. IInv' BY NextLemma
<1>2. ASSUME NEW c \in Clients,
             (\E team \in Teams : Create(c, team)) \/ AppendOne(c) \/ CheckpointFails(c)
      PROVE  RetryInv'
    BY <1>1, <1>2, QuietSteps
<1>3. ASSUME NEW c \in Clients, Verify(c) PROVE RetryInv' BY <1>1, <1>3, VerifyRetries
<1>4. ASSUME NEW c \in Clients, Merge(c) PROVE RetryInv' BY <1>1, <1>4, MergeRetries
<1>5. CASE Store BY <1>1, <1>5, StoreRetries
<1>6. CASE Crash BY <1>1, <1>6, CrashRetries
<1>7. CASE UNCHANGED vars
    BY <1>7 DEF vars, RetryInv, CorrectionInv, SuggestInv, CountInv, Suggests, CardIsKept, MayRetry,
                Retries, Seen
<1> QED BY <1>2, <1>3, <1>4, <1>5, <1>6, <1>7 DEF Next

\* Between two observed passes a failing mission is retried only so often.
THEOREM RetriesStayBounded == Spec => []RetriesAreBounded
<1>1. Init => IInv /\ RetryInv BY InitLemma, InitRetries
<1>2. IInv /\ RetryInv /\ [Next]_vars => (IInv /\ RetryInv)' BY NextLemma, NextRetries
<1>3. IInv /\ RetryInv => RetriesAreBounded
  <2> SUFFICES ASSUME IInv, RetryInv PROVE RetriesAreBounded OBVIOUS
  <2>1. TypeInv /\ LogInv /\ CountInv BY DEF IInv, RetryInv
  <2> QED BY <2>1, CountLemma, BoundsAssumption DEF CountInv, RetriesAreBounded
<1> QED BY <1>1, <1>2, <1>3, PTL DEF Spec

-----------------------------------------------------------------------------
(* Why a verify is visible until the first restart: the nonce does number the *)
(* reports of one process, and the mission does not lose its creation.        *)

\* The report of a verify.
IsVerify(e) == e.type = "report" /\ e.data.by = "server"

\* Reports are reports of the mission; the nonce is above the verifies, and no two
\* of them have one id.
NumberInv ==
    /\ \A i \in DOMAIN log : log[i].type = "report" => i \in At(log, "report")
    /\ \A i \in DOMAIN log : IsVerify(log[i]) => log[i].data.id[2] < nonce
    /\ \A i, j \in DOMAIN log :
          IsVerify(log[i]) /\ IsVerify(log[j]) /\ log[i].data.id = log[j].data.id => i = j

\* A report comes alone, to a mission that is there, and the log does not have its id.
Comes(p) ==
    \A k \in DOMAIN p.events : p.events[k].type = "report" =>
        /\ Exists(log) /\ Len(p.events) = 1
        /\ IsVerify(p.events[k]) =>
              /\ p.events[k].data.id[2] < nonce
              /\ \A i \in DOMAIN log : IsVerify(log[i]) => log[i].data.id # p.events[k].data.id

\* Two pushes do not bring verifies of one id.
Apart(p, q) ==
    \A k \in DOMAIN p.events, l \in DOMAIN q.events :
        IsVerify(p.events[k]) /\ IsVerify(q.events[l]) => p.events[k].data.id # q.events[l].data.id

ComingInv ==
    /\ \A n \in DOMAIN queue : Comes(queue[n])
    /\ \A n, m \in DOMAIN queue : n # m => Apart(queue[n], queue[m])

\* What a verify makes is no other report, and the mission it has read is there.
Own(kind, events) == kind = "verify" => \A e \in events : e.type = "report" => IsVerify(e)
OwnInv ==
    /\ \A c \in Clients : ops[c] # Idle =>
          /\ ops[c].kind = "verify" /\ ops[c].step = "run" => Exists(log)
          /\ Own(ops[c].kind, ops[c].made)
    /\ \A a \in answered : Own(a.kind, a.events)

FirstInv == restarts = 0 => NumberInv /\ ComingInv /\ OwnInv

\* What a request pushes, if it is a report: of a mission that is there, and under
\* the nonce if it is the report of a verify.
Brings(events) ==
    \A k \in DOMAIN events : events[k].type = "report" =>
        /\ Exists(log) /\ Len(events) = 1
        /\ IsVerify(events[k]) => events[k].data.id[2] = nonce /\ nonce' = nonce + 1

\* A request that has not pushed keeps the reports of the first process apart.
LEMMA RequestFirst ==
    ASSUME IInv, IInv', FirstInv, NEW c \in Clients, UNCHANGED <<log, restarts>>,
           ops[c].step # "store",
           \A d \in Clients : d # c => ops'[d] = ops[d],
           nonce' \in {nonce, nonce + 1},
           restarts = 0 /\ ops'[c] # Idle =>
               /\ ops'[c].kind = "verify" /\ ops'[c].step = "run" => Exists(log)
               /\ Own(ops'[c].kind, ops'[c].made),
           restarts = 0 => \A a \in answered' \ answered : Own(a.kind, a.events),
           queue' = queue
              \/ \E p : queue' = Append(queue, p) /\ (restarts = 0 => Brings(p.events))
    PROVE  FirstInv'
<1>1. TypeInv /\ TypeInv' /\ nonce \in Nat /\ clock \in Nat BY DEF IInv, TypeInv
<1>2. SUFFICES ASSUME restarts = 0 PROVE NumberInv' /\ ComingInv' /\ OwnInv' BY DEF FirstInv
<1>3. NumberInv /\ ComingInv /\ OwnInv BY <1>2 DEF FirstInv
<1>4. \A e \in Event : IsVerify(e) => e.data.id[2] \in Nat
  <2>1. \A e \in Event : e.type = "report" => e.data \in Report BY EventLemma
  <2>2. \A r \in Report : r.id[2] \in Nat BY DEF Report, ReportIds
  <2> QED BY <2>1, <2>2 DEF IsVerify
<1>5. \A i \in DOMAIN log : IsVerify(log[i]) => log[i].data.id[2] \in Nat /\ log[i].data.id[2] < nonce
  <2>1. SUFFICES ASSUME NEW i \in DOMAIN log, IsVerify(log[i])
                 PROVE  log[i].data.id[2] \in Nat /\ log[i].data.id[2] < nonce
      OBVIOUS
  <2>2. log[i].type # "gap" BY <2>1 DEF IsVerify
  <2>3. log[i] \in Event BY <1>1, <2>2, SequenceTypes, EntryLemma
  <2> QED BY <1>3, <1>4, <2>1, <2>3 DEF NumberInv
<1>6. NumberInv' BY <1>1, <1>3, <1>5 DEF NumberInv
<1>7. ASSUME NEW n \in DOMAIN queue, NEW k \in DOMAIN queue[n].events, IsVerify(queue[n].events[k])
      PROVE  queue[n].events[k].data.id[2] \in Nat /\ queue[n].events[k].data.id[2] < nonce
  <2>1. queue[n].events \in Seq(Event) BY <1>1, SequenceTypes DEF Pushed
  <2>2. queue[n].events[k] \in Event BY <2>1, LenProperties, ElementOfSeq
  <2> QED BY <1>3, <1>4, <1>7, <2>2 DEF ComingInv, Comes, IsVerify
<1>8. ASSUME NEW n \in DOMAIN queue, NEW p, p = queue[n] PROVE Comes(p)'
  <2>1. Comes(p) BY <1>3, <1>8 DEF ComingInv
  <2>2. ASSUME NEW k \in DOMAIN p.events, IsVerify(p.events[k]) PROVE p.events[k].data.id[2] < nonce'
    <3>1. p.events[k].data.id[2] \in Nat /\ p.events[k].data.id[2] < nonce BY <1>7, <1>8, <2>2
    <3> QED BY <1>1, <3>1
  <2> QED BY <2>1, <2>2 DEF Comes
<1>9. ComingInv'
  <2>1. CASE queue' = queue
    <3>1. \A n \in DOMAIN queue' : Comes(queue[n])' BY <1>8, <2>1
    <3> QED BY <1>3, <2>1, <3>1 DEF ComingInv
  <2>2. ASSUME NEW p, queue' = Append(queue, p), Brings(p.events) PROVE ComingInv'
    <3>1. queue \in Seq(Pushed \cup {p}) BY <1>1, SequenceTypes, IsASeq DEF TypeInv
    <3>2. /\ \A n \in DOMAIN queue : n \in DOMAIN queue' /\ queue'[n] = queue[n]
          /\ \A n \in DOMAIN queue' : n \in DOMAIN queue \/ n = Len(queue) + 1
          /\ queue'[Len(queue) + 1] = p
      <4>1. Longer(queue', queue, Pushed \cup {p}, p) BY ONLY <2>2, <3>1, PushLemma
      <4> QED BY <4>1 DEF Longer
    <3>3. \A n \in DOMAIN queue' :
              (n \in DOMAIN queue /\ queue'[n] = queue[n]) \/ (n = Len(queue) + 1 /\ queue'[n] = p)
        BY <3>2
    <3>4. Comes(p)' BY <1>1, <1>5, <2>2 DEF Comes, Brings
    <3>5. ASSUME NEW n \in DOMAIN queue PROVE Apart(queue[n], p) /\ Apart(p, queue[n])
      <4>1. ASSUME NEW k \in DOMAIN queue[n].events, NEW l \in DOMAIN p.events,
                   IsVerify(queue[n].events[k]), IsVerify(p.events[l])
            PROVE  queue[n].events[k].data.id # p.events[l].data.id
        <5>1. queue[n].events[k].data.id[2] \in Nat /\ queue[n].events[k].data.id[2] < nonce
            BY <1>7, <4>1
        <5>2. p.events[l].data.id[2] = nonce BY <2>2, <4>1 DEF Brings, IsVerify
        <5> QED BY <1>1, <5>1, <5>2
      <4> QED BY <4>1 DEF Apart
    <3>6. ASSUME NEW n \in DOMAIN queue', NEW q, q = queue'[n] PROVE Comes(q)'
        BY <1>8, <3>3, <3>4, <3>6
    <3>7. ASSUME NEW n \in DOMAIN queue', NEW m \in DOMAIN queue', n # m
          PROVE  Apart(queue'[n], queue'[m])
        BY <1>3, <3>3, <3>5, <3>7 DEF ComingInv
    <3> QED BY <3>6, <3>7 DEF ComingInv
  <2> QED BY <1>2, <2>1, <2>2
<1>10. OwnInv' BY <1>2, <1>3 DEF OwnInv
<1> QED BY <1>6, <1>9, <1>10

\* A push does, if what it brings belongs to the mission and to the request.
LEMMA PushFirst ==
    ASSUME IInv, IInv', FirstInv, NEW c \in Clients, NEW op \in Op, NEW events, NEW then,
           PushEvents(c, op, events, then), UNCHANGED <<log, answered, restarts>>,
           ops[c].step # "store", nonce' \in {nonce, nonce + 1},
           restarts = 0 => /\ Own(op.kind, op.made) /\ Brings(events)
                           /\ op.kind = "verify" => \A k \in DOMAIN events :
                                 events[k].type = "report" => IsVerify(events[k])
    PROVE  FirstInv'
<1>1. ops \in [Clients -> {Idle} \cup Op] BY DEF IInv, TypeInv
<1>2. PICK made : made = op.made \cup {events[k] : k \in DOMAIN events} OBVIOUS
<1>3. PICK next : next = [op EXCEPT !.step = "store", !.made = made] OBVIOUS
<1>4. next.kind = op.kind /\ next.made = made /\ next.step = "store" BY <1>3 DEF Op
<1>5. ops' = [ops EXCEPT ![c] = next] BY <1>2, <1>3 DEF PushEvents
<1>6. ops'[c] = next /\ \A d \in Clients : d # c => ops'[d] = ops[d] BY <1>1, <1>5
<1>7. PICK p : p = [client |-> c, events |-> events, then |-> then] OBVIOUS
<1>8. queue' = Append(queue, p) BY <1>7 DEF PushEvents
<1>9. restarts = 0 => Brings(p.events) BY <1>7
<1>10. restarts = 0 => Own(next.kind, next.made) BY <1>2, <1>4 DEF Own
<1>11. restarts = 0 /\ ops'[c] # Idle =>
          /\ ops'[c].kind = "verify" /\ ops'[c].step = "run" => Exists(log)
          /\ Own(ops'[c].kind, ops'[c].made)
    BY <1>4, <1>6, <1>10
<1>12. \A a \in answered' \ answered : Own(a.kind, a.events) OBVIOUS
<1> QED BY <1>6, <1>8, <1>9, <1>11, <1>12, RequestFirst

\* What goes on with its events has its own ones.
LEMMA OwnOp ==
    ASSUME FirstInv, restarts = 0, NEW c \in Clients, ops[c] # Idle
    PROVE  Own(ops[c].kind, ops[c].made)
BY DEF FirstInv, OwnInv

\* The creation of a mission, the appends, and what ends or begins a run.
LEMMA BeginFirst ==
    ASSUME IInv, IInv', FirstInv, NEW c \in Clients,
           \/ \E team \in Teams : Create(c, team)
           \/ AppendOne(c)
           \/ \E agent \in Agents \cup {NoAgent} : VerifyBegin(c, agent)
           \/ \E item \in Items : MergeBegin(c, item)
           \/ CheckpointFails(c)
    PROVE  FirstInv'
<1>1. ASSUME NEW team \in Teams, Create(c, team) PROVE FirstInv'
  <2>1. PICK op \in Op : op = NewOp("create", NoAgent, NoItem) /\ op.kind = "create"
      BY NewOpLemma DEF Kinds
  <2>2. PICK events : events = CreateEvents(team) OBVIOUS
  <2>3. Brings(events) BY <2>2, CreateLemma DEF Brings
  <2>4. PushEvents(c, op, events, "answer") /\ UNCHANGED <<log, answered, nonce, restarts>>
      BY <1>1, <2>1, <2>2 DEF Create
  <2>5. ops[c].step # "store" BY <1>1, StartLemma DEF Create
  <2>6. Own(op.kind, op.made) BY <2>1 DEF Own
  <2> QED BY <2>1, <2>3, <2>4, <2>5, <2>6, PushFirst
<1>2. ASSUME NEW type, NEW data, type = "report" => data.by = "client", AppendEvent(c, type, data)
      PROVE  FirstInv'
  <2>1. PICK op \in Op : op = NewOp("append", NoAgent, NoItem) /\ op.kind = "append"
      BY NewOpLemma DEF Kinds
  <2>2. PICK events : events = <<Ev(type, NextSeq(log), data)>> OBVIOUS
  <2>3. \A k \in DOMAIN events : events[k].type = type /\ events[k].data = data /\ Len(events) = 1
      BY <2>2 DEF Ev
  <2>4. Brings(events) BY <1>2, <2>3 DEF Brings, AppendEvent, IsVerify
  <2>5. PushEvents(c, op, events, "answer") /\ UNCHANGED <<log, answered, nonce, restarts>>
      BY <1>2, <2>1, <2>2 DEF AppendEvent
  <2>6. ops[c].step # "store" BY <1>2, StartLemma DEF AppendEvent
  <2>7. Own(op.kind, op.made) BY <2>1 DEF Own
  <2> QED BY <2>1, <2>4, <2>5, <2>6, <2>7, PushFirst
<1>3. ASSUME NEW report \in ClientReports, AppendReport(c, report) PROVE FirstInv'
  <2>1. PICK data : data = Normalized(report) OBVIOUS
  <2>2. data.by = "client" BY <2>1 DEF Normalized
  <2> QED BY <1>2, <1>3, <2>1, <2>2 DEF AppendReport
<1>4. CASE AppendOne(c)
    BY <1>2, <1>3, <1>4 DEF AppendOne, AppendWorker, AppendArtifact, AppendQueued, AppendClosed
<1>5. ASSUME NEW op, ops' = [ops EXCEPT ![c] = op], ops[c].step # "store",
             op # Idle => op.made = {} /\ (op.kind = "verify" => Exists(log)),
             UNCHANGED <<log, queue, nonce, answered, restarts>>
      PROVE  FirstInv'
  <2>1. ops \in [Clients -> {Idle} \cup Op] BY DEF IInv, TypeInv
  <2>2. ops'[c] = op /\ \A d \in Clients : d # c => ops'[d] = ops[d] BY <1>5, <2>1
  <2>3. op # Idle => Own(op.kind, op.made) BY <1>5 DEF Own
  <2>4. \A a \in answered' \ answered : Own(a.kind, a.events) BY <1>5
  <2> QED BY <1>5, <2>2, <2>3, <2>4, RequestFirst
<1>6. ASSUME NEW agent \in Agents \cup {NoAgent}, VerifyBegin(c, agent) PROVE FirstInv'
  <2>1. PICK op : op = NewOp("verify", VerifierOf(log, agent), NoItem) OBVIOUS
  <2>2. op.made = {} BY <2>1 DEF NewOp
  <2>3. ops' = [ops EXCEPT ![c] = op] /\ UNCHANGED <<log, queue, nonce, answered, restarts>> /\ Exists(log)
      BY <1>6, <2>1 DEF VerifyBegin
  <2>4. ops[c].step # "store" BY <1>6, StartLemma DEF VerifyBegin
  <2> QED BY <1>5, <2>2, <2>3, <2>4
<1>7. ASSUME NEW item \in Items, MergeBegin(c, item) PROVE FirstInv'
  <2>1. PICK op : op = NewOp("merge", NoAgent, item) OBVIOUS
  <2>2. op.made = {} /\ op.kind = "merge" BY <2>1 DEF NewOp
  <2>3. ops' = [ops EXCEPT ![c] = op] /\ UNCHANGED <<log, queue, nonce, answered, restarts>>
      BY <1>7, <2>1 DEF MergeBegin
  <2>4. ops[c].step # "store" BY <1>7, StartLemma DEF MergeBegin
  <2> QED BY <1>5, <2>2, <2>3, <2>4
<1>8. CASE CheckpointFails(c)
  <2>1. PICK op : op = Idle OBVIOUS
  <2>2. /\ ops[c].step # "store" /\ ops' = [ops EXCEPT ![c] = op]
        /\ UNCHANGED <<log, queue, nonce, answered, restarts>>
      BY <1>8, <2>1 DEF CheckpointFails
  <2> QED BY <1>5, <2>1, <2>2
<1> QED BY <1>1, <1>4, <1>6, <1>7, <1>8

\* A request that goes on and pushes no report.
LEMMA NoReportFirst ==
    ASSUME IInv, IInv', FirstInv, NEW c \in Clients, ops[c] # Idle, ops[c].step # "store",
           NEW events, NEW then, PushEvents(c, ops[c], events, then),
           UNCHANGED <<log, nonce, answered, restarts>>,
           \A k \in DOMAIN events : events[k].type # "report"
    PROVE  FirstInv'
<1>1. PICK op \in Op : op = ops[c] BY OpTypes
<1>2. PushEvents(c, op, events, then) BY <1>1
<1>3. restarts = 0 => Own(op.kind, op.made) BY <1>1, OwnOp
<1>4. Brings(events) BY DEF Brings
<1> QED BY <1>2, <1>3, <1>4, PushFirst

\* What a verification runs into: its report has the nonce; no other push of it is
\* a report.
LEMMA VerifyFirst ==
    ASSUME IInv, IInv', FirstInv, NEW c \in Clients, Verify(c)
    PROVE  FirstInv'
<1>1. CASE \E agent \in Agents \cup {NoAgent} : VerifyBegin(c, agent) BY <1>1, BeginFirst
<1>2. ASSUME NEW status, NEW sig, VerifyRun(c, status, sig) PROVE FirstInv'
  <2>1. ops[c].step = "run" /\ ops[c].kind = "verify" /\ ops[c] # Idle BY <1>2 DEF VerifyRun, Idle
  <2>2. PICK op \in Op : op = ops[c] BY <2>1, OpTypes
  <2>3. PICK data : data = [id |-> <<"verify", nonce>>, status |-> status,
                            observed |-> status \in {"passed", "failed"}, sig |-> sig,
                            at |-> clock', by |-> "server"]
      OBVIOUS
  <2>4. PICK events, then, key : PushEvents(c, op, events, then) /\ events = <<Ev("report", key, data)>>
      BY <1>2, <2>2, <2>3 DEF VerifyRun
  <2>5. \A k \in DOMAIN events :
            events[k].type = "report" /\ events[k].data = data /\ Len(events) = 1
      BY <2>4 DEF Ev
  <2>6. UNCHANGED <<log, answered, restarts>> /\ nonce' = nonce + 1 BY <1>2 DEF VerifyRun, NextNonce
  <2>7. OpInv(c) BY DEF IInv
  <2>8. op.made = {} BY <2>1, <2>2, <2>7 DEF OpInv
  <2>9. ASSUME restarts = 0
        PROVE  /\ Own(op.kind, op.made) /\ Brings(events)
               /\ \A k \in DOMAIN events : events[k].type = "report" => IsVerify(events[k])
    <3>1. Exists(log) BY <2>1, <2>9 DEF FirstInv, OwnInv
    <3>2. data.by = "server" /\ data.id[2] = nonce BY <2>3
    <3> QED BY <2>5, <2>6, <2>8, <3>1, <3>2 DEF Own, Brings, IsVerify
  <2>10. ops[c].step # "store" BY <2>1
  <2> QED BY <2>4, <2>6, <2>9, <2>10, PushFirst
<1>3. CASE React(c)
  <2>1. ops[c].step = "react" /\ ops[c] # Idle BY <1>3 DEF React, Idle
  <2>2. PICK events, then, key, data :
            PushEvents(c, ops[c], events, then) /\ events = <<Ev("card", key, data)>>
      BY <1>3 DEF React
  <2>3. \A k \in DOMAIN events : events[k].type # "report" BY <2>2 DEF Ev
  <2>4. UNCHANGED <<log, nonce, answered, restarts>> BY <1>3 DEF React
  <2> QED BY <2>1, <2>2, <2>3, <2>4, NoReportFirst
<1>4. CASE Correct(c)
  <2>1. ops[c].step = "correct" /\ ops[c] # Idle BY <1>4 DEF Correct, Idle
  <2>2. PICK events, then, key, data :
            PushEvents(c, ops[c], events, then) /\ events = <<Ev("correction", key, data)>>
      BY <1>4 DEF Correct
  <2>3. \A k \in DOMAIN events : events[k].type # "report" BY <2>2 DEF Ev
  <2>4. UNCHANGED <<log, nonce, answered, restarts>> BY <1>4 DEF Correct
  <2> QED BY <2>1, <2>2, <2>3, <2>4, NoReportFirst
<1> QED BY <1>1, <1>2, <1>3, <1>4 DEF Verify

\* The steps of a merge push no report.
LEMMA MergeFirst ==
    ASSUME IInv, IInv', FirstInv, NEW c \in Clients, Merge(c)
    PROVE  FirstInv'
<1>1. ASSUME NEW item \in Items, MergeBegin(c, item) PROVE FirstInv' BY <1>1, BeginFirst
<1>2. ASSUME NEW result \in GitResults, MergeRun(c, result) PROVE FirstInv'
  <2>1. ops[c].step = "run" /\ ops[c] # Idle BY <1>2 DEF MergeRun, Idle
  <2>2. PICK events, then :
            /\ PushEvents(c, ops[c], events, then)
            /\ \A k \in DOMAIN events : events[k].type \in {"queued", "closed"}
      BY <1>2, MergePush
  <2>3. UNCHANGED <<log, nonce, answered, restarts>> BY <1>2 DEF MergeRun
  <2> QED BY <2>1, <2>2, <2>3, NoReportFirst
<1>3. CASE Skills(c)
  <2>1. ops[c].step = "skills" /\ ops[c] # Idle BY <1>3 DEF Skills, Idle
  <2>2. UNCHANGED <<log, nonce, restarts>> BY <1>3 DEF Skills
  <2>3. CASE SkillKeys(log) = << >>
    <3>1. /\ answered' = answered \cup
                 {[epoch |-> restarts, kind |-> ops[c].kind, events |-> ops[c].made]}
          /\ ops' = [ops EXCEPT ![c] = Idle] /\ UNCHANGED queue
        BY <1>3, <2>3 DEF Skills, Answer
    <3>2. ops \in [Clients -> {Idle} \cup Op] BY DEF IInv, TypeInv
    <3>3. ops'[c] = Idle /\ \A d \in Clients : d # c => ops'[d] = ops[d] BY <3>1, <3>2
    <3>4. restarts = 0 => \A a \in answered' \ answered : Own(a.kind, a.events) BY <2>1, <3>1, OwnOp
    <3> QED BY <2>1, <2>2, <3>1, <3>3, <3>4, RequestFirst
  <2>4. CASE SkillKeys(log) # << >>
    <3>1. PICK keys : keys = SkillKeys(log) OBVIOUS
    <3>2. PICK events : events = [i \in DOMAIN keys |-> Ev("skill", keys[i], [id |-> keys[i]])] OBVIOUS
    <3>3. PushEvents(c, ops[c], events, "answer") /\ UNCHANGED answered
        BY <1>3, <2>4, <3>1, <3>2 DEF Skills
    <3>4. \A k \in DOMAIN events : events[k].type # "report" BY <3>2 DEF Ev
    <3> QED BY <2>1, <2>2, <3>3, <3>4, NoReportFirst
  <2> QED BY <2>3, <2>4
<1> QED BY <1>1, <1>2, <1>3 DEF Merge

\* The storage puts a verify after the creation of its mission, under an id that no
\* other one has, there or still to come.
LEMMA StoreFirst == ASSUME IInv, IInv', FirstInv, Store PROVE FirstInv'
<1>1. TypeInv /\ LogInv /\ QueueInv /\ TypeInv' BY DEF IInv
<1>2. UNCHANGED <<nonce, restarts>> BY DEF Store
<1>3. SUFFICES ASSUME restarts = 0 PROVE NumberInv' /\ ComingInv' /\ OwnInv' BY <1>2 DEF FirstInv
<1>4. NumberInv /\ ComingInv /\ OwnInv BY <1>3 DEF FirstInv
<1>5. PICK p \in Pushed : p = Head(queue) /\ p = queue[1] /\ 1 \in DOMAIN queue
    BY <1>1, TailLemma DEF TypeInv, Store
<1>6. \A n \in DOMAIN queue' : n + 1 \in DOMAIN queue /\ n \in Nat \ {0} /\ queue'[n] = queue[n + 1]
    BY <1>1, TailLemma DEF TypeInv, Store
<1>7. PICK c \in Clients : c = p.client BY DEF Pushed
<1>8. p.events \in Seq(Event) /\ Distinct(p.events) /\ Comes(p)
    BY <1>1, <1>4, <1>5 DEF Pushed, QueueInv, ComingInv
<1>9. log' = log \o Fresh(p.events) BY <1>5 DEF Store
<1>10. /\ log \in Seq(Entry) /\ log' \in Seq(Entry) /\ Prefix(log, log')
       /\ \A i \in DOMAIN log : i \in DOMAIN log' /\ log'[i] = log[i]
       /\ \A i \in DOMAIN log' :
             \/ i \in DOMAIN log
             \/ log'[i] = Gap
             \/ \E k \in DOMAIN p.events : log'[i] = p.events[k]
    BY <1>1, <1>8, <1>9, StoredLemma DEF TypeInv
<1>11. /\ DOMAIN log = 1..Len(log) /\ Len(log) \in Nat
       /\ DOMAIN log' = 1..Len(log') /\ Len(log') \in Nat
    BY <1>10, LenProperties
<1>12. Exists(log) => Exists(log') BY <1>10, PrefixLemma
\* A report that has come was alone, and had no id that there was.
<1>13. ASSUME NEW i \in DOMAIN log', i \notin DOMAIN log, log'[i].type = "report"
       PROVE  /\ i \in At(log', "report") /\ i = Len(log) + 1
              /\ \E k \in DOMAIN p.events : log'[i] = p.events[k]
              /\ IsVerify(log'[i]) =>
                    /\ log'[i].data.id[2] < nonce
                    /\ \A j \in DOMAIN log : IsVerify(log[j]) => log[j].data.id # log'[i].data.id
  <2>1. log'[i] # Gap BY <1>13, EntryLemma
  <2>2. PICK k \in DOMAIN p.events : log'[i] = p.events[k] BY <1>10, <1>13, <2>1
  <2>3. /\ Exists(log) /\ Len(p.events) = 1
        /\ IsVerify(log'[i]) =>
              /\ log'[i].data.id[2] < nonce
              /\ \A j \in DOMAIN log : IsVerify(log[j]) => log[j].data.id # log'[i].data.id
      BY <1>8, <1>13, <2>2 DEF Comes
  <2>4. PICK j \in DOMAIN log : log[j].type = "created" BY <2>3 DEF Exists
  <2>5. j \in 1..(i - 1) /\ log'[j].type = "created" BY <1>10, <1>11, <1>13, <2>4
  <2>6. i \in At(log', "report") BY <1>13, <2>5 DEF At
  <2>7. i = Len(log) + 1 BY <1>1, <1>8, <1>9, <1>13, <2>3, OneStored
  <2> QED BY <2>2, <2>3, <2>6, <2>7
<1>14. NumberInv'
  <2>1. ASSUME NEW i \in DOMAIN log', log'[i].type = "report" PROVE i \in At(log', "report")
    <3>1. CASE i \in DOMAIN log
      <4>1. log'[i] = log[i] /\ i \in At(log, "report") BY <1>4, <1>10, <2>1, <3>1 DEF NumberInv
      <4>2. PICK j \in 1..(i - 1) : log[j].type = "created" BY <4>1 DEF At
      <4>3. log'[j].type = "created" BY <1>10, <1>11, <3>1, <4>2
      <4> QED BY <2>1, <4>2, <4>3 DEF At
    <3> QED BY <1>13, <2>1, <3>1
  <2>2. ASSUME NEW i \in DOMAIN log', IsVerify(log'[i]) PROVE log'[i].data.id[2] < nonce
    <3>1. CASE i \in DOMAIN log BY <1>4, <1>10, <2>2, <3>1 DEF NumberInv
    <3>2. CASE i \notin DOMAIN log BY <1>13, <2>2, <3>2 DEF IsVerify
    <3> QED BY <3>1, <3>2
  <2>3. ASSUME NEW i \in DOMAIN log', NEW j \in DOMAIN log', IsVerify(log'[i]), IsVerify(log'[j]),
               log'[i].data.id = log'[j].data.id
        PROVE  i = j
    <3>1. log'[i].type = "report" /\ log'[j].type = "report" BY <2>3 DEF IsVerify
    <3>2. CASE i \in DOMAIN log /\ j \in DOMAIN log BY <1>4, <1>10, <2>3, <3>2 DEF NumberInv
    <3>3. CASE i \in DOMAIN log /\ j \notin DOMAIN log BY <1>10, <1>13, <2>3, <3>1, <3>3
    <3>4. CASE i \notin DOMAIN log /\ j \in DOMAIN log BY <1>10, <1>13, <2>3, <3>1, <3>4
    <3>5. CASE i \notin DOMAIN log /\ j \notin DOMAIN log BY <1>13, <3>1, <3>5
    <3> QED BY <3>2, <3>3, <3>4, <3>5
  <2>4. \A i \in DOMAIN log' : IsVerify(log'[i]) => log'[i].data.id[2] < nonce' BY <1>2, <2>2
  <2> QED BY <2>1, <2>3, <2>4 DEF NumberInv
<1>15. ASSUME NEW n \in DOMAIN queue' PROVE n + 1 \in DOMAIN queue /\ n + 1 # 1 /\ queue'[n] = queue[n + 1]
    BY <1>6
<1>16. ComingInv'
  <2>1. ASSUME NEW n \in DOMAIN queue', NEW q, q = queue'[n] PROVE Comes(q)'
    <3>1. Comes(q) /\ Apart(p, q) BY <1>4, <1>5, <1>15, <2>1 DEF ComingInv
    <3>2. ASSUME NEW k \in DOMAIN q.events, IsVerify(q.events[k]),
                 NEW i \in DOMAIN log', IsVerify(log'[i])
          PROVE  log'[i].data.id # q.events[k].data.id
      <4>1. log'[i].type = "report" /\ q.events[k].type = "report" BY <3>2 DEF IsVerify
      <4>2. CASE i \in DOMAIN log BY <1>10, <3>1, <3>2, <4>1, <4>2 DEF Comes
      <4>3. CASE i \notin DOMAIN log BY <1>13, <3>1, <3>2, <4>1, <4>3 DEF Apart
      <4> QED BY <4>2, <4>3
    <3> QED BY <1>2, <1>12, <3>1, <3>2 DEF Comes
  <2>2. ASSUME NEW n \in DOMAIN queue', NEW m \in DOMAIN queue', n # m PROVE Apart(queue'[n], queue'[m])
    <3>1. n + 1 # m + 1 BY <1>6, <2>2
    <3> QED BY <1>4, <1>15, <3>1 DEF ComingInv
  <2> QED BY <2>1, <2>2 DEF ComingInv
<1>17. ops[c] # Idle /\ ops[c] \in Op /\ p.then # "run"
    BY <1>1, <1>5, <1>7, OpTypes DEF QueueInv, Idle, Pushed, Thens
<1>18. /\ \A d \in Clients : d # c => ops'[d] = ops[d]
       /\ ops'[c] = Idle \/ ops'[c] = [ops[c] EXCEPT !.step = p.then]
       /\ \/ answered' = answered
          \/ answered' = answered \cup
                {[epoch |-> restarts, kind |-> ops[c].kind, events |-> ops[c].made]}
    BY <1>1, <1>5, <1>7 DEF TypeInv, Store, Answer
<1>19. ASSUME NEW d \in Clients, ops'[d] # Idle
       PROVE  /\ ops'[d].kind = "verify" /\ ops'[d].step = "run" => Exists(log')
              /\ Own(ops'[d].kind, ops'[d].made)
  <2>1. CASE d # c BY <1>4, <1>12, <1>18, <1>19, <2>1 DEF OwnInv
  <2>2. CASE d = c
    <3>1. ops'[c].kind = ops[c].kind /\ ops'[c].made = ops[c].made /\ ops'[c].step # "run"
        BY <1>17, <1>18, <1>19, <2>2 DEF Op
    <3> QED BY <1>4, <1>17, <2>2, <3>1 DEF OwnInv
  <2> QED BY <2>1, <2>2
<1>20. \A a \in answered' : Own(a.kind, a.events) BY <1>4, <1>17, <1>18 DEF OwnInv
<1>21. OwnInv' BY <1>19, <1>20 DEF OwnInv
<1> QED BY <1>14, <1>16, <1>21

\* At the start there is no report.
LEMMA InitFirst == Init => FirstInv
<1> SUFFICES ASSUME Init PROVE FirstInv OBVIOUS
<1>1. queue = << >> /\ answered = {} /\ \A c \in Clients : ops[c] = Idle BY DEF Init
<1>2. \A i \in DOMAIN log : log[i].type # "report"
  <2>1. CASE log = << >> BY <2>1
  <2>2. CASE \E team \in Teams : log = CreateEvents(team) BY <2>2, CreateLemma
  <2> QED BY <2>1, <2>2 DEF Init
<1>3. NumberInv BY <1>2 DEF NumberInv, IsVerify
<1>4. ComingInv /\ OwnInv BY <1>1 DEF ComingInv, OwnInv
<1> QED BY <1>3, <1>4 DEF FirstInv

\* Every step of the first process keeps its reports apart; after it nothing is said.
LEMMA NextFirst == IInv /\ FirstInv /\ [Next]_vars => FirstInv'
<1> SUFFICES ASSUME IInv, FirstInv, [Next]_vars PROVE FirstInv' OBVIOUS
<1>1. IInv' BY NextLemma
<1>2. ASSUME NEW c \in Clients,
             (\E team \in Teams : Create(c, team)) \/ AppendOne(c) \/ CheckpointFails(c)
      PROVE  FirstInv'
    BY <1>1, <1>2, BeginFirst
<1>3. ASSUME NEW c \in Clients, Verify(c) PROVE FirstInv' BY <1>1, <1>3, VerifyFirst
<1>4. ASSUME NEW c \in Clients, Merge(c) PROVE FirstInv' BY <1>1, <1>4, MergeFirst
<1>5. CASE Store BY <1>1, <1>5, StoreFirst
<1>6. CASE Crash
  <2>1. restarts' = restarts + 1 BY <1>6 DEF Crash
  <2>2. restarts \in 0..MaxRestarts /\ MaxRestarts \in Nat BY BoundsAssumption DEF IInv, TypeInv
  <2> QED BY <2>1, <2>2 DEF FirstInv
<1>7. CASE UNCHANGED vars
    BY <1>7 DEF vars, FirstInv, NumberInv, ComingInv, OwnInv, Comes
<1> QED BY <1>2, <1>3, <1>4, <1>5, <1>6, <1>7 DEF Next

\* The nonce of missionStore.ts:71 keeps the verifies of one process apart: until
\* the first restart, a verify that was answered is visible in the mission, unless
\* a client has recorded a report of its own under the id that the verify got.
VerifyIsShown ==
    restarts = 0 =>
        \A a \in answered : a.kind = "verify" => \A e \in a.events : e.type = "report" =>
            \/ e.data \in Reports(log)
            \/ \E i \in DOMAIN log : /\ log[i].type = "report" /\ log[i].data.by = "client"
                                    /\ log[i].data.id = e.data.id

\* A verify that was answered is visible, until the nonce begins anew, or a report
\* of a client hides it.
THEOREM VerifiesAreShown == Spec => []VerifyIsShown
<1>1. Init => IInv /\ FirstInv BY InitLemma, InitFirst
<1>2. IInv /\ FirstInv /\ [Next]_vars => (IInv /\ FirstInv)' BY NextLemma, NextFirst
<1>3. IInv /\ FirstInv => VerifyIsShown
  <2> SUFFICES ASSUME IInv, FirstInv, restarts = 0, NEW a \in answered, a.kind = "verify",
                      NEW e \in a.events, e.type = "report",
                      ~ \E i \in DOMAIN log : /\ log[i].type = "report" /\ log[i].data.by = "client"
                                             /\ log[i].data.id = e.data.id
               PROVE  e.data \in Reports(log)
      BY DEF VerifyIsShown
  <2>1. NumberInv /\ OwnInv /\ AnswerInv BY DEF FirstInv, IInv
  <2>2. PICK i \in DOMAIN log : log[i] = e BY <2>1 DEF AnswerInv, Kept
  <2>3. IsVerify(e) BY <2>1 DEF OwnInv, Own
  <2>4. i \in At(log, "report") BY <2>1, <2>2 DEF NumberInv
  <2>5. ASSUME NEW j \in At(log, "report"), log[j].data.id = log[i].data.id PROVE i <= j
    <3>1. j \in DOMAIN log /\ log[j].type = "report" BY DEF At
    <3>2. log[j] \in Event BY <3>1, SequenceTypes, EntryLemma DEF IInv
    <3>3. log[j].data.by \in Makers BY <3>1, <3>2, EventLemma DEF Report
    <3>4. IsVerify(log[j]) BY <2>2, <2>5, <3>1, <3>3 DEF IsVerify, Makers
    <3>5. i = j BY <2>1, <2>2, <2>3, <2>5, <3>1, <3>4 DEF NumberInv
    <3>6. i \in Nat BY <2>2, SequenceTypes DEF IInv
    <3> QED BY <3>5, <3>6
  <2>6. i \in Firsts(log, "report") BY <2>4, <2>5 DEF Firsts
  <2> QED BY <2>2, <2>6 DEF Reports
<1> QED BY <1>1, <1>2, <1>3, PTL DEF Spec
=============================================================================

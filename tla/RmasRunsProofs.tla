--------------------------- MODULE RmasRunsProofs ---------------------------
(***************************************************************************)
(* Proofs about RmasRuns for any number of runs, places, iterations,       *)
(* tokens, faults and restarts.                                            *)
(***************************************************************************)
EXTENDS RmasRuns, SequenceLemmas, FiniteSetTheorems, SequenceTheorems, TLAPS

-----------------------------------------------------------------------------
(* What a log says about a run, without its order. *)

Logged == [run : Runs, type : LoggedTypes, saved : BOOLEAN]
Has(l, r, types) == \E i \in DOMAIN l : l[i].run = r /\ l[i].type \in types
HasSaved(l, r, types) == \E i \in DOMAIN l : l[i].run = r /\ l[i].type \in types /\ l[i].saved

\* A run is not created or started after it has ended.
Ordered(l) ==
    \A i, j \in DOMAIN l :
        i < j /\ l[i].run = l[j].run /\ l[i].type \in Endings => l[j].type \notin {"created", "started"}

\* A run is completed after a saved verdict that accepts.
Judged(l) ==
    \A i \in DOMAIN l : l[i].type = "completed" =>
        \E j \in 1..(i - 1) : l[j].run = l[i].run /\ l[j].type = "accept" /\ l[j].saved

\* One more event.
LEMMA HasLemma ==
    ASSUME NEW l \in Seq(Logged), NEW e \in Logged
    PROVE  \A r, T : /\ Has(Append(l, e), r, T) <=> Has(l, r, T) \/ (e.run = r /\ e.type \in T)
                     /\ HasSaved(Append(l, e), r, T) <=>
                            HasSaved(l, r, T) \/ (e.run = r /\ e.type \in T /\ e.saved)
<1> DEFINE m == Append(l, e)
<1>1. /\ DOMAIN l = 1..Len(l) /\ Len(l) \in Nat /\ DOMAIN m = 1..(Len(l) + 1)
      /\ \A i \in DOMAIN l : i \in DOMAIN m /\ m[i] = l[i]
      /\ m[Len(l) + 1] = e
    BY AppendLemma
<1> HIDE DEF m
<1>2. \A i \in DOMAIN m : i \in DOMAIN l \/ i = Len(l) + 1 BY <1>1
<1>3. Len(l) + 1 \in DOMAIN m BY <1>1
<1>4. ASSUME NEW r, NEW T
      PROVE  /\ Has(m, r, T) <=> Has(l, r, T) \/ (e.run = r /\ e.type \in T)
             /\ HasSaved(m, r, T) <=> HasSaved(l, r, T) \/ (e.run = r /\ e.type \in T /\ e.saved)
    BY <1>1, <1>2, <1>3 DEF Has, HasSaved
<1> QED BY <1>4 DEF m

\* An event keeps the order if it does not come after an ending, and the
\* verdicts if it is judged.
LEMMA OrderLemma ==
    ASSUME NEW l \in Seq(Logged), NEW e \in Logged, Ordered(l), Judged(l),
           e.type \in {"created", "started"} => ~Has(l, e.run, Endings),
           e.type = "completed" => HasSaved(l, e.run, {"accept"})
    PROVE  Ordered(Append(l, e)) /\ Judged(Append(l, e))
<1> DEFINE m == Append(l, e)
<1>1. /\ DOMAIN l = 1..Len(l) /\ Len(l) \in Nat /\ DOMAIN m = 1..(Len(l) + 1)
      /\ \A i \in DOMAIN l : i \in DOMAIN m /\ m[i] = l[i]
      /\ m[Len(l) + 1] = e
    BY AppendLemma
<1> HIDE DEF m
<1>2. Ordered(m) BY <1>1 DEF Ordered, Has
<1>3. ASSUME NEW i \in DOMAIN m, m[i].type = "completed"
      PROVE  \E j \in 1..(i - 1) : m[j].run = m[i].run /\ m[j].type = "accept" /\ m[j].saved
  <2>1. CASE i \in DOMAIN l
    <3>1. PICK j \in 1..(i - 1) : l[j].run = l[i].run /\ l[j].type = "accept" /\ l[j].saved
        BY <1>1, <1>3, <2>1 DEF Judged
    <3>2. j \in DOMAIN l BY <1>1, <2>1
    <3> QED BY <1>1, <2>1, <3>1, <3>2
  <2>2. CASE i = Len(l) + 1
    <3>1. PICK j \in DOMAIN l : l[j].run = e.run /\ l[j].type \in {"accept"} /\ l[j].saved
        BY <1>1, <1>3, <2>2 DEF HasSaved
    <3>2. j \in 1..(i - 1) BY <1>1, <2>2
    <3> QED BY <1>1, <2>2, <3>1, <3>2
  <2> QED BY <1>1, <2>1, <2>2
<1> QED BY <1>2, <1>3 DEF Judged, m

\* In an ordered log a run that was created and has ended is terminal.
LEMMA TerminalLemma ==
    ASSUME NEW l \in Seq(Logged), Ordered(l), NEW r
    PROVE  Terminal(l, r) <=> Has(l, r, {"created"}) /\ Has(l, r, Endings)
<1>1. DOMAIN l = 1..Len(l) /\ Len(l) \in Nat BY LenProperties
<1> DEFINE S == StatusEvents(l, r)
<1>2. S \subseteq 0..Len(l) BY <1>1 DEF StatusEvents
<1>3. ASSUME Has(l, r, Endings) PROVE LastIs(l, r, Endings)
  <2>1. PICK k \in DOMAIN l : l[k].run = r /\ l[k].type \in Endings BY <1>3 DEF Has
  <2>2. k \in S BY <2>1 DEF StatusEvents
  <2>3. PICK i \in S : \A j \in S : j <= i BY <1>1, <1>2, <2>2, GreatestLemma
  <2>4. i \in DOMAIN l /\ l[i].run = r /\ l[i].type \in {"created", "started"} \cup Endings
      BY DEF StatusEvents
  <2>5. k = i \/ k < i BY <1>2, <2>2, <2>3
  <2>6. l[i].type \in Endings BY <2>1, <2>4, <2>5 DEF Ordered
  <2> QED BY <2>3, <2>6 DEF LastIs
<1>4. LastIs(l, r, Endings) => Has(l, r, Endings) BY DEF LastIs, Has, StatusEvents
<1>5. Exists(l, r) <=> Has(l, r, {"created"}) BY DEF Exists, Has
<1> QED BY <1>3, <1>4, <1>5 DEF Terminal

-----------------------------------------------------------------------------
(* The inductive invariant. *)

Pushed == [run : Runs, type : EventTypes, by : {"post", "loop", "catch", "boot"},
           next : {"starting", "guard", "accepted", "end", ""}]

\* A push of a loop: the start of a run that has not ended, a verdict, or an
\* ending; completed only with a saved verdict.  The catch block has no text
\* that the storage could refuse.
LoopItem(p) ==
    /\ pc[p.run] = "wait"
    /\ \/ /\ p.type = "started" /\ p.next = "guard"
          /\ iteration[p.run] = 0 /\ ~Has(log, p.run, Endings)
       \/ p.type = "accept" /\ p.next = "accepted"
       \/ p.type \in Endings /\ p.next = "end"
    /\ p.by = "catch" => p.type \in {"stopped", "interrupted"}
    /\ p.type = "completed" => HasSaved(log, p.run, {"accept"})

\* Whoever pushes waits for its push.
Item(p) ==
    /\ p.by = "post" => p.type = "created" /\ p.next = "starting" /\ post[p.run] = "creating"
    /\ p.by \in {"loop", "catch"} => LoopItem(p)
    /\ p.by = "boot" => p.type = "interrupted" /\ p.run \in boot

\* A run has one push in the queue at a time, and so has the boot.
QueueInv ==
    /\ \A i \in DOMAIN queue : Item(queue[i])
    /\ \A i, j \in DOMAIN queue :
          queue[i].run = queue[j].run \/ (queue[i].by = "boot" /\ queue[j].by = "boot") => i = j

\* A run with a saved ending is left alone.
LeftAlone(r) ==
    /\ pc[r] \in {"end", "off"} /\ r \notin boot
    /\ post[r] \notin {"none", "creating", "starting"}
    /\ \A i \in DOMAIN queue : queue[i].run # r

\* How the request, the loop, the handle and the events of a run go together.
RunInv(r) ==
    /\ pc[r] # "off" <=> r \in handles
    /\ r \in handles => post[r] = "accepted" /\ r \notin boot
    /\ r \in boot => post[r] \notin {"none", "creating", "starting"}
    /\ post[r] \in {"none", "creating"} => ~Has(log, r, EventTypes)
    /\ post[r] = "starting" => ~Has(log, r, Endings)
    /\ post[r] \in {"starting", "accepted"} => HasSaved(log, r, {"created"})
    /\ pc[r] = "begin" => ~Has(log, r, Endings)
    /\ pc[r] \in {"off", "begin"} => iteration[r] = 0
    /\ pc[r] = "guard" => iteration[r] < MaxIterations
    /\ pc[r] = "accepted" => HasSaved(log, r, {"accept"})
    /\ pc[r] = "end" => Has(log, r, Endings)
    /\ HasSaved(log, r, Endings) => LeftAlone(r)
    /\ post[r] = "accepted" =>
          r \in handles \/ Has(log, r, Endings) \/ r \in boot \/ bootFailed

LogInv == Ordered(log) /\ Judged(log)
Places == IsFiniteSet(handles) /\ Cardinality(handles) <= MaxConcurrent

IInv ==
    /\ TypeOK /\ QueueInv /\ LogInv /\ Places
    /\ \A r \in Runs : RunInv(r)

\* The queue and the log are sequences of their kinds of records.
LEMMA SequenceTypes ==
    ASSUME TypeOK
    PROVE  /\ queue \in Seq(Pushed) /\ log \in Seq(Logged)
           /\ \A i \in DOMAIN queue : queue[i] \in Pushed
           /\ \A i \in DOMAIN log : log[i] \in Logged
           /\ DOMAIN queue = 1..Len(queue) /\ Len(queue) \in Nat
           /\ DOMAIN log = 1..Len(log) /\ Len(log) \in Nat
<1>1. queue \in Seq(Pushed) /\ log \in Seq(Logged) BY DEF TypeOK, Pushed, Logged
<1>2. /\ DOMAIN queue = 1..Len(queue) /\ Len(queue) \in Nat
      /\ DOMAIN log = 1..Len(log) /\ Len(log) \in Nat
    BY <1>1, LenProperties
<1> QED BY <1>1, <1>2, ElementOfSeq

-----------------------------------------------------------------------------
(* Steps of a loop. *)

\* A run whose loop is between two pushes, or whose request is not being
\* served, has none in the queue.
LEMMA NoItem ==
    ASSUME IInv, NEW r \in Runs,
           \/ r \in handles /\ pc[r] # "wait"
           \/ r \notin handles /\ r \notin boot /\ post[r] # "creating"
    PROVE  \A i \in DOMAIN queue : queue[i].run # r
<1> SUFFICES ASSUME NEW i \in DOMAIN queue, queue[i].run = r PROVE FALSE OBVIOUS
<1>1. Item(queue[i]) /\ RunInv(r) BY DEF IInv, QueueInv
<1>2. queue[i] \in Pushed BY SequenceTypes DEF IInv
<1>3. CASE queue[i].by = "post" BY <1>1, <1>3 DEF Item, RunInv
<1>4. CASE queue[i].by \in {"loop", "catch"} BY <1>1, <1>4 DEF Item, LoopItem, RunInv
<1>5. CASE queue[i].by = "boot" BY <1>1, <1>5 DEF Item, RunInv
<1> QED BY <1>2, <1>3, <1>4, <1>5 DEF Pushed

\* One more push, of a run that has none in the queue.
LEMMA EmitQueue ==
    ASSUME IInv, NEW new \in Pushed, queue' = Append(queue, new),
           \A i \in DOMAIN queue : queue[i].run # new.run,
           new.by = "boot" => \A i \in DOMAIN queue : queue[i].by # "boot",
           \A p \in Pushed : p.run # new.run /\ Item(p) => Item(p)',
           Item(new)'
    PROVE  /\ QueueInv' /\ queue' \in Seq(Pushed)
           /\ \A q \in Runs : q # new.run /\ (\A i \in DOMAIN queue : queue[i].run # q)
                                       => \A i \in DOMAIN queue' : queue'[i].run # q
<1>1. queue \in Seq(Pushed) BY SequenceTypes DEF IInv
<1>a. new \in Pushed OBVIOUS
<1>2. queue' = Append(queue, new) OBVIOUS
<1>b. Longer(queue', queue, Pushed, new) BY ONLY <1>1, <1>a, <1>2, PushLemma
<1>4. /\ queue' \in Seq(Pushed)
      /\ \A i \in DOMAIN queue : i \in DOMAIN queue' /\ queue'[i] = queue[i]
      /\ \A i \in DOMAIN queue' : i \in DOMAIN queue \/ i = Len(queue) + 1
      /\ queue'[Len(queue) + 1] = new
    BY ONLY <1>b DEF Longer
<1>6. ASSUME NEW i \in DOMAIN queue' PROVE Item(queue[i])'
  <2>1. PICK p : p = queue'[i] OBVIOUS
  <2>2. Item(p)'
    <3>1. CASE i \in DOMAIN queue
      <4>1. p = queue[i] /\ p.run # new.run BY <1>4, <2>1, <3>1
      <4>2. p \in Pushed BY <3>1, <4>1, SequenceTypes DEF IInv
      <4>3. Item(p) BY <3>1, <4>1 DEF IInv, QueueInv
      <4> QED BY <4>1, <4>2, <4>3
    <3>2. CASE i = Len(queue) + 1
      <4>1. p = new BY <1>4, <2>1, <3>2
      <4> QED BY <4>1 DEF Item, LoopItem
    <3> QED BY <1>4, <3>1, <3>2
  <2> QED BY <2>1, <2>2 DEF Item, LoopItem
<1>7. ASSUME NEW i \in DOMAIN queue', NEW j \in DOMAIN queue',
             queue'[i].run = queue'[j].run \/ (queue'[i].by = "boot" /\ queue'[j].by = "boot")
      PROVE  i = j
    BY <1>4, <1>7 DEF IInv, QueueInv
<1>8. QueueInv' BY <1>6, <1>7 DEF QueueInv
<1>9. \A q \in Runs : q # new.run /\ (\A i \in DOMAIN queue : queue[i].run # q)
                               => \A i \in DOMAIN queue' : queue'[i].run # q
    BY <1>4
<1> QED BY <1>4, <1>8, <1>9

\* Where a loop is between two pushes, and goes on by itself.
Busy == {"begin", "guard", "work", "judge", "accepted", "rejected", "caught"}

\* A step of a loop that pushes nothing keeps the invariant.
LEMMA MoveStep ==
    ASSUME IInv, NEW r \in Runs, pc[r] \in Busy,
           NEW x \in {"guard", "work", "judge", "rejected", "caught"},
           pc' = [pc EXCEPT ![r] = x],
           UNCHANGED <<log, queue, post, handles, aborted, timers, bootVars>>,
           iteration' \in [Runs -> 0..MaxIterations], tokens' \in [Runs -> Nat],
           x = "guard" => iteration'[r] < MaxIterations,
           \A q \in Runs \ {r} : iteration'[q] = iteration[q]
    PROVE  IInv'
<1>1. TypeOK' BY DEF IInv, TypeOK, bootVars
<1>2. RunInv(r) /\ r \in handles /\ DOMAIN pc = Runs BY DEF IInv, RunInv, Busy, TypeOK
<1>3. \A i \in DOMAIN queue : queue[i].run # r BY <1>2, NoItem DEF Busy
<1>4. ASSUME NEW i \in DOMAIN queue PROVE Item(queue[i])'
  <2>1. queue[i].run \in Runs \ {r} BY <1>3, SequenceTypes DEF IInv, Pushed
  <2>2. Item(queue[i]) BY DEF IInv, QueueInv
  <2> QED BY <1>2, <2>1, <2>2 DEF Item, LoopItem, bootVars
<1>5. QueueInv' BY <1>4 DEF IInv, QueueInv
<1>6. LogInv' /\ Places' BY DEF IInv, LogInv, Places
<1>7. ASSUME NEW q \in Runs PROVE RunInv(q)'
  <2>1. CASE q = r BY <1>2, <2>1 DEF RunInv, LeftAlone, Busy, bootVars
  <2>2. CASE q # r
    <3>1. RunInv(q) /\ pc'[q] = pc[q] /\ iteration'[q] = iteration[q] BY <1>2, <2>2 DEF IInv
    <3> QED BY <3>1 DEF RunInv, LeftAlone, bootVars
  <2> QED BY <2>1, <2>2
<1> QED BY <1>1, <1>5, <1>6, <1>7 DEF IInv

\* A step of a loop that pushes an event keeps the invariant.
LEMMA EmitStep ==
    ASSUME IInv, NEW r \in Runs, pc[r] \in Busy, NEW type \in EventTypes,
           NEW next \in {"starting", "guard", "accepted", "end", ""},
           LoopEmit(r, type, next),
           UNCHANGED <<log, post, handles, aborted, timers, iteration, tokens, bootVars>>,
           \/ type = "started" /\ next = "guard" /\ pc[r] = "begin"
           \/ type = "accept" /\ next = "accepted"
           \/ type \in Endings /\ next = "end",
           pc[r] = "caught" => type \in {"stopped", "interrupted"},
           type = "completed" => pc[r] = "accepted"
    PROVE  IInv'
<1>0. PICK by \in {"loop", "catch"} : by = IF pc[r] = "caught" THEN "catch" ELSE "loop" OBVIOUS
<1>1. RunInv(r) /\ r \in handles /\ DOMAIN pc = Runs BY DEF IInv, RunInv, Busy, TypeOK
<1>2. \A i \in DOMAIN queue : queue[i].run # r BY <1>1, NoItem DEF Busy
<1>a. PICK new \in Pushed : new = [run |-> r, type |-> type, by |-> by, next |-> next]
    BY <1>0 DEF Pushed
<1>3. pc' = [pc EXCEPT ![r] = "wait"] /\ queue' = Append(queue, new)
    BY <1>0, <1>a DEF LoopEmit, Emit
<1>4. \A p \in Pushed : p.run # r /\ Item(p) => Item(p)'
    BY <1>1, <1>3 DEF Item, LoopItem, Pushed, bootVars
<1>5. Item(new)'
    BY <1>0, <1>a, <1>1, <1>3 DEF Item, LoopItem, RunInv, Endings
<1>6. new.run = r /\ new.by # "boot" BY <1>0, <1>a
<1>7. /\ QueueInv' /\ queue' \in Seq(Pushed)
      /\ \A q \in Runs : q # new.run /\ (\A i \in DOMAIN queue : queue[i].run # q)
                                  => \A i \in DOMAIN queue' : queue'[i].run # q
    BY ONLY IInv, <1>2, <1>3, <1>4, <1>5, <1>6, EmitQueue
<1>8. TypeOK' BY <1>3, <1>7 DEF IInv, TypeOK, Pushed, bootVars
<1>9. LogInv' /\ Places' BY DEF IInv, LogInv, Places
<1>10. ASSUME NEW q \in Runs PROVE RunInv(q)'
  <2>1. CASE q = r BY <1>1, <1>3, <2>1 DEF RunInv, LeftAlone, Busy, bootVars
  <2>2. CASE q # r
    <3>1. RunInv(q) /\ pc'[q] = pc[q] BY <1>1, <1>3, <2>2 DEF IInv
    <3> QED BY <1>6, <1>7, <2>2, <3>1 DEF RunInv, LeftAlone, bootVars
  <2> QED BY <2>1, <2>2
<1> QED BY <1>7, <1>8, <1>9, <1>10 DEF IInv

\* The end of a loop keeps the invariant.
LEMMA EndStep == ASSUME IInv, NEW r \in Runs, End(r) PROVE IInv'
<1>1. RunInv(r) /\ r \in handles /\ DOMAIN pc = Runs BY DEF IInv, RunInv, End, TypeOK
<1>2. \A i \in DOMAIN queue : queue[i].run # r BY <1>1, NoItem DEF End
<1>3. TypeOK'
  <2>1. TypeOK /\ 0 \in 0..MaxIterations BY LimitsAssumption DEF IInv
  <2>2. pc' \in [Runs -> {"off", "begin", "wait", "guard", "work", "judge", "accepted",
                         "rejected", "caught", "end"}]
      BY <2>1 DEF TypeOK, End
  <2>3. iteration' \in [Runs -> 0..MaxIterations] BY <2>1 DEF TypeOK, End
  <2>4. tokens' \in [Runs -> Nat] BY <2>1 DEF TypeOK, End
  <2>5. handles' \subseteq Runs /\ aborted' \subseteq handles' /\ timers' \subseteq handles'
      BY <2>1 DEF TypeOK, End
  <2> QED BY <2>1, <2>2, <2>3, <2>4, <2>5 DEF TypeOK, End, bootVars
<1>4. ASSUME NEW i \in DOMAIN queue PROVE Item(queue[i])'
  <2>1. queue[i].run \in Runs \ {r} BY <1>2, SequenceTypes DEF IInv, Pushed
  <2>2. Item(queue[i]) BY DEF IInv, QueueInv
  <2>3. /\ pc'[queue[i].run] = pc[queue[i].run]
        /\ iteration'[queue[i].run] = iteration[queue[i].run]
      BY <1>1, <2>1 DEF End, IInv, TypeOK
  <2> QED BY <2>1, <2>2, <2>3 DEF Item, LoopItem, End, bootVars
<1>5. QueueInv' BY <1>4 DEF IInv, QueueInv, End
<1>6. LogInv' BY DEF IInv, LogInv, End
<1>7. Places'
  <2>1. IsFiniteSet(handles) /\ Cardinality(handles) <= MaxConcurrent BY DEF IInv, Places
  <2>2. IsFiniteSet(handles') /\ Cardinality(handles') <= Cardinality(handles)
      BY <2>1, FS_Subset DEF End
  <2>3. Cardinality(handles') \in Nat /\ Cardinality(handles) \in Nat BY <2>1, <2>2, FS_CardinalityType
  <2> QED BY <2>1, <2>2, <2>3, LimitsAssumption DEF Places
<1>8. ASSUME NEW q \in Runs PROVE RunInv(q)'
  <2>1. CASE q = r BY <1>1, <1>2, <2>1 DEF RunInv, LeftAlone, End, IInv, TypeOK, bootVars
  <2>2. CASE q # r
    <3>1. RunInv(q) /\ pc'[q] = pc[q] /\ iteration'[q] = iteration[q] /\ (q \in handles' <=> q \in handles)
        BY <1>1, <2>2 DEF IInv, End, TypeOK
    <3> QED BY <3>1 DEF RunInv, LeftAlone, End, bootVars
  <2> QED BY <2>1, <2>2
<1> QED BY <1>3, <1>5, <1>6, <1>7, <1>8 DEF IInv

\* Every step of a loop keeps the invariant.
LEMMA LoopStepLemma == ASSUME IInv, NEW r \in Runs, LoopStep(r) PROVE IInv'
<1>1. RunInv(r) /\ TypeOK BY DEF IInv
<1>2. iteration \in [Runs -> 0..MaxIterations] /\ tokens \in [Runs -> Nat] BY <1>1 DEF TypeOK
<1>3. CASE Begin(r)
  <2>1. pc[r] \in Busy /\ LoopEmit(r, "started", "guard") /\ "started" \in EventTypes
      BY <1>3 DEF Begin, Busy, EventTypes
  <2> QED BY <1>3, <2>1, EmitStep DEF Begin
<1>4. CASE Guard(r)
  <2>1. pc[r] = "guard" /\ pc[r] \in Busy /\ iteration[r] < MaxIterations
      BY <1>1, <1>4 DEF Guard, Busy, RunInv
  <2>2. "stopped" \in EventTypes \cap Endings /\ "exhausted" \in EventTypes \cap Endings
      BY DEF EventTypes, Endings
  <2>3. CASE LoopEmit(r, "stopped", "end") /\ UNCHANGED iteration
    <3>1. UNCHANGED <<log, post, handles, aborted, timers, iteration, tokens, bootVars>>
        BY <1>4, <2>3 DEF Guard
    <3> QED BY <2>1, <2>2, <2>3, <3>1, EmitStep
  <2>4. CASE LoopEmit(r, "exhausted", "end") /\ UNCHANGED iteration
    <3>1. UNCHANGED <<log, post, handles, aborted, timers, iteration, tokens, bootVars>>
        BY <1>4, <2>4 DEF Guard
    <3> QED BY <2>1, <2>2, <2>4, <3>1, EmitStep
  <2>5. CASE /\ pc' = [pc EXCEPT ![r] = "work"] /\ UNCHANGED queue
             /\ iteration' = [iteration EXCEPT ![r] = @ + 1]
    <3>1. iteration' \in [Runs -> 0..MaxIterations]
        BY <1>2, <2>1, <2>5, LimitsAssumption
    <3>2. \A q \in Runs \ {r} : iteration'[q] = iteration[q] BY <1>2, <2>5
    <3>3. UNCHANGED <<log, queue, post, handles, aborted, timers, bootVars>> /\ tokens' \in [Runs -> Nat]
        BY <1>2, <1>4, <2>5 DEF Guard
    <3> QED BY <2>1, <2>5, <3>1, <3>2, <3>3, MoveStep
  <2> QED BY <1>4, <2>3, <2>4, <2>5 DEF Guard
<1>5. CASE Work(r)
  <2>1. tokens' \in [Runs -> Nat]
    <3>1. PICK used \in {0, 1} : tokens' = [tokens EXCEPT ![r] = @ + used] BY <1>5 DEF Work
    <3>2. tokens[r] + used \in Nat BY <1>2, <3>1
    <3> QED BY <1>2, <3>1, <3>2
  <2>2. /\ pc[r] \in Busy /\ pc' = [pc EXCEPT ![r] = "judge"]
        /\ UNCHANGED <<log, queue, post, handles, aborted, timers, bootVars>> /\ UNCHANGED iteration
      BY <1>5 DEF Work, Busy
  <2> QED BY <1>2, <2>1, <2>2, MoveStep
<1>6. CASE Judge(r)
  <2>1. pc[r] = "judge" /\ pc[r] \in Busy /\ "accept" \in EventTypes
      BY <1>6 DEF Judge, Busy, EventTypes
  <2>2. UNCHANGED <<log, post, handles, aborted, timers, iteration, tokens, bootVars>>
      BY <1>6 DEF Judge
  <2>3. CASE LoopEmit(r, "accept", "accepted") BY <2>1, <2>2, <2>3, EmitStep
  <2>4. CASE pc' = [pc EXCEPT ![r] = "rejected"] /\ UNCHANGED queue
      BY <1>2, <2>1, <2>2, <2>4, MoveStep
  <2> QED BY <1>6, <2>3, <2>4 DEF Judge
<1>7. CASE Accepted(r)
  <2>1. /\ pc[r] = "accepted" /\ pc[r] \in Busy /\ LoopEmit(r, "completed", "end")
        /\ "completed" \in EventTypes \cap Endings
      BY <1>7 DEF Accepted, Busy, EventTypes, Endings
  <2> QED BY <1>7, <2>1, EmitStep DEF Accepted
<1>8. CASE Rejected(r)
  <2>1. pc[r] = "rejected" /\ pc[r] \in Busy /\ "exhausted" \in EventTypes \cap Endings
      BY <1>8 DEF Rejected, Busy, EventTypes, Endings
  <2>2. UNCHANGED <<log, post, handles, aborted, timers, iteration, tokens, bootVars>>
      BY <1>8 DEF Rejected
  <2>3. CASE IsLastIteration(r)
    <3>1. LoopEmit(r, "exhausted", "end") BY <1>8, <2>3 DEF Rejected
    <3> QED BY <2>1, <2>2, <3>1, EmitStep
  <2>4. CASE ~IsLastIteration(r)
    <3>1. iteration[r] < MaxIterations BY <1>2, <2>4, LimitsAssumption DEF IsLastIteration
    <3>2. pc' = [pc EXCEPT ![r] = "guard"] /\ UNCHANGED queue BY <1>8, <2>4 DEF Rejected
    <3> QED BY <1>2, <2>1, <2>2, <3>1, <3>2, MoveStep
  <2> QED BY <2>3, <2>4
<1>9. CASE Throw(r)
  <2>1. /\ pc[r] \in Busy /\ pc' = [pc EXCEPT ![r] = "caught"] /\ UNCHANGED <<iteration, tokens>>
        /\ UNCHANGED <<log, queue, post, handles, aborted, timers, bootVars>>
      BY <1>9 DEF Throw, Busy
  <2> QED BY <1>2, <2>1, MoveStep
<1>10. CASE Caught(r)
  <2>1. PICK type \in {"stopped", "interrupted"} :
            type = IF r \in aborted THEN "stopped" ELSE "interrupted" OBVIOUS
  <2>2. /\ pc[r] = "caught" /\ pc[r] \in Busy /\ LoopEmit(r, type, "end")
        /\ type \in EventTypes /\ type \in Endings /\ type # "completed"
      BY <1>10, <2>1 DEF Caught, Busy, EventTypes, Endings
  <2> QED BY <1>10, <2>1, <2>2, EmitStep DEF Caught
<1>11. CASE End(r) BY <1>11, EndStep
<1> QED BY <1>3, <1>4, <1>5, <1>6, <1>7, <1>8, <1>9, <1>10, <1>11 DEF LoopStep

-----------------------------------------------------------------------------
(* The requests and the boot. *)

\* What has a kind of events has the larger kind.
LEMMA Kinds ==
    ASSUME NEW l, NEW r
    PROVE  /\ Has(l, r, Endings) => Has(l, r, EventTypes)
           /\ Has(l, r, {"created"}) => Has(l, r, EventTypes)
           /\ HasSaved(l, r, Endings) => Has(l, r, Endings)
           /\ HasSaved(l, r, {"created"}) => Has(l, r, {"created"})
BY DEF Has, HasSaved, EventTypes

\* A request keeps the invariant when it is taken up or refused.
LEMMA PostStep == ASSUME IInv, NEW r \in Runs, Post(r) PROVE IInv'
<1>1. RunInv(r) /\ post[r] = "none" /\ DOMAIN post = Runs BY DEF IInv, Post, TypeOK
<1>2. pc[r] = "off" /\ r \notin handles /\ r \notin boot BY <1>1 DEF RunInv
<1>3. \A i \in DOMAIN queue : queue[i].run # r BY <1>1, <1>2, NoItem
<1>4. UNCHANGED <<log, loopVars, bootVars>> BY DEF Post
<1>5. ~HasSaved(log, r, Endings) BY <1>1, Kinds DEF RunInv
<1>6. \A q \in Runs \ {r} : post'[q] = post[q] BY <1>1 DEF Post
<1>7. \A p \in Pushed : p.run # r /\ Item(p) => Item(p)'
    BY <1>4, <1>6 DEF Item, LoopItem, Pushed, loopVars, bootVars
<1>8. LogInv' /\ Places' BY <1>4 DEF IInv, LogInv, Places, loopVars
<1>9. CASE post' = [post EXCEPT ![r] = "refused"] /\ UNCHANGED queue
  <2>1. TypeOK' BY <1>4, <1>9 DEF IInv, TypeOK, loopVars, bootVars
  <2>2. ASSUME NEW i \in DOMAIN queue PROVE Item(queue[i])'
    <3>1. PICK p \in Pushed : p = queue[i] BY SequenceTypes DEF IInv
    <3>2. Item(p)' BY <1>3, <1>7, <3>1 DEF IInv, QueueInv
    <3> QED BY <1>9, <3>1, <3>2 DEF Item, LoopItem
  <2>3. QueueInv' BY <1>9, <2>2 DEF IInv, QueueInv
  <2>4. ASSUME NEW q \in Runs PROVE RunInv(q)'
    <3>1. CASE q = r BY <1>1, <1>2, <1>4, <1>5, <1>9, <3>1 DEF RunInv, LeftAlone, loopVars, bootVars
    <3>2. CASE q # r
      <4>1. RunInv(q) /\ post'[q] = post[q] BY <1>6, <3>2 DEF IInv
      <4> QED BY <1>4, <1>9, <4>1 DEF RunInv, LeftAlone, loopVars, bootVars
    <3> QED BY <3>1, <3>2
  <2> QED BY <1>8, <2>1, <2>3, <2>4 DEF IInv
<1>10. CASE post' = [post EXCEPT ![r] = "creating"] /\ Emit(r, "created", "post", "starting")
  <2>1. PICK new \in Pushed : new = [run |-> r, type |-> "created", by |-> "post", next |-> "starting"]
      BY DEF Pushed, EventTypes
  <2>2. queue' = Append(queue, new) BY <1>10, <2>1 DEF Emit
  <2>3. new.run = r /\ new.by # "boot" BY <2>1
  <2>4. Item(new)' BY <1>1, <1>10, <2>1 DEF Item
  <2>5. /\ QueueInv' /\ queue' \in Seq(Pushed)
        /\ \A q \in Runs : q # new.run /\ (\A i \in DOMAIN queue : queue[i].run # q)
                                    => \A i \in DOMAIN queue' : queue'[i].run # q
      BY ONLY IInv, <1>3, <1>7, <2>2, <2>3, <2>4, EmitQueue
  <2>6. TypeOK' BY <1>4, <1>10, <2>5 DEF IInv, TypeOK, Pushed, loopVars, bootVars
  <2>7. ASSUME NEW q \in Runs PROVE RunInv(q)'
    <3>1. CASE q = r BY <1>1, <1>2, <1>4, <1>5, <1>10, <3>1 DEF RunInv, LeftAlone, loopVars, bootVars
    <3>2. CASE q # r
      <4>1. RunInv(q) /\ post'[q] = post[q] BY <1>6, <3>2 DEF IInv
      <4> QED BY <1>4, <2>3, <2>5, <3>2, <4>1 DEF RunInv, LeftAlone, loopVars, bootVars
    <3> QED BY <3>1, <3>2
  <2> QED BY <1>8, <2>5, <2>6, <2>7 DEF IInv
<1> QED BY <1>9, <1>10 DEF Post

\* The start of a loop keeps the invariant: the place is counted in the step
\* that takes it.
LEMMA StartStep == ASSUME IInv, NEW r \in Runs, Start(r) PROVE IInv'
<1>1. RunInv(r) /\ post[r] = "starting" /\ DOMAIN post = Runs /\ DOMAIN pc = Runs
    BY DEF IInv, Start, TypeOK
<1>2. pc[r] = "off" /\ r \notin handles /\ r \notin boot BY <1>1 DEF RunInv
<1>3. \A i \in DOMAIN queue : queue[i].run # r BY <1>1, <1>2, NoItem
<1>4. UNCHANGED <<log, queue, aborted, iteration, tokens, bootVars>> BY DEF Start
<1>5. \A q \in Runs \ {r} : post'[q] = post[q] /\ pc'[q] = pc[q] /\ (q \in handles' <=> q \in handles)
    BY <1>1 DEF Start
<1>6. ASSUME NEW i \in DOMAIN queue PROVE Item(queue[i])'
  <2>1. queue[i].run \in Runs \ {r} BY <1>3, SequenceTypes DEF IInv, Pushed
  <2>2. Item(queue[i]) BY DEF IInv, QueueInv
  <2> QED BY <1>4, <1>5, <2>1, <2>2 DEF Item, LoopItem, bootVars
<1>7. QueueInv' BY <1>4, <1>6 DEF IInv, QueueInv
<1>8. LogInv' BY <1>4 DEF IInv, LogInv
<1>9. Places'
  <2>1. IsFiniteSet(handles) /\ Cardinality(handles) <= MaxConcurrent BY DEF IInv, Places
  <2>2. CASE UNCHANGED handles BY <2>1, <2>2 DEF Places
  <2>3. CASE HasCapacity /\ handles' = handles \cup {r}
    <3>1. Cardinality(handles) \in Nat /\ Cardinality(handles) < MaxConcurrent
        BY <2>1, <2>3, FS_CardinalityType DEF HasCapacity
    <3>2. IsFiniteSet(handles') /\ Cardinality(handles') = Cardinality(handles) + 1
        BY <1>2, <2>1, <2>3, FS_AddElement
    <3> QED BY <3>1, <3>2, LimitsAssumption DEF Places
  <2> QED BY <2>2, <2>3 DEF Start
<1>10. TypeOK'
  <2>1. TypeOK BY DEF IInv
  <2>2. handles' \subseteq Runs /\ aborted' \subseteq handles' /\ timers' \subseteq handles'
      BY <2>1 DEF Start, TypeOK
  <2>3. post' \in [Runs -> {"none", "creating", "starting", "accepted", "refused", "failed"}]
      BY <2>1 DEF Start, TypeOK
  <2>4. pc' \in [Runs -> {"off", "begin", "wait", "guard", "work", "judge", "accepted",
                          "rejected", "caught", "end"}]
      BY <2>1 DEF Start, TypeOK
  <2> QED BY <1>4, <2>1, <2>2, <2>3, <2>4 DEF TypeOK, bootVars
<1>11. ASSUME NEW q \in Runs PROVE RunInv(q)'
  <2>1. CASE q = r
    <3>1. ~Has(log, r, Endings) /\ ~HasSaved(log, r, Endings) /\ HasSaved(log, r, {"created"})
        BY <1>1, Kinds DEF RunInv
    <3>2. iteration'[r] = 0 BY <1>1, <1>2, <1>4 DEF RunInv
    <3>3. \/ post'[r] = "accepted" /\ r \in handles' /\ pc'[r] = "begin"
          \/ post'[r] = "refused" /\ r \notin handles' /\ pc'[r] = "off"
        BY <1>1, <1>2 DEF Start
    <3> QED BY <1>2, <1>4, <2>1, <3>1, <3>2, <3>3 DEF RunInv, bootVars
  <2>2. CASE q # r
    <3>1. RunInv(q) BY DEF IInv
    <3> QED BY <1>4, <1>5, <2>2, <3>1 DEF RunInv, LeftAlone, bootVars
  <2> QED BY <2>1, <2>2
<1> QED BY <1>7, <1>8, <1>9, <1>10, <1>11 DEF IInv

\* What only aborts a run keeps the invariant.
LEMMA AbortStep == ASSUME IInv, NEW r \in Runs, Stop(r) \/ Timer(r) PROVE IInv'
<1>1. UNCHANGED <<log, queue, post, handles, pc, iteration, tokens, bootVars>> BY DEF Stop, Timer
<1>2. TypeOK'
  <2>1. r \in handles BY DEF IInv, TypeOK, Stop, Timer
  <2>2. aborted' = aborted \cup {r} /\ timers' = timers \ {r} BY DEF Stop, Timer
  <2> QED BY <1>1, <2>1, <2>2 DEF IInv, TypeOK, bootVars
<1>3. QueueInv' BY <1>1 DEF IInv, QueueInv, Item, LoopItem, bootVars
<1>4. LogInv' /\ Places' BY <1>1 DEF IInv, LogInv, Places
<1>5. ASSUME NEW q \in Runs PROVE RunInv(q)'
  <2>1. RunInv(q) BY DEF IInv
  <2> QED BY <1>1, <2>1 DEF RunInv, LeftAlone, bootVars
<1> QED BY <1>2, <1>3, <1>4, <1>5 DEF IInv

\* The boot keeps the invariant when it pushes the ending of a run.
LEMMA ReconcileStep == ASSUME IInv, NEW r \in Runs, Reconcile(r) PROVE IInv'
<1>1. RunInv(r) /\ r \in boot /\ r \notin handles /\ pc[r] = "off" /\ post[r] # "creating"
    BY DEF IInv, RunInv, Reconcile, ToReconcile
<1>2. \A i \in DOMAIN queue : queue[i].by # "boot" BY DEF Reconcile
<1>3. ASSUME NEW i \in DOMAIN queue, queue[i].run = r PROVE FALSE
  <2>1. queue[i] \in Pushed /\ Item(queue[i]) BY SequenceTypes DEF IInv, QueueInv
  <2>2. queue[i].by \in {"post", "loop", "catch"} BY <1>2, <2>1 DEF Pushed
  <2> QED BY <1>1, <1>3, <2>1, <2>2 DEF Item, LoopItem
<1>4. UNCHANGED <<log, post, loopVars, bootVars>> BY DEF Reconcile
<1>5. PICK new \in Pushed : new = [run |-> r, type |-> "interrupted", by |-> "boot", next |-> ""]
    BY DEF Pushed, EventTypes, Endings
<1>6. queue' = Append(queue, new) BY <1>5 DEF Reconcile, Emit
<1>7. new.run = r BY <1>5
<1>8. \A p \in Pushed : p.run # r /\ Item(p) => Item(p)'
    BY <1>4 DEF Item, LoopItem, Pushed, loopVars, bootVars
<1>9. Item(new)' BY <1>1, <1>4, <1>5 DEF Item, bootVars
<1>10. /\ QueueInv' /\ queue' \in Seq(Pushed)
       /\ \A q \in Runs : q # new.run /\ (\A i \in DOMAIN queue : queue[i].run # q)
                                   => \A i \in DOMAIN queue' : queue'[i].run # q
    BY ONLY IInv, <1>2, <1>3, <1>6, <1>7, <1>8, <1>9, EmitQueue
<1>11. TypeOK' BY <1>4, <1>10 DEF IInv, TypeOK, Pushed, loopVars, bootVars
<1>12. LogInv' /\ Places' BY <1>4 DEF IInv, LogInv, Places, loopVars
<1>13. ASSUME NEW q \in Runs PROVE RunInv(q)'
  <2>1. RunInv(q) BY DEF IInv
  <2>2. CASE q = r BY <1>1, <1>4, <2>1, <2>2 DEF RunInv, LeftAlone, loopVars, bootVars
  <2>3. CASE q # r BY <1>4, <1>7, <1>10, <2>1, <2>3 DEF RunInv, LeftAlone, loopVars, bootVars
  <2> QED BY <2>2, <2>3
<1> QED BY <1>10, <1>11, <1>12, <1>13 DEF IInv

-----------------------------------------------------------------------------
(* The storage. *)

\* What a step of the storage does, with the push it takes and its outcome.
Stores(p, stored, saved) ==
    /\ saved => stored
    /\ ~stored => p.type \in Contents
    /\ log' = IF stored
              THEN Append(log, [run |-> p.run, type |-> p.type, saved |-> saved]) ELSE log
    /\ post' = IF p.by = "post"
               THEN [post EXCEPT ![p.run] = IF saved THEN p.next ELSE "failed"] ELSE post
    /\ pc' = IF p.by \in {"loop", "catch"}
             THEN [pc EXCEPT ![p.run] = IF saved THEN p.next ELSE AfterFailure(p)] ELSE pc
    /\ boot' = IF p.by = "boot" THEN AfterBoot(p, saved) ELSE boot
    /\ bootFailed' = IF p.by = "boot" THEN bootFailed \/ ~saved ELSE bootFailed
    /\ UNCHANGED <<handles, aborted, timers, iteration, tokens, restarts>>

\* What the storage does to the queue: the head leaves it, and with it the
\* only push of its run and of its kind.
LEMMA StoreQueue ==
    ASSUME IInv, Store
    PROVE  \E p \in Pushed, stored, saved \in BOOLEAN :
              /\ Stores(p, stored, saved) /\ Item(p) /\ 1 \in DOMAIN queue /\ p = queue[1]
              /\ queue' \in Seq(Pushed)
              /\ \A i \in DOMAIN queue' :
                    /\ i + 1 \in DOMAIN queue /\ i \in Nat \ {0} /\ queue'[i] = queue[i + 1]
                    /\ queue'[i].run # p.run
                    /\ p.by = "boot" => queue'[i].by # "boot"
<1>1. queue \in Seq(Pushed) /\ queue # << >> /\ queue' = Tail(queue)
    BY SequenceTypes DEF IInv, Store
<1>2. /\ Tail(queue) \in Seq(Pushed) /\ Head(queue) = queue[1]
      /\ 1 \in DOMAIN queue /\ queue[1] \in Pushed
      /\ \A i \in DOMAIN Tail(queue) :
            i + 1 \in DOMAIN queue /\ i \in Nat \ {0} /\ Tail(queue)[i] = queue[i + 1]
    BY <1>1, TailLemma
<1>3. PICK p \in Pushed : p = queue[1] /\ p = Head(queue) BY <1>2
<1>4. PICK stored \in BOOLEAN, saved \in BOOLEAN : Stores(p, stored, saved)
    BY <1>3 DEF Store, Stores
<1>5. Item(p)
  <2>1. Item(queue[1]) BY <1>2 DEF IInv, QueueInv
  <2> QED BY <1>3, <2>1
<1>6. ASSUME NEW i \in DOMAIN queue'
      PROVE  /\ i + 1 \in DOMAIN queue /\ i \in Nat \ {0} /\ queue'[i] = queue[i + 1]
             /\ queue'[i].run # p.run
             /\ p.by = "boot" => queue'[i].by # "boot"
  <2>1. i + 1 \in DOMAIN queue /\ i \in Nat \ {0} /\ queue'[i] = queue[i + 1] BY <1>1, <1>2
  <2>2. i + 1 # 1 BY <2>1
  <2>3. \A a, b \in DOMAIN queue :
            queue[a].run = queue[b].run \/ (queue[a].by = "boot" /\ queue[b].by = "boot") => a = b
      BY DEF IInv, QueueInv
  <2> QED BY <1>2, <1>3, <2>1, <2>2, <2>3
<1>7. queue' \in Seq(Pushed) BY <1>1, <1>2
<1> QED BY <1>2, <1>3, <1>4, <1>5, <1>6, <1>7

\* What the storage does to the log.
LEMMA StoreLog ==
    ASSUME IInv, NEW p \in Pushed, NEW stored \in BOOLEAN, NEW saved \in BOOLEAN,
           Stores(p, stored, saved), Item(p)
    PROVE  /\ log' \in Seq(Logged) /\ LogInv'
           /\ \A q, T : /\ q # p.run => /\ Has(log', q, T) <=> Has(log, q, T)
                                        /\ HasSaved(log', q, T) <=> HasSaved(log, q, T)
                        /\ q = p.run => /\ Has(log', q, T) <=> Has(log, q, T) \/ (stored /\ p.type \in T)
                                        /\ HasSaved(log', q, T)
                                               <=> HasSaved(log, q, T) \/ (saved /\ p.type \in T)
<1>1. log \in Seq(Logged) /\ Ordered(log) /\ Judged(log) BY SequenceTypes DEF IInv, LogInv
<1>2. saved => stored BY DEF Stores
<1>3. CASE ~stored
  <2>1. log' = log BY <1>3 DEF Stores
  <2>2. LogInv' BY <1>1, <2>1 DEF LogInv
  <2> QED BY <1>1, <1>2, <1>3, <2>1, <2>2
<1>4. CASE stored
  <2>1. PICK e \in Logged : e = [run |-> p.run, type |-> p.type, saved |-> saved]
      BY DEF Logged, LoggedTypes, Pushed
  <2>2. log' = Append(log, e) BY <1>4, <2>1 DEF Stores
  <2>3. RunInv(p.run) BY DEF IInv, Pushed
  <2>4. p.type = "created" => ~Has(log, p.run, Endings)
    <3>1. CASE p.by = "post" BY <2>3, <3>1, Kinds DEF Item, RunInv
    <3>2. CASE p.by # "post" BY <3>2 DEF Item, LoopItem, Pushed, Endings
    <3> QED BY <3>1, <3>2
  <2>5. p.type = "started" => ~Has(log, p.run, Endings)
      BY DEF Item, LoopItem, Pushed, Endings
  <2>6. p.type = "completed" => HasSaved(log, p.run, {"accept"})
      BY DEF Item, LoopItem, Pushed
  <2>7. Ordered(Append(log, e)) /\ Judged(Append(log, e))
    <3>1. e.run = p.run /\ e.type = p.type BY <2>1
    <3> QED BY <1>1, <2>4, <2>5, <2>6, <3>1, OrderLemma
  <2>8. log' \in Seq(Logged) BY <1>1, <2>2, AppendProperties
  <2>9. LogInv' BY <2>2, <2>7 DEF LogInv
  <2>10. \A q, T : /\ Has(Append(log, e), q, T) <=> Has(log, q, T) \/ (e.run = q /\ e.type \in T)
                   /\ HasSaved(Append(log, e), q, T) <=>
                          HasSaved(log, q, T) \/ (e.run = q /\ e.type \in T /\ e.saved)
      BY <1>1, HasLemma
  <2>11. e.run = p.run /\ e.type = p.type /\ e.saved = saved BY <2>1
  <2> QED BY <1>4, <2>2, <2>8, <2>9, <2>10, <2>11
<1> QED BY <1>3, <1>4

\* What the storage does to the run of the push that it takes.
LEMMA StoreRun ==
    ASSUME IInv, NEW p \in Pushed, NEW stored \in BOOLEAN, NEW saved \in BOOLEAN,
           Stores(p, stored, saved), Item(p), TypeOK',
           \A i \in DOMAIN queue' : queue'[i].run # p.run
    PROVE  RunInv(p.run)'
<1> DEFINE r == p.run
<1>1. r \in Runs /\ RunInv(r) /\ DOMAIN post = Runs /\ DOMAIN pc = Runs BY DEF IInv, TypeOK, Pushed
<1>2. \A T : /\ Has(log', r, T) <=> Has(log, r, T) \/ (stored /\ p.type \in T)
             /\ HasSaved(log', r, T) <=> HasSaved(log, r, T) \/ (saved /\ p.type \in T)
    BY <1>1, StoreLog
<1>3. saved => stored BY DEF Stores
<1>4. UNCHANGED <<handles, iteration>> BY DEF Stores
<1> HIDE DEF r
<1>5. \A i \in DOMAIN queue' : queue'[i].run # r BY DEF r
<1>6. CASE p.by = "post"
  <2>1. p.type = "created" /\ p.next = "starting" /\ post[r] = "creating" BY <1>6 DEF Item, r
  <2>2. r \notin handles /\ r \notin boot /\ pc[r] = "off" /\ iteration[r] = 0 BY <1>1, <2>1 DEF RunInv
  <2>3. post'[r] = (IF saved THEN "starting" ELSE "failed") /\ UNCHANGED <<pc, boot, bootFailed>>
      BY <1>1, <1>6, <2>1 DEF Stores, r
  <2>4. ~Has(log, r, Endings) /\ ~HasSaved(log, r, Endings) BY <1>1, <2>1, Kinds DEF RunInv
  <2>5. ~Has(log', r, Endings) /\ ~HasSaved(log', r, Endings) BY <1>2, <2>1, <2>4 DEF Endings
  <2>6. saved => HasSaved(log', r, {"created"}) BY <1>2, <2>1
  <2> QED BY <1>4, <2>2, <2>3, <2>5, <2>6 DEF RunInv, r
<1>7. CASE p.by \in {"loop", "catch"}
  <2>1. LoopItem(p) BY <1>7 DEF Item
  <2>2. pc[r] = "wait" /\ r \in handles /\ r \notin boot /\ post[r] = "accepted"
      BY <1>1, <2>1 DEF LoopItem, RunInv, r
  <2>3. UNCHANGED <<post, boot, bootFailed>> /\ pc'[r] = IF saved THEN p.next ELSE AfterFailure(p)
      BY <1>1, <1>7 DEF Stores, r
  <2>4. ~HasSaved(log, r, Endings) BY <1>1, <2>2 DEF RunInv, LeftAlone
  <2>5. HasSaved(log', r, {"created"}) BY <1>1, <1>2, <2>2 DEF RunInv
  <2>6. CASE saved /\ p.type = "started" /\ p.next = "guard"
    <3>1. pc'[r] = "guard" /\ iteration'[r] < MaxIterations
        BY <1>4, <2>1, <2>3, <2>6, LimitsAssumption DEF LoopItem, Endings, r
    <3>2. ~HasSaved(log', r, Endings) BY <1>2, <2>4, <2>6 DEF Endings
    <3> QED BY <1>4, <2>2, <2>3, <2>5, <3>1, <3>2 DEF RunInv, r
  <2>7. CASE saved /\ p.type = "accept" /\ p.next = "accepted"
    <3>1. pc'[r] = "accepted" /\ HasSaved(log', r, {"accept"}) BY <1>2, <2>3, <2>7
    <3>2. ~HasSaved(log', r, Endings) BY <1>2, <2>4, <2>7 DEF Endings
    <3> QED BY <1>4, <2>2, <2>3, <2>5, <3>1, <3>2 DEF RunInv, r
  <2>8. CASE saved /\ p.type \in Endings /\ p.next = "end"
    <3>1. pc'[r] = "end" /\ Has(log', r, Endings) BY <1>2, <1>3, <2>3, <2>8
    <3>2. LeftAlone(r)' BY <1>5, <2>2, <2>3, <3>1 DEF LeftAlone
    <3> QED BY <1>4, <2>2, <2>3, <2>5, <3>1, <3>2 DEF RunInv, r
  <2>9. CASE ~saved /\ p.by = "loop"
    <3>1. pc'[r] = "caught" BY <2>3, <2>9 DEF AfterFailure
    <3>2. ~HasSaved(log', r, Endings) BY <1>2, <2>4, <2>9
    <3> QED BY <1>4, <2>2, <2>3, <2>5, <3>1, <3>2 DEF RunInv, r
  <2>10. CASE ~saved /\ p.by = "catch"
    <3>1. pc'[r] = "end" BY <2>3, <2>10 DEF AfterFailure
    <3>2. stored /\ p.type \in Endings BY <2>1, <2>10 DEF LoopItem, Stores, Contents, Endings
    <3>3. Has(log', r, Endings) /\ ~HasSaved(log', r, Endings) BY <1>2, <2>4, <2>10, <3>2
    <3> QED BY <1>4, <2>2, <2>3, <2>5, <3>1, <3>3 DEF RunInv, r
  <2> QED BY <1>7, <2>1, <2>6, <2>7, <2>8, <2>9, <2>10 DEF LoopItem
<1>8. CASE p.by = "boot"
  <2>1. p.type = "interrupted" /\ r \in boot BY <1>8 DEF Item, r
  <2>2. r \notin handles /\ pc[r] = "off" /\ post[r] \notin {"none", "creating", "starting"}
      BY <1>1, <2>1 DEF RunInv
  <2>3. UNCHANGED <<post, pc>> /\ r \notin boot' /\ bootFailed' = (bootFailed \/ ~saved)
      BY <1>8 DEF Stores, AfterBoot, r
  <2>4. stored /\ p.type \in Endings BY <2>1 DEF Stores, Contents, Endings
  <2>5. Has(log', r, Endings) BY <1>2, <2>4
  <2>6. LeftAlone(r)' BY <1>5, <2>2, <2>3 DEF LeftAlone
  <2>7. post[r] = "accepted" => HasSaved(log', r, {"created"}) BY <1>1, <1>2 DEF RunInv
  <2>8. iteration[r] = 0 BY <1>1, <2>2 DEF RunInv
  <2> QED BY <1>4, <2>2, <2>3, <2>5, <2>6, <2>7, <2>8 DEF RunInv, r
<1> QED BY <1>6, <1>7, <1>8 DEF Pushed

\* A step of the storage keeps the invariant.
LEMMA StoreStep == ASSUME IInv, Store PROVE IInv'
<1>1. PICK p \in Pushed, stored, saved \in BOOLEAN :
          /\ Stores(p, stored, saved) /\ Item(p) /\ 1 \in DOMAIN queue /\ p = queue[1]
          /\ queue' \in Seq(Pushed)
          /\ \A i \in DOMAIN queue' :
                /\ i + 1 \in DOMAIN queue /\ i \in Nat \ {0} /\ queue'[i] = queue[i + 1]
                /\ queue'[i].run # p.run
                /\ p.by = "boot" => queue'[i].by # "boot"
    BY StoreQueue
<1>2. /\ log' \in Seq(Logged) /\ LogInv'
      /\ \A q, T : q # p.run => /\ Has(log', q, T) <=> Has(log, q, T)
                                /\ HasSaved(log', q, T) <=> HasSaved(log, q, T)
    BY <1>1, StoreLog
<1>3. TypeOK /\ p.run \in Runs BY <1>1 DEF IInv, Pushed
<1>4. UNCHANGED <<handles, aborted, timers, iteration, tokens, restarts>> BY <1>1 DEF Stores
<1>5. TypeOK'
  <2>1. post' \in [Runs -> {"none", "creating", "starting", "accepted", "refused", "failed"}]
    <3>1. p.by = "post" => p.next = "starting" BY <1>1 DEF Item
    <3> QED BY <1>1, <1>3, <3>1 DEF Stores, TypeOK
  <2>2. pc' \in [Runs -> {"off", "begin", "wait", "guard", "work", "judge", "accepted",
                          "rejected", "caught", "end"}]
    <3>1. p.by \in {"loop", "catch"} => p.next \in {"guard", "accepted", "end"}
        BY <1>1 DEF Item, LoopItem
    <3>2. AfterFailure(p) \in {"caught", "end"} BY DEF AfterFailure
    <3> QED BY <1>1, <1>3, <3>1, <3>2 DEF Stores, TypeOK
  <2>3. boot' \subseteq Runs /\ bootFailed' \in BOOLEAN
      BY <1>1, <1>3 DEF Stores, AfterBoot, TypeOK
  <2> QED BY <1>1, <1>2, <1>3, <1>4, <2>1, <2>2, <2>3 DEF TypeOK, Pushed, Logged
<1>6. \A q \in Runs : q # p.run =>
          /\ post'[q] = post[q] /\ pc'[q] = pc[q]
          /\ q \in boot' => q \in boot
          /\ q \in boot => q \in boot' \/ bootFailed'
          /\ bootFailed => bootFailed'
          /\ p.by # "boot" => (q \in boot' <=> q \in boot)
  <2>1. DOMAIN post = Runs /\ DOMAIN pc = Runs BY <1>3 DEF TypeOK
  <2> QED BY <1>1, <2>1 DEF Stores, AfterBoot
<1>7. ASSUME NEW i \in DOMAIN queue' PROVE Item(queue[i])'
  <2>1. PICK q \in Pushed : q = queue'[i] /\ q = queue[i + 1] /\ q.run # p.run
                            /\ (p.by = "boot" => q.by # "boot") /\ i + 1 \in DOMAIN queue
      BY <1>1, SequenceTypes DEF IInv
  <2>2. Item(queue[i + 1]) BY <2>1 DEF IInv, QueueInv
  <2>3. Item(q) BY <2>1, <2>2
  <2>4. q.run \in Runs BY DEF Pushed
  <2>5. /\ post'[q.run] = post[q.run] /\ pc'[q.run] = pc[q.run]
        /\ p.by # "boot" => (q.run \in boot' <=> q.run \in boot)
      BY <1>6, <2>1, <2>4
  <2>6. LoopItem(q) => LoopItem(q)' BY <1>2, <1>4, <2>1, <2>5 DEF LoopItem
  <2>7. Item(q)' BY <2>1, <2>3, <2>5, <2>6 DEF Item
  <2> QED BY <2>1, <2>7 DEF Item, LoopItem
<1>8. ASSUME NEW i \in DOMAIN queue', NEW j \in DOMAIN queue',
             queue'[i].run = queue'[j].run \/ (queue'[i].by = "boot" /\ queue'[j].by = "boot")
      PROVE  i = j
  <2>1. i + 1 \in DOMAIN queue /\ j + 1 \in DOMAIN queue /\ i \in Nat /\ j \in Nat BY <1>1
  <2>2. queue'[i] = queue[i + 1] /\ queue'[j] = queue[j + 1] BY <1>1
  <2>3. i + 1 = j + 1 BY <1>8, <2>1, <2>2 DEF IInv, QueueInv
  <2> QED BY <2>1, <2>3
<1>9. QueueInv' BY <1>7, <1>8 DEF QueueInv
<1>10. Places' BY <1>4 DEF IInv, Places
<1>11. ASSUME NEW q \in Runs PROVE RunInv(q)'
  <2>1. CASE q = p.run BY <1>1, <1>5, <2>1, StoreRun
  <2>2. CASE q # p.run
    <3>1. RunInv(q) BY DEF IInv
    <3>2. LeftAlone(q) => LeftAlone(q)'
      <4>1. (\A i \in DOMAIN queue : queue[i].run # q) => \A i \in DOMAIN queue' : queue'[i].run # q
          BY <1>1
      <4> QED BY <1>6, <2>2, <4>1 DEF LeftAlone
    <3> QED BY <1>2, <1>4, <1>6, <2>2, <3>1, <3>2 DEF RunInv
  <2> QED BY <2>1, <2>2
<1> QED BY <1>2, <1>5, <1>9, <1>10, <1>11 DEF IInv

\* After a crash the log has what was saved, and nothing else.
LEMMA CrashLog ==
    ASSUME TypeOK, LogInv, Crash
    PROVE  /\ log' \in Seq(Logged) /\ LogInv'
           /\ \A r : \A T \in SUBSET EventTypes :
                 /\ Has(log', r, T) <=> HasSaved(log, r, T)
                 /\ HasSaved(log', r, T) <=> HasSaved(log, r, T)
           /\ (\A i \in DOMAIN log : log[i].saved) => log' = log
<1>1. /\ log \in Seq(Logged) /\ DOMAIN log = 1..Len(log) /\ Len(log) \in Nat
      /\ \A i \in DOMAIN log : log[i] \in Logged
    BY SequenceTypes
<1>2. log' = [i \in DOMAIN log |-> OnDisk(log[i])] BY DEF Crash
<1>3. ASSUME NEW i \in DOMAIN log
      PROVE  /\ log'[i] \in Logged /\ log'[i].run = log[i].run /\ log'[i].saved = TRUE
             /\ log[i].saved => log'[i] = log[i]
             /\ ~log[i].saved => log'[i].type = "gone"
  <2>1. log'[i] = OnDisk(log[i]) /\ log[i] \in Logged BY <1>1, <1>2
  <2>2. CASE log[i].saved BY <2>1, <2>2 DEF OnDisk, Logged
  <2>3. CASE ~log[i].saved BY <2>1, <2>3 DEF OnDisk, Logged, LoggedTypes
  <2> QED BY <2>2, <2>3
<1>4. DOMAIN log' = DOMAIN log BY <1>2
<1>5. log' \in Seq(Logged)
  <2>1. log' = [i \in 1..Len(log) |-> OnDisk(log[i])] BY <1>1, <1>2
  <2>2. \A i \in 1..Len(log) : OnDisk(log[i]) \in Logged BY <1>1, <1>2, <1>3
  <2> QED BY ONLY <1>1, <2>1, <2>2, IsASeq
<1>6. "gone" \notin EventTypes BY DEF EventTypes, Endings
<1>7. ASSUME NEW r, NEW T \in SUBSET EventTypes
      PROVE  /\ Has(log', r, T) <=> HasSaved(log, r, T)
             /\ HasSaved(log', r, T) <=> HasSaved(log, r, T)
    BY <1>3, <1>4, <1>6 DEF Has, HasSaved
<1>8. Ordered(log')
  <2>1. SUFFICES ASSUME NEW i \in DOMAIN log', NEW j \in DOMAIN log', i < j,
                        log'[i].run = log'[j].run, log'[i].type \in Endings
                 PROVE  log'[j].type \notin {"created", "started"}
      BY DEF Ordered
  <2>2. log[i].type \in Endings /\ log[i].run = log[j].run
      BY <1>3, <1>4, <1>6, <2>1 DEF EventTypes
  <2>3. log[j].type \notin {"created", "started"} BY <1>4, <2>1, <2>2 DEF LogInv, Ordered
  <2> QED BY <1>3, <1>4, <2>3
<1>9. Judged(log')
  <2>1. SUFFICES ASSUME NEW i \in DOMAIN log', log'[i].type = "completed"
                 PROVE  \E j \in 1..(i - 1) :
                            log'[j].run = log'[i].run /\ log'[j].type = "accept" /\ log'[j].saved
      BY DEF Judged
  <2>2. log[i].type = "completed" BY <1>3, <1>4, <2>1
  <2>3. PICK j \in 1..(i - 1) : log[j].run = log[i].run /\ log[j].type = "accept" /\ log[j].saved
      BY <1>4, <2>2 DEF LogInv, Judged
  <2>4. j \in DOMAIN log BY <1>1, <1>4
  <2>5. log'[j].run = log'[i].run /\ log'[j].type = "accept" /\ log'[j].saved
      BY <1>3, <1>4, <2>3, <2>4
  <2> QED BY <2>3, <2>5
<1>10. ASSUME \A i \in DOMAIN log : log[i].saved PROVE log' = log
  <2>1. \A i \in DOMAIN log : OnDisk(log[i]) = log[i] BY <1>10 DEF OnDisk
  <2>2. log = [i \in DOMAIN log |-> log[i]] BY <1>1
  <2> QED BY <1>2, <2>1, <2>2
<1> QED BY <1>5, <1>7, <1>8, <1>9, <1>10 DEF LogInv

\* A crash keeps the invariant: the runs that were created and have not ended
\* are those that the boot finds.
LEMMA CrashStep == ASSUME IInv, Crash PROVE IInv'
<1>1. TypeOK /\ LogInv BY DEF IInv
<1>2. /\ log' \in Seq(Logged) /\ LogInv'
      /\ \A r : \A T \in SUBSET EventTypes :
            /\ Has(log', r, T) <=> HasSaved(log, r, T)
            /\ HasSaved(log', r, T) <=> HasSaved(log, r, T)
    BY <1>1, CrashLog
<1>3. /\ boot' = {r \in Runs : Exists(log', r) /\ ~Terminal(log', r)}
      /\ queue' = << >> /\ handles' = {} /\ aborted' = {} /\ timers' = {}
      /\ post' = [r \in Runs |-> IF post[r] \in {"creating", "starting"} THEN "failed" ELSE post[r]]
      /\ pc' = [r \in Runs |-> "off"] /\ bootFailed' = FALSE
      /\ iteration' = [r \in Runs |-> 0] /\ tokens' = [r \in Runs |-> 0]
      /\ restarts' = restarts + 1 /\ restarts < MaxRestarts
    BY DEF Crash
<1>4. TypeOK'
  <2>1. restarts' \in 0..MaxRestarts
    <3>1. restarts \in 0..MaxRestarts /\ MaxRestarts \in Nat BY <1>1, LimitsAssumption DEF TypeOK
    <3> QED BY <1>3, <3>1
  <2>2. iteration' \in [Runs -> 0..MaxIterations] /\ tokens' \in [Runs -> Nat]
      BY <1>3, LimitsAssumption
  <2>3. queue' \in Seq([run : Runs, type : EventTypes, by : {"post", "loop", "catch", "boot"},
                        next : {"starting", "guard", "accepted", "end", ""}])
      BY <1>3
  <2>4. log' \in Seq([run : Runs, type : LoggedTypes, saved : BOOLEAN]) BY <1>2 DEF Logged
  <2>5. post' \in [Runs -> {"none", "creating", "starting", "accepted", "refused", "failed"}]
      BY <1>1, <1>3 DEF TypeOK
  <2> QED BY <1>3, <2>1, <2>2, <2>3, <2>4, <2>5 DEF TypeOK
<1>5. QueueInv' BY <1>3 DEF QueueInv
<1>6. Places' BY <1>3, FS_EmptySet, LimitsAssumption DEF Places
<1>7. ASSUME NEW r \in Runs PROVE RunInv(r)'
  <2>1. RunInv(r) BY DEF IInv
  <2>2. r \in boot' <=> Has(log', r, {"created"}) /\ ~Has(log', r, Endings)
    <3>1. Exists(log', r) <=> Has(log', r, {"created"}) BY DEF Exists, Has
    <3>2. Terminal(log', r) <=> Has(log', r, {"created"}) /\ Has(log', r, Endings)
        BY <1>2, TerminalLemma DEF LogInv
    <3> QED BY <1>3, <3>1, <3>2
  <2>3. {"created"} \in SUBSET EventTypes /\ Endings \in SUBSET EventTypes /\ EventTypes \in SUBSET EventTypes
      BY DEF EventTypes
  <2>4. /\ Has(log', r, {"created"}) <=> HasSaved(log, r, {"created"})
        /\ Has(log', r, Endings) <=> HasSaved(log, r, Endings)
        /\ HasSaved(log', r, Endings) <=> HasSaved(log, r, Endings)
        /\ HasSaved(log', r, {"created"}) <=> HasSaved(log, r, {"created"})
        /\ Has(log', r, EventTypes) <=> HasSaved(log, r, EventTypes)
      BY <1>2, <2>3
  <2>5. HasSaved(log, r, EventTypes) => Has(log, r, EventTypes) BY DEF Has, HasSaved
  <2>6. /\ post'[r] \notin {"creating", "starting"}
        /\ post'[r] \in {"none", "accepted"} => post'[r] = post[r]
        /\ post[r] \in {"creating", "starting"} => post'[r] = "failed"
        /\ post[r] \notin {"creating", "starting"} => post'[r] = post[r]
      BY <1>3
  <2>7. HasSaved(log, r, {"created"}) \/ HasSaved(log, r, Endings) => post[r] # "none"
      BY <2>1, Kinds DEF RunInv
  <2>8. HasSaved(log', r, Endings) => LeftAlone(r)'
      BY <1>3, <2>2, <2>4, <2>6, <2>7 DEF LeftAlone
  <2>9. r \in boot' => post'[r] \notin {"none", "creating", "starting"}
      BY <2>2, <2>4, <2>6, <2>7
  <2>10. post'[r] = "accepted" => HasSaved(log', r, {"created"}) /\ (Has(log', r, Endings) \/ r \in boot')
      BY <2>1, <2>2, <2>4, <2>6 DEF RunInv
  <2>11. post'[r] = "none" => ~Has(log', r, EventTypes) BY <2>1, <2>4, <2>5, <2>6 DEF RunInv
  <2> QED BY <1>3, <2>6, <2>8, <2>9, <2>10, <2>11 DEF RunInv
<1> QED BY <1>2, <1>4, <1>5, <1>6, <1>7 DEF IInv

-----------------------------------------------------------------------------
(* The theorems. *)

\* The invariant holds at the start.
LEMMA InitInv == Init => IInv
<1> SUFFICES ASSUME Init PROVE IInv OBVIOUS
<1>1. TypeOK
  <2>1. /\ log = << >> /\ queue = << >> /\ handles = {} /\ aborted = {} /\ timers = {}
        /\ boot = {} /\ bootFailed = FALSE
      BY DEF Init
  <2>2. iteration \in [Runs -> 0..MaxIterations] /\ tokens \in [Runs -> Nat] /\ restarts \in 0..MaxRestarts
      BY LimitsAssumption DEF Init
  <2>3. post \in [Runs -> {"none", "creating", "starting", "accepted", "refused", "failed"}]
      BY DEF Init
  <2>4. pc \in [Runs -> {"off", "begin", "wait", "guard", "work", "judge", "accepted",
                         "rejected", "caught", "end"}]
      BY DEF Init
  <2>5. log \in Seq(Logged) /\ queue \in Seq(Pushed) BY <2>1
  <2> QED BY <2>1, <2>2, <2>3, <2>4, <2>5 DEF TypeOK, Logged, Pushed
<1>2. QueueInv /\ LogInv BY DEF Init, QueueInv, LogInv, Ordered, Judged
<1>3. Places BY FS_EmptySet, LimitsAssumption DEF Init, Places
<1>4. ASSUME NEW r \in Runs PROVE RunInv(r)
    BY DEF Init, RunInv, Has, HasSaved
<1> QED BY <1>1, <1>2, <1>3, <1>4 DEF IInv

\* Every step keeps the invariant.
LEMMA NextInv == IInv /\ [Next]_vars => IInv'
<1> SUFFICES ASSUME IInv, [Next]_vars PROVE IInv' OBVIOUS
<1>1. ASSUME NEW r \in Runs,
             Post(r) \/ Start(r) \/ Stop(r) \/ Timer(r) \/ LoopStep(r) \/ Reconcile(r)
      PROVE  IInv'
    BY <1>1, PostStep, StartStep, AbortStep, LoopStepLemma, ReconcileStep
<1>2. CASE Store BY <1>2, StoreStep
<1>3. CASE Crash BY <1>3, CrashStep
<1>4. CASE UNCHANGED vars
  <2>1. TypeOK' /\ LogInv' /\ Places' BY <1>4 DEF IInv, TypeOK, LogInv, Places, vars
  <2>2. QueueInv' BY <1>4 DEF IInv, QueueInv, Item, LoopItem, vars
  <2>3. ASSUME NEW r \in Runs PROVE RunInv(r)'
    <3>1. RunInv(r) BY DEF IInv
    <3> QED BY <1>4, <3>1 DEF RunInv, LeftAlone, vars
  <2> QED BY <2>1, <2>2, <2>3 DEF IInv
<1> QED BY <1>1, <1>2, <1>3, <1>4 DEF Next

\* The inductive invariant holds in every reachable state.
THEOREM Inductive == Spec => []IInv
BY InitInv, NextInv, PTL DEF Spec

\* Every variable keeps its type, and no run of the controller goes over its
\* budget of iterations.
THEOREM RunsHaveTypes == Spec => []TypeOK
<1>1. IInv => TypeOK BY DEF IInv
<1> QED BY <1>1, Inductive, PTL

\* RunController.start counts the place in the step that takes it: however many
\* requests passed the gate of the route before, no more loops are alive than
\* RMAS_MAX_CONCURRENT_RUNS allows.
THEOREM CapacityHolds == Spec => []CapacityIsRespected
<1>1. ASSUME IInv PROVE CapacityIsRespected
  <2>1. \A r \in Runs : pc[r] # "off" <=> r \in handles BY <1>1 DEF IInv, RunInv
  <2>2. {r \in Runs : pc[r] # "off"} = handles BY <1>1, <2>1 DEF IInv, TypeOK
  <2> QED BY <1>1, <2>1, <2>2 DEF IInv, Places, CapacityIsRespected
<1> QED BY <1>1, Inductive, PTL

\* The loop goes on from a verdict only when it is saved: "completed" has an
\* accepting verdict before it in the log, after every failed write and crash.
THEOREM CompletedRunsAreJudged == Spec => []CompletedIsJudged
<1>1. IInv => CompletedIsJudged BY DEF IInv, LogInv, Judged, CompletedIsJudged
<1> QED BY <1>1, Inductive, PTL

\* The catch and the finally of the controller, and reconcileInterrupted, leave
\* no accepted run without a loop and without an ending.
THEOREM NoZombies == Spec => []AcceptedIsNoZombie
<1>1. ASSUME IInv PROVE AcceptedIsNoZombie
  <2>1. SUFFICES ASSUME NEW r \in Runs, post[r] = "accepted",
                        r \notin handles, r \notin boot, ~bootFailed
                 PROVE  Terminal(log, r)
      BY DEF AcceptedIsNoZombie
  <2>2. Has(log, r, Endings) /\ HasSaved(log, r, {"created"}) BY <1>1, <2>1 DEF IInv, RunInv
  <2>3. Has(log, r, {"created"}) BY <2>2, Kinds
  <2> QED BY <1>1, <2>2, <2>3, SequenceTypes, TerminalLemma DEF IInv, LogInv
<1> QED BY <1>1, Inductive, PTL

\* A run with a saved ending is left alone by the loop, by the boot and by the
\* storage: the ending that its status was derived from stays the last one.
THEOREM EndingsAreFinal == Spec => EndingIsFinal
<1>1. ASSUME IInv, [Next]_vars, NEW r \in Runs, NEW type \in Endings,
             \A i \in DOMAIN log : log[i].saved, LastIs(log, r, {type})
      PROVE  LastIs(log', r, {type})
  <2>1. CASE log' = log BY <1>1, <2>1 DEF LastIs, StatusEvents
  <2>2. CASE Store
    <3>1. PICK p \in Pushed, stored, saved \in BOOLEAN :
              Stores(p, stored, saved) /\ 1 \in DOMAIN queue /\ p = queue[1]
        BY <1>1, <2>2, StoreQueue
    <3>2. HasSaved(log, r, Endings) BY <1>1 DEF LastIs, StatusEvents, HasSaved
    <3>3. p.run # r BY <1>1, <3>1, <3>2 DEF IInv, RunInv, LeftAlone
    <3>4. CASE stored
      <4>1. PICK e \in Logged : e = [run |-> p.run, type |-> p.type, saved |-> saved]
          BY DEF Logged, LoggedTypes, Pushed
      <4>2. log' = Append(log, e) /\ e.run # r BY <3>1, <3>3, <3>4, <4>1 DEF Stores
      <4>3. Longer(log', log, Logged, e) BY <1>1, <4>2, PushLemma, SequenceTypes DEF IInv
      <4>4. StatusEvents(log', r) = StatusEvents(log, r)
          BY <4>2, <4>3 DEF Longer, StatusEvents
      <4>5. \A i \in StatusEvents(log, r) : log'[i] = log[i] BY <4>3 DEF Longer, StatusEvents
      <4> QED BY <1>1, <4>4, <4>5 DEF LastIs
    <3>5. CASE ~stored BY <2>1, <3>1, <3>5 DEF Stores
    <3> QED BY <3>4, <3>5
  <2>3. CASE Crash
    <3>1. log' = log BY <1>1, <2>3, CrashLog DEF IInv
    <3> QED BY <2>1, <3>1
  <2>4. ASSUME NEW q \in Runs,
               Post(q) \/ Start(q) \/ Stop(q) \/ Timer(q) \/ LoopStep(q) \/ Reconcile(q)
        PROVE  log' = log
      BY <2>4 DEF Post, Start, Stop, Timer, Reconcile, LoopStep, Begin, Guard, Work, Judge,
                  Accepted, Rejected, Throw, Caught, End
  <2> QED BY <1>1, <2>1, <2>2, <2>3, <2>4 DEF Next, vars
<1>2. IInv /\ [Next]_vars =>
          [\A r \in Runs, type \in Endings :
              (\A i \in DOMAIN log : log[i].saved) /\ LastIs(log, r, {type})
                  => LastIs(log', r, {type})]_vars
    BY <1>1
<1> QED BY <1>2, Inductive, PTL DEF Spec, EndingIsFinal

\* The guard of an iteration looks at the abort signal: a run that was told to
\* stop begins no further iteration.
THEOREM StopsAreObeyed == Spec => StopIsObeyed
<1>1. ASSUME IInv, [Next]_vars, NEW q \in aborted PROVE iteration'[q] <= iteration[q]
  <2>1. q \in Runs /\ iteration \in [Runs -> 0..MaxIterations] BY <1>1 DEF IInv, TypeOK
  <2>2. iteration[q] \in Nat BY <2>1, LimitsAssumption
  <2>3. CASE UNCHANGED iteration BY <2>2, <2>3
  <2>4. ASSUME NEW r \in Runs, Guard(r) PROVE iteration'[q] <= iteration[q]
    <3>1. CASE UNCHANGED iteration BY <2>3, <3>1
    <3>2. CASE ~Aborted(r) /\ iteration' = [iteration EXCEPT ![r] = @ + 1]
        BY <1>1, <2>1, <2>2, <3>2 DEF Aborted
    <3> QED BY <2>4, <3>1, <3>2 DEF Guard
  <2>5. ASSUME NEW r \in Runs, End(r) PROVE iteration'[q] <= iteration[q]
      BY <2>1, <2>2, <2>5 DEF End
  <2>6. CASE Crash BY <2>1, <2>2, <2>6 DEF Crash
  <2>7. ASSUME NEW r \in Runs,
               \/ Post(r) \/ Start(r) \/ Stop(r) \/ Timer(r) \/ Reconcile(r)
               \/ Begin(r) \/ Work(r) \/ Judge(r) \/ Accepted(r) \/ Rejected(r) \/ Throw(r) \/ Caught(r)
        PROVE  UNCHANGED iteration
      BY <2>7 DEF Post, Start, Stop, Timer, Reconcile, Begin, Work, Judge, Accepted, Rejected,
                  Throw, Caught, loopVars
  <2>8. CASE Store BY <2>3, <2>8 DEF Store
  <2> QED BY <1>1, <2>3, <2>4, <2>5, <2>6, <2>7, <2>8 DEF Next, LoopStep, vars
<1>2. IInv /\ [Next]_vars => [\A r \in Runs : r \in aborted => iteration'[r] <= iteration[r]]_vars
    BY <1>1
<1> QED BY <1>2, Inductive, PTL DEF Spec, StopIsObeyed
=============================================================================

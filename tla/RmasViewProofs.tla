--------------------------- MODULE RmasViewProofs ---------------------------
(***************************************************************************)
(* Theorems about RmasView for any number of runs, places, steps, polls,   *)
(* clicks and faults: the types of its variables, and that the feed and    *)
(* the record that are shown are those of the run that is shown.           *)
(***************************************************************************)
EXTENDS RmasView, SequenceLemmas, FiniteSetTheorems, SequenceTheorems, TLAPS

-----------------------------------------------------------------------------
(* Sorting, and merging into what is sorted. *)

\* An event, typed.
LEMMA EventType ==
    \A e \in Event : /\ e.n \in Nat /\ e.run \in Runs /\ e.run # NoRun
                     /\ e.kind \in {"created", "step", "end"} /\ e # NoTask
<1> SUFFICES ASSUME NEW e \in Event
             PROVE  /\ e.n \in Nat /\ e.run \in Runs /\ e.run # NoRun
                    /\ e.kind \in {"created", "step", "end"} /\ e # NoTask
  OBVIOUS
<1>1. e.n \in Nat /\ e.run \in Runs /\ e.kind \in {"created", "step", "end"}
  BY DEF Event
<1> QED
  BY <1>1, NoRunAssumption DEF NoTask

\* Sorting some elements of a list that have different numbers: all of them are
\* there, and nothing else, and each is before those of a higher number.
LEMMA SortedAtLemma ==
    ASSUME NEW list, NEW some \in SUBSET Nat, IsFiniteSet(some),
           \A i \in some : list[i].n \in Nat,
           \A i, j \in some : list[i].n = list[j].n => i = j
    PROVE  /\ Cardinality(some) \in Nat
           /\ DOMAIN SortedAt(list, some) = 1..Cardinality(some)
           /\ SortedAt(list, some) = [k \in 1..Cardinality(some) |-> SortedAt(list, some)[k]]
           /\ \A k \in 1..Cardinality(some) : \E i \in some : SortedAt(list, some)[k] = list[i]
           /\ \A i \in some : \E k \in 1..Cardinality(some) : SortedAt(list, some)[k] = list[i]
           /\ \A k, l \in 1..Cardinality(some) :
                 k < l => SortedAt(list, some)[k].n < SortedAt(list, some)[l].n
<1> DEFINE key == [i \in some |-> list[i].n]
           n == Cardinality(some)
           At(k) == CHOOSE i \in some : Cardinality(UpTo(list, some, i)) = k
<1>1. /\ \A i \in some : key[i] \in Nat /\ key[i] = list[i].n
      /\ \A i, j \in some : key[i] = key[j] => i = j
  OBVIOUS
<1>2. \A i \in some : Cardinality(UpTo(list, some, i)) = Place(some, key, i)
  <2> SUFFICES ASSUME NEW i \in some
               PROVE  UpTo(list, some, i) = {j \in some : key[j] <= key[i]}
    BY DEF Place
  <2>1. \A j \in some : key[j] <= key[i] <=> key[j] < key[i] \/ (key[j] = key[i] /\ j <= i)
    BY <1>1
  <2> QED
    BY <1>1, <2>1 DEF UpTo
<1> HIDE DEF key
<1>3. /\ n \in Nat
      /\ \A i \in some : Place(some, key, i) \in 1..n
      /\ \A k \in 1..n : \E i \in some : Place(some, key, i) = k
      /\ \A i, j \in some : Place(some, key, i) = Place(some, key, j) => i = j
      /\ \A i, j \in some : Place(some, key, i) < Place(some, key, j) => key[i] < key[j]
  BY <1>1, PlaceLemma
<1>4. SortedAt(list, some) = [k \in 1..n |-> list[At(k)]]
  BY DEF SortedAt
<1>5. \A k \in 1..n : At(k) \in some /\ Place(some, key, At(k)) = k
  BY <1>2, <1>3
<1>6. \A i \in some : At(Place(some, key, i)) = i
  BY <1>3, <1>5
<1> HIDE DEF At
<1>7. \A k \in 1..n : \E i \in some : SortedAt(list, some)[k] = list[i]
  BY <1>4, <1>5
<1>8. \A i \in some : \E k \in 1..n : SortedAt(list, some)[k] = list[i]
  BY <1>3, <1>4, <1>6
<1>9. ASSUME NEW k \in 1..n, NEW l \in 1..n, k < l
      PROVE  SortedAt(list, some)[k].n < SortedAt(list, some)[l].n
  <2>1. At(k) \in some /\ At(l) \in some /\ Place(some, key, At(k)) < Place(some, key, At(l))
    BY <1>5, <1>9
  <2>2. key[At(k)] < key[At(l)]
    BY <1>3, <2>1
  <2> QED
    BY <1>1, <1>4, <2>1, <2>2
<1> QED
  BY <1>3, <1>4, <1>7, <1>8, <1>9

\* The trace of a run: its events, sorted.
LEMMA TraceOfLemma ==
    ASSUME IsFiniteSet(log), log \subseteq Event, NEW r,
           \A e, f \in log : e.n = f.n => e = f
    PROVE  /\ TraceOf(r) \in Seq(Event) /\ Ascending(TraceOf(r))
           /\ \A k \in DOMAIN TraceOf(r) : TraceOf(r)[k] \in Of(r)
           /\ \A e \in Of(r) : \E k \in DOMAIN TraceOf(r) : TraceOf(r)[k] = e
<1> DEFINE S == Of(r)
           key == [e \in S |-> e.n]
           n == Cardinality(S)
           At(k) == CHOOSE e \in S : Cardinality(Earlier(r, e)) = k
<1>0. S \subseteq Event /\ IsFiniteSet(S)
  BY FS_Subset DEF Of
<1>1. /\ \A e \in S : key[e] \in Nat /\ key[e] = e.n
      /\ \A e, f \in S : key[e] = key[f] => e = f
  BY <1>0, EventType DEF Of
<1>2. \A e \in S : Cardinality(Earlier(r, e)) = Place(S, key, e)
  BY <1>1 DEF Earlier, Place
<1>3. TraceOf(r) = [k \in 1..n |-> At(k)]
  BY DEF TraceOf
<1> HIDE DEF key, S
<1>4. /\ n \in Nat
      /\ \A e \in S : Place(S, key, e) \in 1..n
      /\ \A k \in 1..n : \E e \in S : Place(S, key, e) = k
      /\ \A e, f \in S : Place(S, key, e) = Place(S, key, f) => e = f
      /\ \A e, f \in S : Place(S, key, e) < Place(S, key, f) => key[e] < key[f]
  BY <1>0, <1>1, PlaceLemma
<1>5. \A k \in 1..n : At(k) \in S /\ Place(S, key, At(k)) = k
  BY <1>2, <1>4
<1> HIDE DEF At
<1>6. TraceOf(r) \in Seq(Event) /\ DOMAIN TraceOf(r) = 1..n
  BY <1>0, <1>3, <1>4, <1>5
<1>7. \A k \in 1..n : TraceOf(r)[k] = At(k)
  BY <1>3
<1> HIDE DEF n
<1>8. ASSUME NEW e \in S
      PROVE  \E k \in 1..n : TraceOf(r)[k] = e
  <2>1. Place(S, key, e) \in 1..n /\ At(Place(S, key, e)) = e
    BY <1>4, <1>5
  <2> QED
    BY <1>7, <2>1
<1>9. Ascending(TraceOf(r))
  <2> SUFFICES ASSUME NEW k \in 1..n, NEW l \in 1..n, k < l
               PROVE  At(k).n < At(l).n
    BY <1>6, <1>7 DEF Ascending
  <2>1. At(k) \in S /\ At(l) \in S /\ Place(S, key, At(k)) < Place(S, key, At(l))
    BY <1>5
  <2> QED
    BY <1>1, <1>4, <2>1
<1>10. \A k \in DOMAIN TraceOf(r) : TraceOf(r)[k] \in Of(r)
  BY <1>5, <1>6, <1>7 DEF S
<1>11. \A e \in Of(r) : \E k \in DOMAIN TraceOf(r) : TraceOf(r)[k] = e
  BY <1>6, <1>8 DEF S
<1> QED
  BY <1>6, <1>9, <1>10, <1>11

\* An event merged into a feed in order: it is there once, what else was there
\* under other numbers still is, and the feed is in order.
LEMMA MergeLemma ==
    ASSUME NEW list \in Seq(Event), NEW e \in Event, Ascending(list)
    PROVE  /\ MergeTraceEvent(list, e) \in Seq(Event) /\ Ascending(MergeTraceEvent(list, e))
           /\ \A k \in DOMAIN MergeTraceEvent(list, e) :
                 \/ MergeTraceEvent(list, e)[k] = e
                 \/ \E i \in DOMAIN list : MergeTraceEvent(list, e)[k] = list[i]
           /\ \E k \in DOMAIN MergeTraceEvent(list, e) : MergeTraceEvent(list, e)[k] = e
           /\ \A i \in DOMAIN list : list[i].n # e.n =>
                 \E k \in DOMAIN MergeTraceEvent(list, e) : MergeTraceEvent(list, e)[k] = list[i]
<1> DEFINE next == Append(list, e)
           last == Len(list) + 1
           some == Others(list, e) \cup {last}
           m == SortedAt(next, some)
           c == Cardinality(some)
<1>1. /\ next \in Seq(Event) /\ DOMAIN list = 1..Len(list) /\ Len(list) \in Nat
      /\ \A i \in DOMAIN list : next[i] = list[i]
      /\ next[last] = e
  BY AppendLemma
<1> HIDE DEF next
<1>2. some \subseteq 1..last
  BY <1>1 DEF Others
<1>3. some \in SUBSET Nat /\ IsFiniteSet(some)
  <2>1. last \in Nat /\ IsFiniteSet(1..last)
    BY <1>1, FS_Interval
  <2> HIDE DEF some, last
  <2>2. IsFiniteSet(some)
    BY <1>2, <2>1, FS_Subset
  <2> QED
    BY <1>2, <2>1, <2>2
<1>4. \A i \in some : \/ i \in DOMAIN list /\ next[i] = list[i] /\ next[i].n # e.n
                      \/ i = last /\ next[i] = e
  BY <1>1 DEF Others
<1>5. /\ \A i \in DOMAIN list : list[i] \in Event /\ list[i].n \in Nat
      /\ e.n \in Nat
  BY EventType
<1>6. \A i \in some : next[i].n \in Nat /\ next[i] \in Event
  BY <1>4, <1>5
<1>7. ASSUME NEW i \in some, NEW j \in some, next[i].n = next[j].n
      PROVE  i = j
  <2>1. CASE i \in DOMAIN list /\ j \in DOMAIN list /\ next[i] = list[i] /\ next[j] = list[j]
    <3>1. i < j \/ j < i \/ i = j
      BY <1>1, <2>1
    <3> QED
      BY <1>5, <1>7, <2>1, <3>1 DEF Ascending
  <2> HIDE DEF some
  <2> QED
    BY <1>4, <1>7, <2>1
<1> HIDE DEF some, last
<1>8. /\ c \in Nat /\ DOMAIN m = 1..c /\ m = [k \in 1..c |-> m[k]]
      /\ \A k \in 1..c : \E i \in some : m[k] = next[i]
      /\ \A i \in some : \E k \in 1..c : m[k] = next[i]
      /\ \A k, l \in 1..c : k < l => m[k].n < m[l].n
  BY <1>3, <1>6, <1>7, SortedAtLemma
<1>9. MergeTraceEvent(list, e) = m
  BY DEF MergeTraceEvent, next, some, last
<1> HIDE DEF m, c
<1>10. m \in Seq(Event)
  <2>1. \A k \in 1..c : m[k] \in Event
    BY <1>6, <1>8
  <2>2. [k \in 1..c |-> m[k]] \in Seq(Event)
    BY <1>8, <2>1
  <2> QED
    BY <1>8, <2>2
<1>11. Ascending(m)
  BY <1>8 DEF Ascending
<1>12. \A k \in DOMAIN m : m[k] = e \/ \E i \in DOMAIN list : m[k] = list[i]
  BY <1>4, <1>8
<1>13. \E k \in DOMAIN m : m[k] = e
  BY <1>1, <1>8 DEF some
<1>14. \A i \in DOMAIN list : list[i].n # e.n => \E k \in DOMAIN m : m[k] = list[i]
  <2> SUFFICES ASSUME NEW i \in DOMAIN list, list[i].n # e.n
               PROVE  \E k \in DOMAIN m : m[k] = list[i]
    OBVIOUS
  <2>1. i \in some /\ next[i] = list[i]
    BY <1>1 DEF some, Others
  <2> QED
    BY <1>8, <2>1
<1> QED
  BY <1>9, <1>10, <1>11, <1>12, <1>13, <1>14

-----------------------------------------------------------------------------
(* Frames. *)

\* The events that frames carry, as frames come and go.
LEMMA CarriedLemma ==
    /\ Carried(<< >>) = {}
    /\ \A frame \in Frame : Carried(<<frame>>) = Range(frame.events)
    /\ \A frames \in Seq(Frame), frame \in Frame :
          Carried(Append(frames, frame)) = Carried(frames) \cup Range(frame.events)
    /\ \A frames \in Seq(Frame) : frames # << >> =>
          Carried(frames) = Range(Head(frames).events) \cup Carried(Tail(frames))
<1>1. Carried(<< >>) = {}
  BY DEF Carried
<1>2. \A frame \in Frame : Carried(<<frame>>) = Range(frame.events)
  BY DEF Carried
<1>3. ASSUME NEW frames \in Seq(Frame), NEW frame \in Frame
      PROVE  Carried(Append(frames, frame)) = Carried(frames) \cup Range(frame.events)
  <2> DEFINE next == Append(frames, frame)
  <2>1. /\ \A i \in DOMAIN frames : i \in DOMAIN next /\ next[i] = frames[i]
        /\ \A i \in DOMAIN next : i \in DOMAIN frames \/ i = Len(frames) + 1
        /\ Len(frames) + 1 \in DOMAIN next /\ next[Len(frames) + 1] = frame
    BY AppendLemma
  <2> HIDE DEF next
  <2>2. Carried(next) \subseteq Carried(frames) \cup Range(frame.events)
    BY <2>1 DEF Carried
  <2>3. Carried(frames) \subseteq Carried(next)
    BY <2>1 DEF Carried
  <2>4. Range(frame.events) \subseteq Carried(next)
    BY <2>1 DEF Carried
  <2> QED
    BY <2>2, <2>3, <2>4 DEF next
<1>4. ASSUME NEW frames \in Seq(Frame), frames # << >>
      PROVE  Carried(frames) = Range(Head(frames).events) \cup Carried(Tail(frames))
  <2>1. /\ Head(frames) = frames[1] /\ 1 \in DOMAIN frames
        /\ \A i \in DOMAIN Tail(frames) : i + 1 \in DOMAIN frames /\ Tail(frames)[i] = frames[i + 1]
        /\ \A i \in DOMAIN frames : i # 1 => i - 1 \in DOMAIN Tail(frames) /\ Tail(frames)[i - 1] = frames[i]
    BY <1>4, TailLemma
  <2>2. Carried(frames) \subseteq Range(Head(frames).events) \cup Carried(Tail(frames))
    <3> SUFFICES ASSUME NEW i \in DOMAIN frames, NEW e \in Range(frames[i].events)
                 PROVE  e \in Range(Head(frames).events) \/ e \in Carried(Tail(frames))
      BY DEF Carried
    <3> QED
      BY <2>1 DEF Carried
  <2>3. Range(Head(frames).events) \subseteq Carried(frames)
    BY <2>1 DEF Carried
  <2>4. Carried(Tail(frames)) \subseteq Carried(frames)
    BY <2>1 DEF Carried
  <2> QED
    BY <2>2, <2>3, <2>4
<1> QED
  BY <1>1, <1>2, <1>3, <1>4

\* The range of a list in terms of its elements.
LEMMA RangeIs ==
    \A list, e : e \in Range(list) <=> \E i \in DOMAIN list : list[i] = e
BY DEF Range

\* A snapshot of a run is a frame of it and carries its events in memory.
LEMMA SnapshotFrameLemma ==
    ASSUME ServerTypes, NumbersAreUnique, NEW r
    PROVE  /\ SnapshotFrame(r) \in Frame /\ IsFrameOf(SnapshotFrame(r), r)
           /\ Range(SnapshotFrame(r).events) = Of(r)
<1>1. /\ TraceOf(r) \in Seq(Event) /\ Ascending(TraceOf(r))
      /\ \A k \in DOMAIN TraceOf(r) : TraceOf(r)[k] \in Of(r)
      /\ \A e \in Of(r) : \E k \in DOMAIN TraceOf(r) : TraceOf(r)[k] = e
  <2>1. \A e, f \in log : e.n = f.n => e = f
    BY DEF NumbersAreUnique, Seen
  <2> QED
    BY <2>1, TraceOfLemma DEF ServerTypes
<1>2. SnapshotFrame(r) \in Frame /\ SnapshotFrame(r).events = TraceOf(r)
  BY <1>1 DEF SnapshotFrame, Frame
<1>3. IsSnapshot(SnapshotFrame(r))
  BY DEF SnapshotFrame, IsSnapshot
<1>4. IsFrameOf(SnapshotFrame(r), r)
  BY <1>1, <1>2, <1>3 DEF IsFrameOf, IsOf, Of
<1>5. \A e : e \in Range(TraceOf(r)) <=> e \in Of(r)
  <2>1. \A e : e \in Range(TraceOf(r)) <=> \E i \in DOMAIN TraceOf(r) : TraceOf(r)[i] = e
    BY RangeIs
  <2> QED
    BY <1>1, <2>1
<1> QED
  BY <1>2, <1>4, <1>5

\* So is an event.
LEMMA EventFrameLemma ==
    \A e \in Event : /\ EventFrame(e) \in Frame /\ ~IsSnapshot(EventFrame(e))
                     /\ IsFrameOf(EventFrame(e), e.run)
                     /\ Range(EventFrame(e).events) = {e}
<1> SUFFICES ASSUME NEW e \in Event
             PROVE  /\ EventFrame(e) \in Frame /\ ~IsSnapshot(EventFrame(e))
                    /\ IsFrameOf(EventFrame(e), e.run)
                    /\ Range(EventFrame(e).events) = {e}
  OBVIOUS
<1>1. EventFrame(e) \in Frame /\ ~IsSnapshot(EventFrame(e)) /\ EventFrame(e).events = <<e>>
  BY DEF EventFrame, Frame, IsSnapshot
<1>2. IsOf(<<e>>, e.run) /\ Ascending(<<e>>) /\ Len(<<e>>) = 1 /\ Range(<<e>>) = {e}
  BY DEF IsOf, Ascending, Range
<1> QED
  BY <1>1, <1>2 DEF IsFrameOf

\* Every frame that is dispatched leaves a feed of the run in order, if it was
\* one before and the numbers tell events apart: all that is in the frame is in
\* the feed, and unless it is a snapshot, all that was there before.
LEMMA DispatchedLemma ==
    ASSUME NEW list \in Seq(Event), NEW frame \in Frame, NEW r,
           IsOf(list, r), Ascending(list), IsFrameOf(frame, r),
           \A e \in Range(list), f \in Range(frame.events) : e.n = f.n => e = f
    PROVE  /\ Dispatched(list, frame) \in Seq(Event)
           /\ IsOf(Dispatched(list, frame), r) /\ Ascending(Dispatched(list, frame))
           /\ Range(frame.events) \subseteq Range(Dispatched(list, frame))
           /\ Range(Dispatched(list, frame)) \subseteq Range(list) \cup Range(frame.events)
           /\ ~IsSnapshot(frame) => Range(list) \subseteq Range(Dispatched(list, frame))
<1>1. CASE IsSnapshot(frame)
  <2>1. Dispatched(list, frame) = frame.events
    BY <1>1 DEF Dispatched, IsSnapshot
  <2> QED
    BY <1>1, <2>1 DEF Frame, IsFrameOf
<1>2. CASE ~IsSnapshot(frame)
  <2> DEFINE e == frame.events[1]
             m == MergeTraceEvent(list, e)
  <2>1. Dispatched(list, frame) = m
    BY <1>2 DEF Dispatched, IsSnapshot
  <2>2. frame.events \in Seq(Event) /\ Len(frame.events) = 1
    BY <1>2 DEF Frame, IsFrameOf
  <2>3. e \in Event /\ e.run = r /\ Range(frame.events) = {e}
    <3>1. DOMAIN frame.events = {1}
      BY <2>2
    <3> QED
      BY <2>2, <3>1, RangeIs DEF IsFrameOf, IsOf
  <2> HIDE DEF e
  <2>4. /\ m \in Seq(Event) /\ Ascending(m)
        /\ \A k \in DOMAIN m : m[k] = e \/ \E i \in DOMAIN list : m[k] = list[i]
        /\ \E k \in DOMAIN m : m[k] = e
        /\ \A i \in DOMAIN list : list[i].n # e.n => \E k \in DOMAIN m : m[k] = list[i]
    BY <2>3, MergeLemma
  <2> HIDE DEF m
  <2>5. IsOf(m, r)
    BY <2>3, <2>4 DEF IsOf
  <2>6. Range(frame.events) \subseteq Range(m)
    BY <2>3, <2>4, RangeIs
  <2>7. Range(m) \subseteq Range(list) \cup Range(frame.events)
    BY <2>3, <2>4, RangeIs
  <2>8. Range(list) \subseteq Range(m)
    <3> SUFFICES ASSUME NEW i \in DOMAIN list PROVE list[i] \in Range(m)
      BY RangeIs
    <3>1. CASE list[i].n # e.n
      BY <2>4, <3>1, RangeIs
    <3>2. CASE list[i].n = e.n
      <4>1. list[i] = e
        BY <2>3, <3>2, RangeIs
      <4> QED
        BY <2>4, <4>1, RangeIs
    <3> QED
      BY <3>1, <3>2
  <2> QED
    BY <2>1, <2>4, <2>5, <2>6, <2>7, <2>8
<1> QED
  BY <1>1, <1>2

-----------------------------------------------------------------------------
(* The feed. *)

\* What there is of a stream.
LEMMA StreamType ==
    ASSUME stream \in Stream
    PROVE  /\ stream.state \in {"none", "connecting", "open"} /\ stream.run \in Runs \cup {NoRun}
           /\ stream.frames \in Seq(Frame) /\ DOMAIN stream.frames = 1..Len(stream.frames)
           /\ Len(stream.frames) \in Nat
BY DEF Stream

\* All that was ever seen are events.
LEMMA SeenAreEvents ==
    ASSUME TypeInv
    PROVE  Seen \subseteq Event
<1>1. log \subseteq Event
  BY DEF TypeInv, ServerTypes
<1>2. Range(trace) \subseteq Event
  BY RangeIs, ElementOfSeq DEF TypeInv, ShownTypes
<1>3. OnItsWay \subseteq Event
  <2> SUFFICES ASSUME NEW i \in DOMAIN stream.frames, NEW f \in Range(stream.frames[i].events)
               PROVE  f \in Event
    BY DEF OnItsWay, Carried
  <2>1. stream.frames[i] \in Frame
    BY StreamType DEF TypeInv
  <2>2. stream.frames[i].events \in Seq(Event)
    BY <2>1 DEF Frame
  <2> QED
    BY <2>2, RangeIs
<1> QED
  BY <1>1, <1>2, <1>3 DEF Seen

\* The steps that change nothing the feed depends on.
LEMMA FeedAlone ==
    ASSUME FeedInv, UNCHANGED <<log, saved, fresh, runId, trace, stream>>
    PROVE  FeedInv'
BY DEF FeedInv, NumbersAreUnique, Seen, StreamInv, FeedIsFaithful, OnItsWay, Of

\* An event that is taken up has a number of its own.
LEMMA FeedEmit ==
    ASSUME TypeInv, FeedInv, NEW r \in Runs, NEW kind \in {"created", "step", "end"},
           Emit(r, kind), UNCHANGED <<runId, trace, stream>>
    PROVE  FeedInv'
<1>1. PICK e : /\ e = [n |-> fresh, run |-> r, kind |-> kind]
               /\ log' = log \cup {e} /\ fresh' = fresh + 1 /\ saved' = saved
  BY DEF Emit
<1>2. e \in Event /\ e.n = fresh /\ fresh \in Nat
  BY <1>1 DEF Event, TypeInv, ServerTypes
<1>3. OnItsWay' = OnItsWay
  BY DEF OnItsWay
<1>4. Seen' = Seen \cup {e}
  BY <1>1, <1>3 DEF Seen
<1>5. \A f \in Seen : f.n \in Nat
  BY SeenAreEvents, EventType
<1>6. NumbersAreUnique'
  <2>1. \A f \in Seen : f.n < fresh
    BY DEF FeedInv, NumbersAreUnique
  <2>2. \A f \in Seen' : f.n < fresh'
    BY <1>1, <1>2, <1>4, <1>5, <2>1
  <2>3. \A f, g \in Seen' : f.n = g.n => f = g
    <3>1. \A f, g \in Seen : f.n = g.n => f = g
      BY DEF FeedInv, NumbersAreUnique
    <3>2. \A f \in Seen : f.n # e.n
      BY <1>2, <1>5, <2>1
    <3> QED
      BY <1>4, <3>1, <3>2
  <2> QED
    BY <2>2, <2>3 DEF NumbersAreUnique
<1>7. (Of(runId) \cap saved)' = Of(runId) \cap saved
  <2>1. e \notin log /\ saved \subseteq log
    <3>1. \A f \in log : f.n < fresh /\ f.n \in Nat
      BY <1>5 DEF FeedInv, NumbersAreUnique, Seen
    <3> QED
      BY <1>2, <3>1 DEF TypeInv, ServerTypes
  <2> QED
    BY <1>1, <2>1 DEF Of
<1>8. StreamInv'
  BY <1>3, <1>7 DEF FeedInv, StreamInv
<1>9. FeedIsFaithful'
  BY <1>3, <1>7 DEF FeedInv, FeedIsFaithful
<1> QED
  BY <1>6, <1>8, <1>9 DEF FeedInv

\* An event that has been saved is on its way to an open stream of its run.
LEMMA FeedWrite ==
    ASSUME TypeInv, FeedInv, Write
    PROVE  FeedInv' /\ stream' \in Stream
<1>1. /\ task \in log /\ task \in Event /\ saved' = saved \cup {task}
      /\ UNCHANGED <<log, fresh, runId, trace>>
  BY DEF Write, TypeInv, ServerTypes, shown
<1>2. stream \in Stream
  BY DEF TypeInv
<1>3. /\ stream.state # "none" => stream.run = runId
      /\ stream.state # "open" => stream.frames = << >>
  BY DEF FeedInv, StreamInv
<1>4. CASE stream.state = "open" /\ stream.run = task.run
  <2> DEFINE frame == EventFrame(task)
             next == Append(stream.frames, frame)
  <2>1. stream' = [stream EXCEPT !.frames = next]
    BY <1>4 DEF Write, Published
  <2>2. /\ frame \in Frame /\ ~IsSnapshot(frame) /\ IsFrameOf(frame, task.run)
        /\ Range(frame.events) = {task}
    BY <1>1, EventFrameLemma
  <2>3. /\ next \in Seq(Frame)
        /\ \A i \in DOMAIN next : \/ i \in DOMAIN stream.frames /\ next[i] = stream.frames[i]
                                  \/ next[i] = frame
    BY <1>2, <2>2, StreamType, AppendLemma
  <2>4. Carried(next) = Carried(stream.frames) \cup {task}
    BY <1>2, <2>2, StreamType, CarriedLemma
  <2> HIDE DEF next, frame
  <2>5. /\ stream' \in Stream /\ stream'.frames = next
        /\ stream'.state = "open" /\ stream'.run = stream.run
    BY <1>2, <1>4, <2>1, <2>3 DEF Stream
  <2>6. OnItsWay' = OnItsWay \cup {task}
    BY <2>4, <2>5 DEF OnItsWay
  <2>7. NumbersAreUnique'
    <3>1. Seen' = Seen
      BY <1>1, <2>6 DEF Seen
    <3> QED
      BY <1>1, <3>1 DEF FeedInv, NumbersAreUnique
  <2>8. (Of(runId) \cap saved)' \subseteq (Of(runId) \cap saved) \cup {task}
    BY <1>1 DEF Of
  <2>9. StreamInv'
    <3>1. \A i \in DOMAIN next :
             /\ IsFrameOf(next[i], runId)
             /\ IsSnapshot(next[i]) => i = 1 /\ Of(runId) \cap saved \subseteq OnItsWay
      BY <1>3, <1>4, <2>2, <2>3 DEF FeedInv, StreamInv
    <3> QED
      BY <1>1, <1>3, <1>4, <2>5, <2>6, <2>8, <3>1 DEF StreamInv
  <2>10. FeedIsFaithful'
    <3>1. Of(runId) \cap saved \subseteq Range(trace) \cup OnItsWay
      BY <1>4 DEF FeedInv, FeedIsFaithful
    <3>2. (Of(runId) \cap saved)' \subseteq (Range(trace) \cup OnItsWay)'
      BY <1>1, <2>6, <2>8, <3>1
    <3> QED
      BY <1>1, <3>2 DEF FeedInv, FeedIsFaithful
  <2> QED
    BY <2>5, <2>7, <2>9, <2>10 DEF FeedInv
<1>5. CASE ~(stream.state = "open" /\ stream.run = task.run)
  <2>1. stream' = stream
    BY <1>5 DEF Write, Published
  <2>2. OnItsWay' = OnItsWay
    BY <2>1 DEF OnItsWay
  <2>3. NumbersAreUnique'
    BY <1>1, <2>2 DEF FeedInv, NumbersAreUnique, Seen
  <2>4. stream.state = "open" => (Of(runId) \cap saved)' = Of(runId) \cap saved
    BY <1>1, <1>3, <1>5 DEF Of
  <2>5. StreamInv'
    BY <1>1, <2>1, <2>2, <2>4 DEF FeedInv, StreamInv
  <2>6. FeedIsFaithful'
    BY <1>1, <2>1, <2>2, <2>4 DEF FeedInv, FeedIsFaithful
  <2> QED
    BY <1>2, <2>1, <2>3, <2>5, <2>6 DEF FeedInv
<1> QED
  BY <1>4, <1>5

\* A stream without frames.
LEMMA ClosedStream ==
    /\ /\ NoStream \in Stream /\ NoStream.frames = << >>
       /\ NoStream.state = "none" /\ NoStream.run = NoRun
    /\ \A r \in Runs : /\ Connecting(r) \in Stream /\ Connecting(r).frames = << >>
                       /\ Connecting(r).state = "connecting" /\ Connecting(r).run = r
<1>1. << >> \in Seq(Frame)
  BY EmptySeq
<1> QED
  BY <1>1 DEF NoStream, Connecting, Stream

\* A stream that ends, or is to be opened, leaves the feed as it is; the log
\* may have lost what was not saved.
LEMMA FeedClosed ==
    ASSUME TypeInv, FeedInv, UNCHANGED <<fresh, runId, trace>>, log' \subseteq log,
           stream' = NoStream \/ (stream' = Connecting(runId) /\ runId \in Runs)
    PROVE  FeedInv' /\ stream' \in Stream
<1>1. /\ stream'.frames = << >> /\ stream'.state # "open"
      /\ stream'.state # "none" => stream'.run = runId
      /\ stream' \in Stream
  BY ClosedStream
<1>2. OnItsWay' = {}
  BY <1>1, CarriedLemma DEF OnItsWay
<1>3. NumbersAreUnique'
  <2>1. Seen' \subseteq Seen
    BY <1>2 DEF Seen
  <2> QED
    BY <2>1 DEF FeedInv, NumbersAreUnique
<1>4. StreamInv'
  BY <1>1 DEF StreamInv
<1>5. FeedIsFaithful'
  BY <1>1 DEF FeedInv, FeedIsFaithful
<1> QED
  BY <1>1, <1>3, <1>4, <1>5 DEF FeedInv

\* A stream that is connected begins with all the events of its run.
LEMMA FeedConnect ==
    ASSUME TypeInv, FeedInv, Connect
    PROVE  FeedInv' /\ stream' \in Stream
<1>1. /\ UNCHANGED <<log, saved, fresh, runId, trace>>
      /\ stream.state = "connecting" /\ stream.run = runId /\ stream \in Stream
  BY DEF Connect, server, store, shown, FeedInv, StreamInv, TypeInv
<1>2. CASE Of(stream.run) = {}
  <2>1. stream' = NoStream
    BY <1>2 DEF Connect
  <2> QED
    BY <1>1, <2>1, FeedClosed
<1>3. CASE Of(stream.run) # {}
  <2> DEFINE frame == SnapshotFrame(runId)
  <2>1. stream' = [stream EXCEPT !.state = "open", !.frames = <<frame>>]
    BY <1>1, <1>3 DEF Connect
  <2>2. /\ frame \in Frame /\ IsFrameOf(frame, runId) /\ Range(frame.events) = Of(runId)
    BY SnapshotFrameLemma DEF TypeInv, FeedInv
  <2>3. Carried(<<frame>>) = Of(runId)
    BY <2>2, CarriedLemma
  <2> HIDE DEF frame
  <2>4. /\ stream' \in Stream /\ stream'.frames = <<frame>>
        /\ stream'.state = "open" /\ stream'.run = runId
    <3>1. <<frame>> \in Seq(Frame)
      BY <2>2
    <3> QED
      BY <1>1, <2>1, <3>1 DEF Stream
  <2>5. OnItsWay' = Of(runId)
    BY <2>3, <2>4 DEF OnItsWay
  <2>6. Of(runId)' = Of(runId)
    BY <1>1 DEF Of
  <2>7. NumbersAreUnique'
    <3>1. Seen' \subseteq Seen
      BY <1>1, <2>5 DEF Seen, Of
    <3> QED
      BY <1>1, <3>1 DEF FeedInv, NumbersAreUnique
  <2>8. StreamInv'
    <3>1. DOMAIN <<frame>> = {1} /\ <<frame>>[1] = frame
      OBVIOUS
    <3> QED
      BY <1>1, <2>2, <2>4, <2>5, <2>6, <3>1 DEF StreamInv
  <2>9. FeedIsFaithful'
    BY <1>1, <2>5, <2>6 DEF FeedInv, FeedIsFaithful
  <2> QED
    BY <2>4, <2>7, <2>8, <2>9 DEF FeedInv
<1> QED
  BY <1>2, <1>3

\* The feed of a run that a view turns to: nothing, or the frame that has been
\* read already.
LEMMA FeedAttach ==
    ASSUME TypeInv, FeedInv, NEW r \in Runs, Attach(r),
           UNCHANGED <<log, saved, fresh>>, stream' \in {NoStream, Connecting(r)}
    PROVE  FeedInv' /\ stream' \in Stream /\ trace' \in Seq(Event)
<1>1. /\ runId' = r
      /\ stream'.frames = << >> /\ stream'.state # "open"
      /\ stream'.state # "none" => stream'.run = r
      /\ stream' \in Stream
  BY ClosedStream DEF Attach
<1>2. OnItsWay' = {}
  BY <1>1, CarriedLemma DEF OnItsWay
<1>3. trace' \in Seq(Event) /\ IsOf(trace', r) /\ Ascending(trace') /\ Range(trace') \subseteq Seen
  <2>1. CASE trace' = << >>
    BY <2>1 DEF IsOf, Ascending, Range
  <2>2. CASE /\ stream.frames # << >> /\ IsActive(stream.run, r)
             /\ trace' = Dispatched(<< >>, Head(stream.frames))
    <3> DEFINE frame == Head(stream.frames)
    <3>1. frame = stream.frames[1] /\ 1 \in DOMAIN stream.frames /\ frame \in Frame
      BY <2>2, StreamType, TailLemma DEF TypeInv
    <3>2. Carried(stream.frames) = Range(frame.events) \cup Carried(Tail(stream.frames))
      BY <2>2, StreamType, CarriedLemma DEF TypeInv
    <3>3. stream.run = r /\ runId = r
      BY <2>2 DEF IsActive, FeedInv, StreamInv
    <3>4. IsFrameOf(frame, r)
      BY <3>1, <3>3 DEF FeedInv, StreamInv
    <3> HIDE DEF frame
    <3>5. /\ IsOf(<< >>, r) /\ Ascending(<< >>) /\ << >> \in Seq(Event)
          /\ Range(<< >>) = {}
      BY DEF IsOf, Ascending, Range
    <3>6. /\ Dispatched(<< >>, frame) \in Seq(Event)
          /\ IsOf(Dispatched(<< >>, frame), r) /\ Ascending(Dispatched(<< >>, frame))
          /\ Range(frame.events) \subseteq Range(Dispatched(<< >>, frame))
          /\ Range(Dispatched(<< >>, frame)) \subseteq Range(<< >>) \cup Range(frame.events)
          /\ ~IsSnapshot(frame) => Range(<< >>) \subseteq Range(Dispatched(<< >>, frame))
      <4>1. \A e \in Range(<< >>), f \in Range(frame.events) : e.n = f.n => e = f
        BY <3>5
      <4> HIDE <2>2
      <4> QED
        BY <3>1, <3>4, <3>5, <4>1, DispatchedLemma
    <3>7. trace' = Dispatched(<< >>, frame)
      BY <2>2 DEF frame
    <3>8. Range(trace') \subseteq Seen
      BY <3>2, <3>5, <3>6, <3>7 DEF Seen, OnItsWay
    <3> QED
      BY <3>6, <3>7, <3>8
  <2> QED
    BY <2>1, <2>2 DEF Attach
<1>4. NumbersAreUnique'
  <2>1. Seen' \subseteq Seen
    BY <1>2, <1>3 DEF Seen
  <2> QED
    BY <2>1 DEF FeedInv, NumbersAreUnique
<1>5. StreamInv'
  BY <1>1 DEF StreamInv
<1>6. FeedIsFaithful'
  BY <1>1, <1>3 DEF FeedIsFaithful, IsOf, Ascending
<1> QED
  BY <1>1, <1>3, <1>4, <1>5, <1>6 DEF FeedInv

\* A frame that is read goes into the feed.
LEMMA FeedReceive ==
    ASSUME TypeInv, FeedInv, Receive
    PROVE  FeedInv' /\ stream' \in Stream /\ trace' \in Seq(Event)
<1> DEFINE frame == Head(stream.frames)
           rest == Tail(stream.frames)
<1>1. /\ UNCHANGED <<log, saved, fresh, runId>> /\ stream \in Stream /\ trace \in Seq(Event)
      /\ stream.frames # << >>
      /\ stream' = [stream EXCEPT !.frames = rest]
  BY DEF Receive, server, store, TypeInv, ShownTypes
<1>2. /\ frame = stream.frames[1] /\ 1 \in DOMAIN stream.frames /\ frame \in Frame
      /\ rest \in Seq(Frame)
      /\ \A i \in DOMAIN rest : i + 1 \in DOMAIN stream.frames /\ i \in Nat \ {0}
                                /\ rest[i] = stream.frames[i + 1]
  BY <1>1, StreamType, TailLemma
<1>3. OnItsWay = Range(frame.events) \cup Carried(rest)
  BY <1>1, StreamType, CarriedLemma DEF OnItsWay
<1>4. /\ stream.run = runId /\ stream.state = "open"
      /\ IsFrameOf(frame, runId)
      /\ IsSnapshot(frame) => Of(runId) \cap saved \subseteq OnItsWay
  BY <1>1, <1>2, StreamType DEF FeedInv, StreamInv
<1>5. trace' = Dispatched(trace, frame)
  BY <1>4 DEF Receive, IsActive
<1> HIDE DEF frame, rest
<1>6. /\ stream' \in Stream /\ stream'.frames = rest
      /\ stream'.state = "open" /\ stream'.run = runId
  BY <1>1, <1>2, <1>4 DEF Stream
<1>7. OnItsWay' = Carried(rest)
  BY <1>6 DEF OnItsWay
<1>8. /\ Dispatched(trace, frame) \in Seq(Event)
      /\ IsOf(Dispatched(trace, frame), runId) /\ Ascending(Dispatched(trace, frame))
      /\ Range(frame.events) \subseteq Range(Dispatched(trace, frame))
      /\ Range(Dispatched(trace, frame)) \subseteq Range(trace) \cup Range(frame.events)
      /\ ~IsSnapshot(frame) => Range(trace) \subseteq Range(Dispatched(trace, frame))
  <2>1. IsOf(trace, runId) /\ Ascending(trace)
    BY DEF FeedInv, FeedIsFaithful, IsOf, Ascending
  <2>2. \A e \in Range(trace), f \in Range(frame.events) : e.n = f.n => e = f
    BY <1>3 DEF FeedInv, NumbersAreUnique, Seen
  <2> QED
    BY <1>1, <1>2, <1>4, <2>1, <2>2, DispatchedLemma
<1>9. (Of(runId) \cap saved)' = Of(runId) \cap saved
  BY <1>1 DEF Of
<1>10. NumbersAreUnique'
  <2>1. Seen' \subseteq Seen
    BY <1>1, <1>3, <1>5, <1>7, <1>8 DEF Seen
  <2> QED
    BY <1>1, <2>1 DEF FeedInv, NumbersAreUnique
<1>11. StreamInv'
  <2>1. ASSUME NEW i \in DOMAIN rest
        PROVE  IsFrameOf(rest[i], runId) /\ ~IsSnapshot(rest[i])
    <3>1. i + 1 \in DOMAIN stream.frames /\ i + 1 # 1 /\ rest[i] = stream.frames[i + 1]
      BY <1>2
    <3> QED
      BY <3>1 DEF FeedInv, StreamInv
  <2> QED
    BY <1>1, <1>6, <2>1 DEF StreamInv
<1>12. FeedIsFaithful'
  <2>1. Of(runId) \cap saved \subseteq Range(Dispatched(trace, frame)) \cup Carried(rest)
    <3>1. CASE IsSnapshot(frame)
      BY <1>3, <1>4, <1>8, <3>1
    <3>2. CASE ~IsSnapshot(frame)
      <4>1. Of(runId) \cap saved \subseteq Range(trace) \cup OnItsWay
        BY <1>4 DEF FeedInv, FeedIsFaithful
      <4> QED
        BY <1>3, <1>8, <3>2, <4>1
    <3> QED
      BY <3>1, <3>2
  <2>2. (Of(runId) \cap saved)' \subseteq Range(trace') \cup OnItsWay'
    BY <1>5, <1>7, <1>9, <2>1
  <2>3. IsOf(trace', runId') /\ Ascending(trace')
    BY <1>1, <1>5, <1>8
  <2> QED
    BY <2>2, <2>3 DEF FeedIsFaithful, IsOf, Ascending
<1> QED
  BY <1>5, <1>6, <1>8, <1>10, <1>11, <1>12 DEF FeedInv

-----------------------------------------------------------------------------
(* Types. *)

\* The types of the parts give the types of the whole.
LEMMA TypesTogether ==
    ASSUME TypeInv
    PROVE  TypeOK
<1>1. stream.state \in {"none", "connecting", "open"} /\ stream.run \in Runs \cup {NoRun}
  BY DEF TypeInv, Stream
<1>2. /\ listing.step \in {"idle", "asked", "answered"}
      /\ starting.step \in {"idle", "asked", "creating", "answered"}
  BY DEF TypeInv, AskedTypes
<1> QED
  BY <1>1, <1>2 DEF TypeInv, ServerTypes, ShownTypes, ReadsTypes, TypeOK

\* The id of a new run is free.
LEMMA NewRunIsFree ==
    ASSUME ServerTypes, used # Runs
    PROVE  NewRun \in Runs
BY DEF NewRun, ServerTypes

\* An event that is taken up: a loop that it will start has its place kept.
LEMMA ServerEmit ==
    ASSUME ServerTypes, NEW r \in Runs, NEW kind \in {"created", "step", "end"},
           Emit(r, kind), kind = "created" => HasRoom,
           handles' = handles, boot' = boot, used' \subseteq Runs
    PROVE  ServerTypes'
<1>1. PICK e : /\ e = [n |-> fresh, run |-> r, kind |-> kind] /\ task' = e
               /\ log' = log \cup {e} /\ fresh' = fresh + 1 /\ saved' = saved
  BY DEF Emit
<1>2. e \in Event /\ e.kind = kind /\ fresh \in Nat
  BY <1>1 DEF Event, ServerTypes
<1>3. IsFiniteSet(log')
  BY <1>1, FS_AddElement DEF ServerTypes
<1>4. kind = "created" => Cardinality(handles) < MaxConcurrent
  BY DEF HasRoom
<1> QED
  BY <1>1, <1>2, <1>3, <1>4 DEF ServerTypes

\* An event that has been written, whether it was saved or not: only a run that
\* was created gets a loop.
LEMMA ServerWrite ==
    ASSUME ServerTypes, task # NoTask, task' = NoTask, UNCHANGED <<log, used, fresh>>,
           saved' \subseteq saved \cup {task}, boot' \subseteq boot,
           \/ handles' \subseteq handles
           \/ task.kind = "created" /\ handles' = handles \cup {task.run}
    PROVE  ServerTypes'
<1>1. task \in log /\ task \in Event /\ task.run \in Runs /\ saved' \subseteq log
  BY EventType DEF ServerTypes
<1>2. task'.kind # "created"
  BY DEF NoTask
<1>3. MaxConcurrent \in Nat
  BY BoundsAssumption
<1>4. handles' \subseteq Runs /\ IsFiniteSet(handles') /\ Cardinality(handles') <= MaxConcurrent
  <2>1. IsFiniteSet(handles) /\ Cardinality(handles) \in Nat /\ handles \subseteq Runs
    BY FS_CardinalityType DEF ServerTypes
  <2>2. CASE handles' \subseteq handles
    <3>1. IsFiniteSet(handles') /\ Cardinality(handles') <= Cardinality(handles)
      BY <2>1, <2>2, FS_Subset
    <3>2. Cardinality(handles') \in Nat
      BY <3>1, FS_CardinalityType
    <3> QED
      BY <1>3, <2>1, <2>2, <3>1, <3>2 DEF ServerTypes
  <2>3. CASE task.kind = "created" /\ handles' = handles \cup {task.run}
    <3>1. /\ IsFiniteSet(handles')
          /\ Cardinality(handles') \in {Cardinality(handles), Cardinality(handles) + 1}
      BY <2>1, <2>3, FS_AddElement
    <3>2. Cardinality(handles) < MaxConcurrent
      BY <2>3 DEF ServerTypes
    <3> QED
      BY <1>1, <1>3, <2>1, <2>3, <3>1, <3>2
  <2> QED
    BY <2>2, <2>3
<1> QED
  BY <1>1, <1>2, <1>4 DEF ServerTypes

\* A server that has started again.
LEMMA ServerRestart ==
    ASSUME ServerTypes, Restart
    PROVE  ServerTypes' /\ log' \subseteq log
<1>1. /\ saved' \subseteq log /\ log' = saved' /\ task' = NoTask /\ handles' = {}
      /\ boot' \subseteq {e.run : e \in log'} /\ UNCHANGED <<used, fresh>>
  BY DEF Restart, ServerTypes
<1>2. IsFiniteSet(log') /\ log' \subseteq Event
  BY <1>1, FS_Subset DEF ServerTypes
<1>3. boot' \subseteq Runs
  BY <1>1, <1>2, EventType
<1>4. /\ IsFiniteSet(handles') /\ Cardinality(handles') <= MaxConcurrent /\ handles' \subseteq Runs
      /\ task'.kind # "created"
  BY <1>1, FS_EmptySet, BoundsAssumption DEF NoTask
<1> QED
  BY <1>1, <1>2, <1>3, <1>4 DEF ServerTypes

\* A request, typed; what becomes of one keeps who asked, and about which run.
LEMMA RequestType ==
    /\ \A q \in Request : /\ q.by \in {"get", "poll", "stop"} /\ q.run \in Runs
                          /\ q.step \in {"asked", "answered"} /\ q.ended \in BOOLEAN
                          /\ Answered(q) \in Request /\ Answered(q).by = q.by
                          /\ Answered(q).run = q.run /\ Answered(q).step = "answered"
                          /\ Aborted(q) \in Request /\ Aborted(q).by = q.by
                          /\ Aborted(q).run = q.run /\ Aborted(q).step = q.step
                          /\ q.by # "get" => Aborted(q) = q
    /\ \A by \in {"get", "poll", "stop"}, r \in Runs :
          /\ Ask(by, r) \in Request /\ Ask(by, r).by = by /\ Ask(by, r).run = r
<1>1. \A r : Ended(r) \in BOOLEAN
  BY DEF Ended
<1>2. ASSUME NEW q \in Request
      PROVE  /\ q.by \in {"get", "poll", "stop"} /\ q.run \in Runs
             /\ q.step \in {"asked", "answered"} /\ q.ended \in BOOLEAN
             /\ Answered(q) \in Request /\ Answered(q).by = q.by
             /\ Answered(q).run = q.run /\ Answered(q).step = "answered"
             /\ Aborted(q) \in Request /\ Aborted(q).by = q.by
             /\ Aborted(q).run = q.run /\ Aborted(q).step = q.step
             /\ q.by # "get" => Aborted(q) = q
  <2>1. /\ q.by \in {"get", "poll", "stop"} /\ q.run \in Runs
        /\ q.step \in {"asked", "answered"} /\ q.ended \in BOOLEAN
    BY DEF Request
  <2>2. /\ Answered(q) \in Request /\ Answered(q).by = q.by
        /\ Answered(q).run = q.run /\ Answered(q).step = "answered"
    BY <1>1 DEF Request, Answered
  <2>3. /\ Aborted(q) \in Request /\ Aborted(q).by = q.by
        /\ Aborted(q).run = q.run /\ Aborted(q).step = q.step
        /\ q.by # "get" => Aborted(q) = q
    BY DEF Request, Aborted
  <2> QED
    BY <2>1, <2>2, <2>3
<1>3. \A by \in {"get", "poll", "stop"}, r \in Runs :
          /\ Ask(by, r) \in Request /\ Ask(by, r).by = by /\ Ask(by, r).run = r
  BY DEF Ask, Request
<1> QED
  BY <1>2, <1>3

\* Requests that are as good as those before, with no more polls.
LEMMA ReadsShrink ==
    ASSUME ReadsTypes, reads' \subseteq Request, IsFiniteSet(reads'),
           \A q \in reads' : q.by = "poll" => q \in reads
    PROVE  ReadsTypes'
<1>1. Requests("poll")' \subseteq Requests("poll")
  BY DEF Requests
<1>2. IsFiniteSet(Requests("poll"))
  BY FS_Subset DEF ReadsTypes, Requests
<1>3. /\ IsFiniteSet(Requests("poll")')
      /\ Cardinality(Requests("poll")') <= Cardinality(Requests("poll"))
  BY <1>1, <1>2, FS_Subset
<1>4. Cardinality(Requests("poll")') <= MaxPolls
  BY <1>2, <1>3, FS_CardinalityType, BoundsAssumption DEF ReadsTypes
<1> QED
  BY <1>1, <1>4 DEF ReadsTypes

\* Aborting requests.
LEMMA AbortedLemma ==
    ASSUME ReadsTypes
    PROVE  /\ IsFiniteSet({Aborted(q) : q \in reads}) /\ {Aborted(q) : q \in reads} \subseteq Request
           /\ \A q \in {Aborted(p) : p \in reads} : q.by = "poll" => q \in reads
<1> DEFINE f == [q \in reads |-> Aborted(q)]
           T == {Aborted(q) : q \in reads}
<1>1. f \in Surjection(reads, T)
  BY DEF Surjection
<1>2. IsFiniteSet(T)
  BY <1>1, FS_Surjection DEF ReadsTypes
<1>3. \A q \in reads : /\ Aborted(q) \in Request /\ Aborted(q).by = q.by
                       /\ q.by # "get" => Aborted(q) = q
  BY RequestType DEF ReadsTypes
<1> QED
  BY <1>2, <1>3

\* Rendering only cancels polls.
LEMMA RenderedLemma ==
    ASSUME NEW next
    PROVE  /\ Rendered(next) \subseteq next
           /\ \A q \in next : q.by # "poll" => q \in Rendered(next)
BY DEF Rendered

\* The run that is taken from the list is a run.
LEMMA ReattachableLemma ==
    ASSUME ServerTypes, NumbersAreUnique
    PROVE  Reattachable \in Runs \cup {NoRun}
<1> DEFINE going == {e \in log : e.kind = "created" /\ ~Ended(e.run)}
<1>1. going \subseteq Event /\ \A e \in going : e.n < fresh /\ e.n \in Nat
  BY EventType DEF ServerTypes, NumbersAreUnique, Seen
<1>2. CASE going = {}
  BY <1>2 DEF Reattachable
<1>3. CASE going # {}
  <2> HIDE DEF going
  <2>1. \E e \in going : \A f \in going : f.n <= e.n
    <3> DEFINE N == {e.n : e \in going}
    <3>1. fresh \in Nat /\ N \in SUBSET (0..fresh) /\ N # {}
      BY <1>1, <1>3 DEF ServerTypes
    <3>2. \A e \in going : e.n \in N
      OBVIOUS
    <3>3. \A n \in N : \E e \in going : n = e.n
      OBVIOUS
    <3> HIDE DEF N
    <3>4. PICK n \in N : \A m \in N : m <= n
      BY <3>1, GreatestLemma
    <3> QED
      BY <3>2, <3>3, <3>4
  <2>2. (CHOOSE e \in going : \A f \in going : f.n <= e.n) \in going
    BY <2>1
  <2>3. Reattachable = (CHOOSE e \in going : \A f \in going : f.n <= e.n).run
    BY <1>3 DEF Reattachable, going
  <2> QED
    BY <1>1, <2>2, <2>3, EventType
<1> QED
  BY <1>2, <1>3

-----------------------------------------------------------------------------
(* What a step leaves alone. *)

\* The types of the parts that a step does not touch.
LEMMA ServerAlone ==
    ASSUME ServerTypes, UNCHANGED server
    PROVE  ServerTypes'
BY DEF ServerTypes, server, store

\* The same of what is shown.
LEMMA ShownAlone ==
    ASSUME ShownTypes, UNCHANGED shown
    PROVE  ShownTypes'
BY DEF ShownTypes, shown

\* The same of the requests for a record.
LEMMA ReadsAlone ==
    ASSUME ReadsTypes, UNCHANGED reads
    PROVE  ReadsTypes'
BY DEF ReadsTypes, Requests

\* The same of the other requests.
LEMMA AskedAlone ==
    ASSUME AskedTypes, UNCHANGED <<listing, starting>>
    PROVE  AskedTypes'
BY DEF AskedTypes

\* The record stays that of the run as long as a request for it goes on.
LEMMA RecordAlone ==
    ASSUME RecordIsOfRun, UNCHANGED <<runId, record, odd>>,
           \A q \in reads : q.by = "get" /\ q.run = runId =>
              \E p \in reads' : p.by = "get" /\ p.run = runId
    PROVE  RecordIsOfRun'
BY DEF RecordIsOfRun, Requests

-----------------------------------------------------------------------------
(* The steps. *)

\* A step that takes up an event.
LEMMA EmitStep ==
    ASSUME ViewInv, NEW r \in Runs, NEW kind \in {"created", "step", "end"},
           Emit(r, kind), kind = "created" => HasRoom,
           UNCHANGED <<handles, boot, shown, stream, reads, listing>>, used' \subseteq Runs,
           starting' = starting \/ starting' = [step |-> "creating", run |-> r]
    PROVE  ViewInv'
<1>1. ServerTypes'
  BY ServerEmit DEF ViewInv, TypeInv
<1>2. ShownTypes' /\ stream' \in Stream /\ ReadsTypes'
  BY ShownAlone, ReadsAlone DEF ViewInv, TypeInv
<1>3. AskedTypes'
  BY NoRunAssumption DEF ViewInv, TypeInv, AskedTypes
<1>4. FeedInv'
  BY FeedEmit DEF ViewInv, shown
<1>5. RecordIsOfRun'
  BY RecordAlone DEF ViewInv, shown
<1> QED
  BY <1>1, <1>2, <1>3, <1>4, <1>5 DEF ViewInv, TypeInv

\* A step of the server that answers, or of the environment, and leaves the
\* records, the feed and their requests alone.
LEMMA AskedStep ==
    ASSUME ViewInv, UNCHANGED <<server, shown, stream, reads>>, AskedTypes'
    PROVE  ViewInv'
<1>1. TypeInv'
  BY ServerAlone, ShownAlone, ReadsAlone DEF ViewInv, TypeInv
<1>2. FeedInv'
  BY FeedAlone DEF ViewInv, server, store, shown
<1>3. RecordIsOfRun'
  BY RecordAlone DEF ViewInv, shown
<1> QED
  BY <1>1, <1>2, <1>3 DEF ViewInv

\* A step that only changes the stream.
LEMMA StreamStep ==
    ASSUME ViewInv, UNCHANGED <<server, shown, reads, listing, starting>>,
           FeedInv', stream' \in Stream
    PROVE  ViewInv'
<1>1. TypeInv'
  BY ServerAlone, ShownAlone, ReadsAlone, AskedAlone DEF ViewInv, TypeInv
<1>2. RecordIsOfRun'
  BY RecordAlone DEF ViewInv, shown
<1> QED
  BY <1>1, <1>2 DEF ViewInv

\* The view turns to another run: it shows the record it was given, or has
\* asked for it.
LEMMA AttachStep ==
    ASSUME ViewInv, NEW r \in Runs, UNCHANGED server,
           AttachSeeded(r) \/ AttachUnread(r), AskedTypes'
    PROVE  ViewInv'
<1>1. /\ Attach(r) /\ runId' = r /\ stream' \in {NoStream, Connecting(r)}
      /\ UNCHANGED <<log, saved, fresh>>
  BY DEF AttachSeeded, AttachUnread, Attach, server, store
<1>2. FeedInv' /\ stream' \in Stream /\ trace' \in Seq(Event)
  BY <1>1, FeedAttach DEF ViewInv
<1>3. ShownTypes'
  <2>1. record' \in Record \cup {NoRecord}
    <3>1. [run |-> r, ended |-> FALSE] \in Record
      BY DEF Record
    <3>2. record' = record \/ record' = [run |-> r, ended |-> FALSE]
      BY DEF AttachSeeded, AttachUnread
    <3> QED
      BY <3>1, <3>2 DEF ViewInv, TypeInv, ShownTypes
  <2>2. odd' \in {"no", "late", "unread"}
    BY DEF AttachSeeded, AttachUnread, ViewInv, TypeInv, ShownTypes
  <2> QED
    BY <1>1, <1>2, <2>1, <2>2 DEF ShownTypes
<1> DEFINE was == {Aborted(q) : q \in reads}
           get == Ask("get", r)
<1>4. get \in Request /\ get.by = "get" /\ get.run = r
  BY RequestType
<1>5. /\ IsFiniteSet(was) /\ was \subseteq Request
      /\ \A q \in was : q.by = "poll" => q \in reads
  BY AbortedLemma DEF ViewInv, TypeInv
<1> HIDE DEF was, get
<1>6. CASE AttachSeeded(r)
  <2>1. reads' = Rendered(was) /\ record'.run = r
    BY <1>6 DEF AttachSeeded, was
  <2>2. reads' \subseteq was
    BY <2>1, RenderedLemma
  <2>3. IsFiniteSet(reads')
    BY <1>5, <2>2, FS_Subset
  <2>4. ReadsTypes'
    BY <1>5, <2>2, <2>3, ReadsShrink DEF ViewInv, TypeInv
  <2>5. RecordIsOfRun'
    BY <1>1, <2>1 DEF RecordIsOfRun
  <2> QED
    BY <1>2, <1>3, <2>4, <2>5, ServerAlone DEF ViewInv, TypeInv
<1>7. CASE AttachUnread(r)
  <2>1. reads' = Rendered(was \cup {get})
    BY <1>7 DEF AttachUnread, was, get
  <2>2. reads' \subseteq was \cup {get} /\ get \in reads'
    BY <1>4, <2>1, RenderedLemma
  <2>3. IsFiniteSet(was \cup {get})
    BY <1>5, FS_AddElement
  <2>4. IsFiniteSet(reads')
    BY <2>2, <2>3, FS_Subset
  <2>5. ReadsTypes'
    BY <1>4, <1>5, <2>2, <2>4, ReadsShrink DEF ViewInv, TypeInv
  <2>6. RecordIsOfRun'
    BY <1>1, <1>4, <2>2 DEF RecordIsOfRun, Requests
  <2> QED
    BY <1>2, <1>3, <2>5, <2>6, ServerAlone DEF ViewInv, TypeInv
<1> QED
  BY <1>6, <1>7

\* A request that fails: if the record of the run that is shown was asked for,
\* it is noted that it could not be fetched.
LEMMA DroppedStep ==
    ASSUME ViewInv, NEW q \in reads, Dropped(q),
           UNCHANGED <<server, stream, listing, starting>>
    PROVE  ViewInv'
<1>1. /\ reads' = reads \ {q} /\ UNCHANGED <<runId, record, trace>>
      /\ odd' \in {odd, "unread"}
      /\ q.by = "get" /\ q.run = runId => odd' = "unread"
      /\ ~(q.by = "get" /\ q.run = runId) => odd' = odd
  BY DEF Dropped, IsActive
<1>2. ReadsTypes'
  <2>1. IsFiniteSet(reads') /\ reads' \subseteq Request
    BY <1>1, FS_Subset DEF ViewInv, TypeInv, ReadsTypes
  <2> QED
    BY <1>1, <2>1, ReadsShrink DEF ViewInv, TypeInv
<1>3. ShownTypes'
  BY <1>1 DEF ViewInv, TypeInv, ShownTypes
<1>4. FeedInv'
  BY <1>1, FeedAlone DEF ViewInv, server, store
<1>5. RecordIsOfRun'
  <2>1. CASE q.by = "get" /\ q.run = runId
    BY <1>1, <2>1 DEF RecordIsOfRun
  <2>2. CASE ~(q.by = "get" /\ q.run = runId)
    BY <1>1, <2>2, RecordAlone DEF ViewInv
  <2> QED
    BY <2>1, <2>2
<1> QED
  BY <1>2, <1>3, <1>4, <1>5, ServerAlone, AskedAlone DEF ViewInv, TypeInv

\* A request that is answered.
LEMMA ServeStep ==
    ASSUME ViewInv, NEW q \in reads, Serve(q)
    PROVE  ViewInv'
<1>1. UNCHANGED <<server, stream, listing, starting>> /\ q.step = "asked"
  BY DEF Serve
<1>2. CASE Of(q.run) = {}
  BY <1>1, <1>2, DroppedStep DEF Serve
<1>3. CASE Of(q.run) # {}
  <2>1. reads' = (reads \ {q}) \cup {Answered(q)} /\ UNCHANGED shown
    BY <1>3 DEF Serve
  <2>2. /\ q \in Request /\ Answered(q) \in Request
        /\ Answered(q).by = q.by /\ Answered(q).run = q.run
    BY RequestType DEF ViewInv, TypeInv, ReadsTypes
  <2>3. q.by # "poll"
    BY <1>1 DEF ViewInv, TypeInv, ReadsTypes, Requests
  <2>4. IsFiniteSet(reads')
    <3>1. IsFiniteSet(reads \ {q})
      BY FS_RemoveElement DEF ViewInv, TypeInv, ReadsTypes
    <3> QED
      BY <2>1, <3>1, FS_AddElement
  <2>5. ReadsTypes'
    BY <2>1, <2>2, <2>3, <2>4, ReadsShrink DEF ViewInv, TypeInv, ReadsTypes
  <2>6. FeedInv'
    BY <1>1, <2>1, FeedAlone DEF ViewInv, server, store, shown
  <2>7. RecordIsOfRun'
    BY <2>1, <2>2, RecordAlone DEF ViewInv, shown
  <2> QED
    BY <1>1, <2>1, <2>5, <2>6, <2>7, ServerAlone, ShownAlone, AskedAlone DEF ViewInv, TypeInv
<1> QED
  BY <1>2, <1>3

\* An answer that arrives: what is shown by it is the record of the run that is
\* shown, or it is noted that it is the late answer to a stop.
LEMMA DeliverStep ==
    ASSUME ViewInv, NEW q \in reads, Deliver(q)
    PROVE  ViewInv'
<1>1. /\ UNCHANGED <<server, listing, starting, runId, trace>>
      /\ stream' = stream \/ (stream' = Connecting(runId) /\ runId \in Runs)
  <2>1. q.run \in Runs
    BY RequestType DEF ViewInv, TypeInv, ReadsTypes
  <2> QED
    BY <2>1 DEF Deliver, SetRecord, shown, IsActive
<1>2. FeedInv' /\ stream' \in Stream
  <2>1. CASE stream' = stream
    BY <1>1, <2>1, FeedAlone DEF ViewInv, TypeInv, server, store
  <2>2. CASE stream' = Connecting(runId) /\ runId \in Runs
    BY <1>1, <2>2, FeedClosed DEF ViewInv, server, store
  <2> QED
    BY <1>1, <2>1, <2>2
<1>3. reads' \subseteq reads \ {q}
  BY RenderedLemma DEF Deliver, SetRecord
<1>4. ReadsTypes'
  <2>1. IsFiniteSet(reads') /\ reads' \subseteq Request
    BY <1>3, FS_Subset DEF ViewInv, TypeInv, ReadsTypes
  <2> QED
    BY <1>3, <2>1, ReadsShrink DEF ViewInv, TypeInv
<1>5. ShownTypes' /\ RecordIsOfRun'
  <2>1. CASE IsTaken(q)
    <3>1. /\ record' = [run |-> q.run, ended |-> q.ended]
          /\ odd' = IF q.by = "stop" /\ q.run # runId THEN "late" ELSE "no"
          /\ q.by = "stop" \/ q.run = runId
      BY <2>1 DEF Deliver, SetRecord, IsTaken, IsActive
    <3>2. record' \in Record /\ record'.run = q.run
      BY <3>1, RequestType DEF ViewInv, TypeInv, ReadsTypes, Record
    <3>3. q.run = runId \/ odd' = "late"
      BY <3>1
    <3> QED
      BY <1>1, <3>1, <3>2, <3>3 DEF ViewInv, TypeInv, ShownTypes, RecordIsOfRun
  <2>2. CASE ~IsTaken(q)
    <3>1. reads' = reads \ {q} /\ UNCHANGED shown /\ q.run # runId
      BY <2>2 DEF Deliver, IsTaken, IsActive
    <3>2. RecordIsOfRun'
      BY <3>1, RecordAlone DEF ViewInv, shown
    <3> QED
      BY <3>1, <3>2, ShownAlone DEF ViewInv, TypeInv
  <2> QED
    BY <2>1, <2>2
<1> QED
  BY <1>1, <1>2, <1>4, <1>5, ServerAlone, AskedAlone DEF ViewInv, TypeInv

\* A request that the view makes: of the polls there are no more than allowed.
LEMMA AskStep ==
    ASSUME ViewInv, UNCHANGED <<server, shown, stream, listing, starting>>,
           NEW q \in Request, reads' = reads \cup {q},
           q.by = "poll" => Cardinality(Requests("poll")) < MaxPolls /\ q.step = "answered"
    PROVE  ViewInv'
<1>1. IsFiniteSet(reads') /\ reads' \subseteq Request
  BY FS_AddElement DEF ViewInv, TypeInv, ReadsTypes
<1>2. ReadsTypes'
  <2>1. CASE q.by # "poll"
    BY <1>1, <2>1, ReadsShrink DEF ViewInv, TypeInv
  <2>2. CASE q.by = "poll"
    <3>1. Requests("poll")' = Requests("poll") \cup {q}
      BY <2>2 DEF Requests
    <3>2. IsFiniteSet(Requests("poll")) /\ Cardinality(Requests("poll")) \in Nat
      BY FS_Subset, FS_CardinalityType DEF ViewInv, TypeInv, ReadsTypes, Requests
    <3>3. Cardinality(Requests("poll") \cup {q}) \in
             {Cardinality(Requests("poll")), Cardinality(Requests("poll")) + 1}
      BY <3>2, FS_AddElement
    <3>4. Cardinality(Requests("poll")') <= MaxPolls
      <4>1. MaxPolls \in Nat
        BY BoundsAssumption
      <4>2. Cardinality(Requests("poll") \cup {q}) <= MaxPolls
        BY <2>2, <3>2, <3>3, <4>1
      <4> QED
        BY <3>1, <4>2
    <3>5. \A p \in Requests("poll")' : p.step = "answered"
      BY <2>2, <3>1 DEF ViewInv, TypeInv, ReadsTypes
    <3> QED
      BY <1>1, <3>4, <3>5 DEF ReadsTypes
  <2> QED
    BY <2>1, <2>2
<1>3. FeedInv'
  BY FeedAlone DEF ViewInv, server, store, shown
<1>4. RecordIsOfRun'
  BY RecordAlone DEF ViewInv, shown
<1> QED
  BY <1>2, <1>3, <1>4, ServerAlone, ShownAlone, AskedAlone DEF ViewInv, TypeInv

\* An event that is on disk, or could not be brought there.
LEMMA WriteStep ==
    ASSUME ViewInv, Write \/ WriteFails
    PROVE  ViewInv'
<1>1. ServerTypes'
  <2>1. /\ task # NoTask /\ task' = NoTask /\ UNCHANGED <<log, used, fresh>>
        /\ saved' \subseteq saved \cup {task} /\ boot' \subseteq boot
    BY DEF Write, WriteFails
  <2>2. \/ handles' \subseteq handles
        \/ task.kind = "created" /\ handles' = handles \cup {task.run}
    <3>1. task \in Event
      BY <2>1 DEF ViewInv, TypeInv, ServerTypes
    <3>2. task.kind \in {"created", "step", "end"}
      BY <3>1, EventType
    <3> QED
      BY <3>2 DEF Write, WriteFails
  <2> QED
    BY <2>1, <2>2, ServerWrite DEF ViewInv, TypeInv
<1>2. UNCHANGED <<shown, reads, listing>>
  BY DEF Write, WriteFails
<1>3. AskedTypes'
  <2>1. /\ listing' = listing
        /\ starting' \in {starting, Idle, [starting EXCEPT !.step = "answered"]}
        /\ starting' = [starting EXCEPT !.step = "answered"] => starting' = starting \/ starting.run # NoRun
    <3>1. task # NoTask => task.run \in Runs
      BY EventType DEF ViewInv, TypeInv, ServerTypes
    <3> QED
      BY <3>1, NoRunAssumption DEF Write, WriteFails, IsOfView, Idle
  <2> QED
    BY <2>1 DEF ViewInv, TypeInv, AskedTypes, Idle
<1>4. FeedInv' /\ stream' \in Stream
  <2>1. CASE Write
    BY <2>1, FeedWrite DEF ViewInv
  <2>2. CASE WriteFails
    BY <2>2, FeedAlone DEF WriteFails, shown, ViewInv, TypeInv
  <2> QED
    BY <2>1, <2>2
<1>5. RecordIsOfRun'
  BY <1>2, RecordAlone DEF ViewInv, shown
<1> QED
  BY <1>1, <1>2, <1>3, <1>4, <1>5, ShownAlone, ReadsAlone DEF ViewInv, TypeInv

\* A server that starts again: a view that was fetching the record has not got
\* it.
LEMMA RestartStep ==
    ASSUME ViewInv, Restart
    PROVE  ViewInv'
<1>1. ServerTypes' /\ log' \subseteq log
  BY ServerRestart DEF ViewInv, TypeInv
<1>2. /\ UNCHANGED <<fresh, runId, record, trace>> /\ stream' = NoStream
      /\ reads' = {q \in reads : q.step = "answered"}
      /\ odd' \in {odd, "unread"}
      /\ (\E q \in reads \ reads' : q.by = "get" /\ q.run = runId) => odd' = "unread"
      /\ ~(\E q \in reads \ reads' : q.by = "get" /\ q.run = runId) => odd' = odd
      /\ listing' \in {listing, Idle} /\ starting' \in {starting, Idle}
  BY DEF Restart, IsActive
<1>3. FeedInv' /\ stream' \in Stream
  BY <1>1, <1>2, FeedClosed DEF ViewInv
<1>4. ShownTypes'
  BY <1>2 DEF ViewInv, TypeInv, ShownTypes
<1>5. ReadsTypes'
  <2>1. IsFiniteSet(reads') /\ reads' \subseteq Request
    BY <1>2, FS_Subset DEF ViewInv, TypeInv, ReadsTypes
  <2> QED
    BY <1>2, <2>1, ReadsShrink DEF ViewInv, TypeInv
<1>6. AskedTypes'
  BY <1>2 DEF ViewInv, TypeInv, AskedTypes, Idle
<1>7. RecordIsOfRun'
  <2>1. CASE \E q \in reads \ reads' : q.by = "get" /\ q.run = runId
    BY <1>2, <2>1 DEF RecordIsOfRun
  <2>2. CASE ~(\E q \in reads \ reads' : q.by = "get" /\ q.run = runId)
    BY <1>2, <2>2, RecordAlone DEF ViewInv
  <2> QED
    BY <2>1, <2>2
<1> QED
  BY <1>1, <1>3, <1>4, <1>5, <1>6, <1>7 DEF ViewInv, TypeInv

-----------------------------------------------------------------------------
(* The theorems. *)

\* The invariant holds in the beginning.
LEMMA ViewInit ==
    ASSUME Init
    PROVE  ViewInv
<1>1. ServerTypes
  BY FS_EmptySet, BoundsAssumption DEF Init, ServerTypes, NoTask
<1>2. ShownTypes
  BY EmptySeq DEF Init, ShownTypes, NoRecord
<1>3. stream = NoStream /\ stream \in Stream
  BY ClosedStream DEF Init
<1>4. ReadsTypes
  <2>1. reads = {} /\ Requests("poll") = {}
    BY DEF Init, Requests
  <2> QED
    BY <2>1, FS_EmptySet, BoundsAssumption DEF ReadsTypes
<1>5. AskedTypes
  BY DEF Init, AskedTypes, Idle
<1>6. OnItsWay = {} /\ Range(trace) = {} /\ Seen = {}
  BY <1>3, ClosedStream, CarriedLemma DEF Init, OnItsWay, Range, Seen
<1>7. NumbersAreUnique
  BY <1>6 DEF NumbersAreUnique
<1>8. StreamInv
  BY <1>3, ClosedStream DEF StreamInv
<1>9. FeedIsFaithful
  BY <1>3, ClosedStream DEF Init, FeedIsFaithful
<1>10. RecordIsOfRun
  BY DEF Init, RecordIsOfRun, NoRecord
<1> QED
  BY <1>1, <1>2, <1>3, <1>4, <1>5, <1>7, <1>8, <1>9, <1>10 DEF ViewInv, TypeInv, FeedInv

\* Every step keeps it.
LEMMA ViewNext ==
    ASSUME ViewInv, [Next]_vars
    PROVE  ViewInv'
<1>t. ServerTypes /\ AskedTypes /\ FeedInv /\ stream \in Stream
  BY DEF ViewInv, TypeInv
<1>1. ASSUME NEW r \in Runs, Step(r) PROVE ViewInv'
  <2>1. Emit(r, "step") /\ UNCHANGED <<handles, boot, used, shown, stream, reads, listing, starting>>
    BY <1>1 DEF Step, view
  <2> QED
    BY <1>t, <2>1, EmitStep DEF ServerTypes
<1>2. ASSUME NEW r \in Runs, End(r) PROVE ViewInv'
  <2>1. Emit(r, "end") /\ UNCHANGED <<handles, boot, used, shown, stream, reads, listing, starting>>
    BY <1>2 DEF End, view
  <2> QED
    BY <1>t, <2>1, EmitStep DEF ServerTypes
<1>3. ASSUME Create, UNCHANGED <<handles, boot, shown, stream, reads, listing>>,
             starting' = starting \/ starting' = [step |-> "creating", run |-> NewRun]
      PROVE  ViewInv'
  <2>1. HasRoom /\ Emit(NewRun, "created") /\ used' = used \cup {NewRun} /\ used # Runs
    BY <1>3 DEF Create
  <2>2. PICK r \in Runs : r = NewRun
    BY <1>t, <2>1, NewRunIsFree
  <2>3. used' \subseteq Runs
    BY <1>t, <2>1, <2>2 DEF ServerTypes
  <2>4. Emit(r, "created") /\ (starting' = starting \/ starting' = [step |-> "creating", run |-> r])
    BY <1>3, <2>1, <2>2
  <2> QED
    BY <1>3, <2>1, <2>3, <2>4, EmitStep
<1>4. CASE CreateForOther
  BY <1>3, <1>4 DEF CreateForOther, view
<1>5. CASE CreateForView
  BY <1>3, <1>5 DEF CreateForView
<1>6. CASE Refuse \/ ClickStart \/ ListFails \/ StartFails
  <2>1. UNCHANGED <<server, shown, stream, reads>>
    BY <1>6 DEF Refuse, ClickStart, ListFails, StartFails
  <2>2. AskedTypes'
    BY <1>t, <1>6 DEF Refuse, ClickStart, ListFails, StartFails, AskedTypes, Idle
  <2> QED
    BY <2>1, <2>2, AskedStep
<1>7. CASE Write \/ WriteFails
  BY <1>7, WriteStep
<1>8. CASE Connect
  BY <1>8, FeedConnect, StreamStep DEF Connect, ViewInv
<1>9. CASE ServeList
  <2>1. UNCHANGED <<server, shown, stream, reads, starting>>
    BY <1>9 DEF ServeList
  <2>2. Reattachable \in Runs \cup {NoRun}
    BY <1>t, ReattachableLemma DEF FeedInv
  <2>3. AskedTypes'
    BY <1>t, <1>9, <2>1, <2>2 DEF ServeList, AskedTypes, Idle
  <2> QED
    BY <2>1, <2>3, AskedStep
<1>10. CASE ClickStop
  <2>1. /\ UNCHANGED <<server, shown, stream, listing, starting>> /\ runId \in Runs
        /\ reads' = reads \cup {Ask("stop", runId)}
    BY <1>10 DEF ClickStop, ViewInv, TypeInv, ShownTypes
  <2>2. Ask("stop", runId) \in Request /\ Ask("stop", runId).by # "poll"
    BY <2>1, RequestType
  <2>3. PICK q \in Request : q = Ask("stop", runId)
    BY <2>2
  <2> QED
    BY <2>1, <2>2, <2>3, AskStep
<1>11. CASE Poll
  <2>1. /\ UNCHANGED <<server, shown, stream, listing, starting>> /\ runId \in Runs
        /\ Cardinality(Requests("poll")) < MaxPolls
        /\ reads' = reads \cup {Answered(Ask("poll", runId))}
    BY <1>11 DEF Poll, ViewInv, TypeInv, ShownTypes
  <2>2. PICK q \in Request : q = Answered(Ask("poll", runId)) /\ q.step = "answered"
    BY <2>1, RequestType
  <2> QED
    BY <2>1, <2>2, AskStep
<1>12. CASE DeliverList
  <2>1. /\ listing.run \in Runs /\ AttachUnread(listing.run) /\ UNCHANGED <<server, starting>>
        /\ listing' = Idle
    BY <1>t, <1>12 DEF DeliverList, AskedTypes
  <2>2. AskedTypes'
    BY <1>t, <2>1 DEF AskedTypes, Idle
  <2>3. PICK r \in Runs : r = listing.run
    BY <2>1
  <2> QED
    BY <2>1, <2>2, <2>3, AttachStep
<1>13. CASE DeliverStart
  <2>1. /\ starting.run \in Runs /\ AttachSeeded(starting.run) /\ UNCHANGED <<server, listing>>
        /\ starting' = Idle
    BY <1>t, <1>13 DEF DeliverStart, AskedTypes
  <2>2. AskedTypes'
    BY <1>t, <2>1 DEF AskedTypes, Idle
  <2>3. PICK r \in Runs : r = starting.run
    BY <2>1
  <2> QED
    BY <2>1, <2>2, <2>3, AttachStep
<1>14. CASE Receive
  <2>1. FeedInv' /\ stream' \in Stream /\ trace' \in Seq(Event)
    BY <1>14, FeedReceive DEF ViewInv
  <2>2. UNCHANGED <<server, runId, record, odd, reads, listing, starting>>
    BY <1>14 DEF Receive
  <2>3. ShownTypes'
    BY <2>1, <2>2 DEF ViewInv, TypeInv, ShownTypes
  <2>4. RecordIsOfRun'
    BY <2>2, RecordAlone DEF ViewInv
  <2> QED
    BY <2>1, <2>2, <2>3, <2>4, ServerAlone, ReadsAlone, AskedAlone DEF ViewInv, TypeInv
<1>15. ASSUME NEW q \in reads, Serve(q) \/ Deliver(q) \/ RequestFails(q)
       PROVE  ViewInv'
  <2>1. CASE Serve(q)
    BY <2>1, ServeStep
  <2>2. CASE Deliver(q)
    BY <2>2, DeliverStep
  <2>3. CASE RequestFails(q)
    BY <2>3, DroppedStep DEF RequestFails
  <2> QED
    BY <1>15, <2>1, <2>2, <2>3
<1>16. CASE Break
  <2>1. UNCHANGED <<server, shown, reads, listing, starting>> /\ stream' = NoStream
    BY <1>16 DEF Break
  <2>2. FeedInv' /\ stream' \in Stream
    BY <2>1, FeedClosed DEF ViewInv, server, store, shown
  <2> QED
    BY <2>1, <2>2, StreamStep
<1>17. CASE Restart
  BY <1>17, RestartStep
<1>18. CASE UNCHANGED vars
  BY <1>t, <1>18, AskedStep, AskedAlone DEF vars, view
<1> QED
  BY <1>1, <1>2, <1>4, <1>5, <1>6, <1>7, <1>8, <1>9, <1>10, <1>11, <1>12, <1>13, <1>14, <1>15,
     <1>16, <1>17, <1>18 DEF Next

\* The inductive invariant of the view.
THEOREM ViewStaysSound == Spec => []ViewInv
<1>1. Init => ViewInv
  BY ViewInit
<1>2. ViewInv /\ [Next]_vars => ViewInv'
  BY ViewNext
<1> QED
  BY <1>1, <1>2, PTL DEF Spec

\* Every variable has its type, and the server never runs more loops than it
\* may: a run that is being created has its place kept, also while the event
\* of another is written.
THEOREM ViewTypes == Spec => []TypeOK
<1>1. ViewInv => TypeOK
  BY TypesTogether DEF ViewInv
<1> QED
  BY <1>1, ViewStaysSound, PTL

\* The feed is that of the run that is shown, in order and without repetition,
\* and with an open stream it misses nothing that was saved, whatever the
\* interleaving of snapshots, events, attaches and restarts.
THEOREM FeedStaysFaithful == Spec => []FeedIsFaithful
<1>1. ViewInv => FeedIsFaithful
  BY DEF ViewInv, FeedInv
<1> QED
  BY <1>1, ViewStaysSound, PTL

\* The record shown is that of the run whose feed is shown, unless it is being
\* fetched, could not be, or a stop of another run was answered late.
THEOREM RecordStaysOfRun == Spec => []RecordIsOfRun
<1>1. ViewInv => RecordIsOfRun
  BY DEF ViewInv
<1> QED
  BY <1>1, ViewStaysSound, PTL
=============================================================================

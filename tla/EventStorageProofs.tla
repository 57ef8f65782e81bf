------------------------- MODULE EventStorageProofs -------------------------
(***************************************************************************)
(* Theorems about EventStorage, for every value of its constants.          *)
(***************************************************************************)
EXTENDS EventStorage, SequenceLemmas, FiniteSetTheorems, WellFoundedInduction, TLAPS

-----------------------------------------------------------------------------
(* Numbering a batch.                                                      *)

\* Rank numbers a finite set of naturals from 1 to its cardinality without
\* gaps: this is how the accepted events of a batch take their revisions.
LEMMA RankOnto ==
    ASSUME NEW S \in SUBSET Nat, IsFiniteSet(S)
    PROVE  /\ Cardinality(S) \in Nat
           /\ \A k \in 1..Cardinality(S) : \E i \in S : Rank(S, i) = k
           /\ \A i \in S : Rank(S, i) \in 1..Cardinality(S)
           /\ \A i, j \in S : Rank(S, i) = Rank(S, j) => i = j
<1> DEFINE key == [i \in S |-> i]
<1>1. \A i \in S : key[i] \in Nat /\ Place(S, key, i) = Rank(S, i)
  <2>1. \A i \in S : {j \in S : key[j] <= key[i]} = {j \in S : j <= i}
    OBVIOUS
  <2> QED
    BY <2>1 DEF Rank, Place
<1>2. \A i, j \in S : key[i] = key[j] => i = j
  OBVIOUS
<1> HIDE DEF key
<1>3. /\ Cardinality(S) \in Nat
      /\ \A i \in S : Place(S, key, i) \in 1..Cardinality(S)
      /\ \A k \in 1..Cardinality(S) : \E i \in S : Place(S, key, i) = k
      /\ \A i, j \in S : Place(S, key, i) = Place(S, key, j) => i = j
      /\ \A i, j \in S : Place(S, key, i) < Place(S, key, j) => key[i] < key[j]
  BY <1>1, <1>2, PlaceLemma
<1> QED
  BY <1>1, <1>3

-----------------------------------------------------------------------------
(* The events a batch adds.                                                *)

\* What NewEvents returns: events of the request, of ids that nothing is
\* stored under, each id once.
LEMMA NewEventsFacts ==
    ASSUME TypeOK, NEW req \in Requests
    PROVE  /\ NewEvents(req) \in Seq(Event)
           /\ Len(NewEvents(req)) \in Nat
           /\ DOMAIN NewEvents(req) = 1..Len(NewEvents(req))
           /\ \A k \in DOMAIN NewEvents(req) :
                 /\ ~Stored(NewEvents(req)[k].id)
                 /\ \E i \in Accepted(req) : NewEvents(req)[k] = req.events[i]
           /\ \A k, l \in DOMAIN NewEvents(req) :
                 NewEvents(req)[k].id = NewEvents(req)[l].id => k = l
           /\ \A i \in Accepted(req) : \E k \in DOMAIN NewEvents(req) :
                 NewEvents(req)[k] = req.events[i]
<1> DEFINE A == Accepted(req)
           n == Cardinality(A)
           At(k) == CHOOSE i \in A : Rank(A, i) = k
<1>1. req.events \in Seq(Event)
  BY RequestsAssumption
<1>2. A \in SUBSET DOMAIN req.events /\ DOMAIN req.events = 1..Len(req.events)
  BY <1>1 DEF Accepted
<1>3. A \in SUBSET Nat
  BY <1>1, <1>2
<1>4. IsFiniteSet(A)
  <2>1. Len(req.events) \in Nat /\ IsFiniteSet(1..Len(req.events))
    BY <1>1, FS_Interval
  <2> QED
    BY <1>2, <2>1, FS_Subset
<1>5. /\ n \in Nat /\ \A k \in 1..n : \E i \in A : Rank(A, i) = k
      /\ \A i \in A : Rank(A, i) \in 1..n
      /\ \A i, j \in A : Rank(A, i) = Rank(A, j) => i = j
  BY <1>3, <1>4, RankOnto
<1>6. \A k \in 1..n : At(k) \in A /\ Rank(A, At(k)) = k
  BY <1>5
<1>7. NewEvents(req) = [k \in 1..n |-> req.events[At(k)]]
  BY DEF NewEvents
<1>8. \A i \in A : /\ req.events[i] \in Event
                   /\ ~Stored(req.events[i].id)
                   /\ ~Refused(req, i)
                   /\ \A j \in 1..(i - 1) : req.events[j].id = req.events[i].id => Refused(req, j)
  BY <1>1, <1>2 DEF Accepted
<1>9. \A i, j \in A : req.events[i].id = req.events[j].id => i = j
  <2> SUFFICES ASSUME NEW i \in A, NEW j \in A, req.events[i].id = req.events[j].id, i < j
               PROVE  FALSE
    BY <1>3
  <2>1. i \in 1..(j - 1)
    BY <1>1, <1>2
  <2> QED
    BY <1>8, <2>1
<1> HIDE DEF A, n, At
<1>10. NewEvents(req) \in Seq(Event) /\ Len(NewEvents(req)) = n /\ DOMAIN NewEvents(req) = 1..n
  BY <1>5, <1>6, <1>7, <1>8
<1>11. ASSUME NEW k \in 1..n, NEW l \in 1..n, NewEvents(req)[k].id = NewEvents(req)[l].id
       PROVE  k = l
  <2>1. At(k) = At(l)
    BY <1>6, <1>7, <1>9, <1>11
  <2> QED
    BY <1>6, <2>1
<1>12. ASSUME NEW k \in 1..n
       PROVE  /\ ~Stored(NewEvents(req)[k].id)
              /\ \E i \in Accepted(req) : NewEvents(req)[k] = req.events[i]
  BY <1>6, <1>7, <1>8 DEF A
<1>13. ASSUME NEW i \in A
       PROVE  \E k \in DOMAIN NewEvents(req) : NewEvents(req)[k] = req.events[i]
  <2>1. Rank(A, i) \in 1..n /\ At(Rank(A, i)) = i
    BY <1>5, <1>6
  <2> QED
    BY <1>7, <1>10, <2>1
<1> QED
  BY <1>5, <1>10, <1>11, <1>12, <1>13 DEF A

\* Where a batch names no id twice, the record written for an accepted event is
\* that event under the revision it took.
LEMMA RecordsFacts ==
    ASSUME TypeOK, DistinctIds, NEW req \in Requests
    PROVE  /\ Records(req) \in Seq(Record)
           /\ DOMAIN Records(req) = DOMAIN NewEvents(req)
           /\ \A k \in DOMAIN NewEvents(req) :
                 Records(req)[k] = [rev |-> revision + k, event |-> NewEvents(req)[k]]
<1>1. req.events \in Seq(Event)
  BY RequestsAssumption
<1>2. ASSUME NEW k \in DOMAIN NewEvents(req)
      PROVE  FindById(req, NewEvents(req)[k].id) = NewEvents(req)[k]
  <2>1. PICK i \in Accepted(req) : NewEvents(req)[k] = req.events[i]
    BY NewEventsFacts
  <2>2. i \in DOMAIN req.events /\ DOMAIN req.events = 1..Len(req.events)
    BY <1>1 DEF Accepted
  <2> DEFINE P(m) == /\ req.events[m].id = NewEvents(req)[k].id
                     /\ \A j \in 1..(m - 1) : req.events[j].id # NewEvents(req)[k].id
  <2>3. \A j \in DOMAIN req.events : req.events[j].id = NewEvents(req)[k].id => j = i
    BY <2>1, <2>2 DEF DistinctIds
  <2>4. P(i)
    <3> SUFFICES ASSUME NEW j \in 1..(i - 1), req.events[j].id = NewEvents(req)[k].id
                 PROVE  FALSE
      BY <2>1
    <3>1. j \in DOMAIN req.events /\ j # i
      BY <1>1, <2>2
    <3> QED
      BY <2>3, <3>1
  <2>5. (CHOOSE m \in DOMAIN req.events : P(m)) = i
    BY <2>2, <2>3, <2>4
  <2> QED
    BY <2>1, <2>5 DEF FindById
<1>3. \A k \in DOMAIN NewEvents(req) :
         Records(req)[k] = [rev |-> revision + k, event |-> NewEvents(req)[k]]
  BY <1>2 DEF Records
<1>4. ASSUME NEW k \in DOMAIN NewEvents(req)
      PROVE  Records(req)[k] \in Record
  <2>1. revision + k \in Nat /\ NewEvents(req)[k] \in Event
    BY NewEventsFacts DEF TypeOK
  <2>2. Records(req)[k] = [rev |-> revision + k, event |-> NewEvents(req)[k]]
    BY <1>3
  <2> QED
    BY <2>1, <2>2 DEF Record
<1> QED
  BY <1>3, <1>4, NewEventsFacts DEF Records

\* Memory after a push: the new events under the next revisions, and everything
\* else as it was.
LEMMA MemoryAfter ==
    ASSUME TypeOK, NEW req \in Requests
    PROVE  /\ \A k \in DOMAIN NewEvents(req) :
                 /\ EventAfter(req, NewEvents(req)[k].id) = NewEvents(req)[k]
                 /\ RevisionAfter(req, NewEvents(req)[k].id) = revision + k
           /\ \A id \in Ids :
                 \/ \E k \in DOMAIN NewEvents(req) :
                       /\ NewEvents(req)[k].id = id
                       /\ ~Stored(id)
                 \/ /\ EventAfter(req, id) = eventsById[id]
                    /\ RevisionAfter(req, id) = eventRevisionsById[id]
           /\ \A id \in Ids : /\ EventAfter(req, id) \in Event \cup {NoEvent}
                              /\ RevisionAfter(req, id) \in Nat
<1>1. ASSUME NEW k \in DOMAIN NewEvents(req)
      PROVE  /\ IsNew(req, NewEvents(req)[k].id)
             /\ NewIndex(req, NewEvents(req)[k].id) = k
  BY NewEventsFacts DEF IsNew, NewIndex
<1>2. \A k \in DOMAIN NewEvents(req) :
         /\ EventAfter(req, NewEvents(req)[k].id) = NewEvents(req)[k]
         /\ RevisionAfter(req, NewEvents(req)[k].id) = revision + k
  BY <1>1 DEF EventAfter, RevisionAfter
<1>3. \A id \in Ids : ~IsNew(req, id) =>
         /\ EventAfter(req, id) = eventsById[id]
         /\ RevisionAfter(req, id) = eventRevisionsById[id]
  BY DEF EventAfter, RevisionAfter
<1>4. \A id \in Ids : IsNew(req, id) =>
         \E k \in DOMAIN NewEvents(req) : NewEvents(req)[k].id = id /\ ~Stored(id)
  BY NewEventsFacts DEF IsNew
<1>5. \A k \in DOMAIN NewEvents(req) : NewEvents(req)[k] \in Event /\ revision + k \in Nat
  BY NewEventsFacts DEF TypeOK
<1>6. \A id \in Ids : eventsById[id] \in Event \cup {NoEvent} /\ eventRevisionsById[id] \in Nat
  BY DEF TypeOK
<1>7. \A id \in Ids : /\ EventAfter(req, id) \in Event \cup {NoEvent}
                      /\ RevisionAfter(req, id) \in Nat
  BY <1>2, <1>3, <1>4, <1>5, <1>6
<1> QED
  BY <1>2, <1>3, <1>4, <1>7

-----------------------------------------------------------------------------
(* What a write leaves on disk.                                            *)

\* The text of a whole or partial write: the records in order, the last one
\* possibly torn.
LEMMA WrittenFacts ==
    ASSUME NEW recs \in Seq(Record), NEW k \in 0..Len(recs), NEW tail \in Tails,
           tail # "none" => k < Len(recs)
    PROVE  LET text == Written(recs, k, tail) IN
           /\ text \in Seq(Line)
           /\ \A m \in DOMAIN text : m \in DOMAIN recs /\ (text[m] = Torn \/ text[m] = recs[m])
<1> DEFINE front == SubSeq(recs, 1, k)
           text == Written(recs, k, tail)
<1>1. /\ front \in Seq(Line) /\ Len(front) = k
      /\ \A m \in 1..k : front[m] = recs[m] /\ m \in DOMAIN recs
  BY DEF Line
<1>2. CASE tail = "none"
  <2>1. text = front \o << >>
    BY <1>2 DEF Written
  <2>2. text = front
    BY <1>1, <2>1
  <2> HIDE DEF front, text
  <2> QED
    BY <1>1, <2>2 DEF text
<1>3. CASE tail = "torn"
  <2>1. text = front \o <<Torn>> /\ Torn \in Line
    BY <1>3 DEF Written, Line
  <2>2. k + 1 \in DOMAIN recs
    BY <1>3
  <2> HIDE DEF front, text
  <2>3. text \in Seq(Line) /\ DOMAIN text = 1..(k + 1)
    BY <1>1, <2>1
  <2>4. \A m \in 1..(k + 1) : text[m] = IF m <= k THEN front[m] ELSE Torn
    BY <1>1, <2>1
  <2> QED
    BY <1>1, <2>2, <2>3, <2>4 DEF text
<1>4. CASE tail = "whole"
  <2>1. k + 1 \in DOMAIN recs /\ recs[k + 1] \in Line
    BY <1>4 DEF Line
  <2>2. text = front \o <<recs[k + 1]>>
    BY <1>4 DEF Written
  <2> HIDE DEF front, text
  <2>3. text \in Seq(Line) /\ DOMAIN text = 1..(k + 1)
    BY <1>1, <2>1, <2>2
  <2>4. \A m \in 1..(k + 1) : text[m] = IF m <= k THEN front[m] ELSE recs[k + 1]
    BY <1>1, <2>1, <2>2
  <2> QED
    BY <1>1, <2>1, <2>3, <2>4 DEF text
<1> QED
  BY <1>2, <1>3, <1>4 DEF Tails

\* The elements of a concatenation.
LEMMA Concatenated ==
    ASSUME NEW S, NEW a \in Seq(S), NEW b \in Seq(S)
    PROVE  /\ a \o b \in Seq(S) /\ Len(a \o b) = Len(a) + Len(b)
           /\ \A i \in 1..Len(a \o b) :
                 (a \o b)[i] = IF i <= Len(a) THEN a[i] ELSE b[i - Len(a)]
  OBVIOUS

\* The lines of the log after a write: each is unreadable, or the line that was
\* there, or a record of the write at its place behind them.
LEMMA WriteFacts ==
    ASSUME TypeOK, NEW recs \in Seq(Record), NEW k \in 0..Len(recs), NEW tail \in Tails,
           Write(recs, k, tail)
    PROVE  /\ log' \in Seq(Line) /\ activeLen' \in Nat /\ openTail' \in BOOLEAN
           /\ \E off \in Nat : \A i \in DOMAIN log' :
                 \/ log'[i] = Torn
                 \/ i \in DOMAIN log /\ i <= off /\ log'[i] = log[i]
                 \/ i > off /\ i - off \in DOMAIN recs /\ log'[i] = recs[i - off]
<1> DEFINE text == Written(recs, k, tail)
<1>1. /\ text \in Seq(Line)
      /\ \A m \in DOMAIN text : m \in DOMAIN recs /\ (text[m] = Torn \/ text[m] = recs[m])
  BY WrittenFacts DEF Write
<1>2. /\ log' = Glue(text)
      /\ openTail' = IF text = << >> THEN openTail ELSE tail # "none"
      /\ activeLen' = IF text = << >> THEN activeLen
                      ELSE activeLen + Len(text) - (IF openTail THEN 1 ELSE 0)
  BY DEF Write
<1>3. log \in Seq(Line) /\ activeLen \in Nat /\ openTail \in BOOLEAN
  BY DEF TypeOK
<1> HIDE DEF text
<1>4. openTail' \in BOOLEAN /\ activeLen' \in Nat
  <2>1. CASE text = << >>
    BY <1>2, <1>3, <2>1
  <2>2. CASE text # << >>
    <3>1. Len(text) \in Nat /\ Len(text) >= 1
      BY <1>1, <2>2
    <3> HIDE DEF Tails
    <3> QED
      BY <1>2, <1>3, <2>2, <3>1
  <2> QED
    BY <2>1, <2>2
<1> DEFINE Placed(off) ==
             \A i \in DOMAIN log' :
                \/ log'[i] = Torn
                \/ i \in DOMAIN log /\ i <= off /\ log'[i] = log[i]
                \/ i > off /\ i - off \in DOMAIN recs /\ log'[i] = recs[i - off]
<1>5. CASE text = << >>
  <2>1. log' = log
    BY <1>2, <1>5 DEF Glue
  <2>2. log' \in Seq(Line) /\ Len(log) \in Nat /\ Placed(Len(log))
    BY <1>3, <2>1
  <2> QED
    BY <1>4, <2>2
<1>6. CASE text # << >> /\ ~openTail
  <2>1. log' = log \o text
    BY <1>2, <1>6 DEF Glue
  <2>2. /\ log' \in Seq(Line) /\ DOMAIN log' = 1..(Len(log) + Len(text))
        /\ \A i \in DOMAIN log' : log'[i] = IF i <= Len(log) THEN log[i] ELSE text[i - Len(log)]
    BY <1>1, <1>3, <2>1
  <2>3. \A i \in DOMAIN log' : i <= Len(log) \/ i - Len(log) \in DOMAIN text
    BY <1>1, <1>3, <2>2
  <2>4. Len(log) \in Nat /\ Placed(Len(log))
    BY <1>1, <1>3, <2>2, <2>3
  <2> QED
    BY <1>4, <2>2, <2>4
<1>7. CASE text # << >> /\ openTail
  <2> DEFINE front == SubSeq(log, 1, Len(log) - 1)
             off == Len(front)
             glued == front \o <<Torn>>
  <2>1. log' = (front \o <<Torn>>) \o Tail(text)
    BY <1>2, <1>7 DEF Glue
  <2>2. front \in Seq(Line) /\ \A i \in 1..off : front[i] = log[i] /\ i \in DOMAIN log
    BY <1>3
  <2>3. off \in Nat /\ Torn \in Line
    BY <2>2 DEF Line
  <2> HIDE DEF front
  <2>4. /\ glued \in Seq(Line) /\ Len(glued) = off + 1
        /\ \A i \in 1..(off + 1) : glued[i] = IF i <= off THEN front[i] ELSE Torn
    BY <2>2, <2>3
  <2>5. /\ Tail(text) \in Seq(Line) /\ Len(Tail(text)) = Len(text) - 1
        /\ \A m \in 1..(Len(text) - 1) : Tail(text)[m] = text[m + 1]
    BY <1>1, <1>7
  <2> DEFINE both == glued \o Tail(text)
  <2>a. log' = both
    BY <2>1
  <2> HIDE DEF glued, off
  <2>b. /\ both \in Seq(Line) /\ Len(both) = Len(glued) + Len(Tail(text))
        /\ \A i \in 1..Len(both) :
              both[i] = IF i <= Len(glued) THEN glued[i] ELSE Tail(text)[i - Len(glued)]
    BY <2>4, <2>5, Concatenated
  <2> HIDE DEF both
  <2>c. Len(both) = off + Len(text)
    BY <1>1, <2>3, <2>4, <2>5, <2>b
  <2>d. DOMAIN both = 1..Len(both)
    BY <2>b
  <2>6. /\ log' \in Seq(Line) /\ DOMAIN log' = 1..(off + Len(text))
        /\ \A i \in DOMAIN log' : log'[i] = IF i <= off + 1 THEN glued[i] ELSE Tail(text)[i - (off + 1)]
    BY <2>4, <2>a, <2>b, <2>c, <2>d
  <2>7. ASSUME NEW i \in DOMAIN log'
        PROVE  \/ log'[i] = Torn
               \/ i \in DOMAIN log /\ i <= off /\ log'[i] = log[i]
               \/ i > off /\ i - off \in DOMAIN recs /\ log'[i] = recs[i - off]
    <3>1. CASE i <= off
      <4>1. i \in 1..off /\ log'[i] = glued[i] /\ glued[i] = front[i]
        BY <1>1, <2>3, <2>4, <2>6, <3>1
      <4> QED
        BY <2>2, <3>1, <4>1
    <3>2. CASE i = off + 1
      BY <1>1, <2>3, <2>4, <2>6, <3>2
    <3>3. CASE i > off + 1
      <4>1. i - (off + 1) \in 1..(Len(text) - 1) /\ i - off \in DOMAIN text
        BY <1>1, <2>3, <2>6, <3>3
      <4>2. log'[i] = text[i - off]
        BY <1>1, <2>3, <2>5, <2>6, <3>3, <4>1
      <4>3. i - off \in DOMAIN recs /\ (text[i - off] = Torn \/ text[i - off] = recs[i - off])
        BY <1>1, <4>1
      <4>4. i > off
        BY <1>1, <2>3, <2>6, <3>3
      <4> QED
        BY <4>2, <4>3, <4>4
    <3>4. i <= off \/ i = off + 1 \/ i > off + 1
      BY <1>1, <2>3, <2>6
    <3> QED
      BY <3>1, <3>2, <3>3, <3>4
  <2>8. Placed(off)
    BY <2>7
  <2> QED
    BY <1>4, <2>3, <2>6, <2>8
<1> QED
  BY <1>3, <1>5, <1>6, <1>7

-----------------------------------------------------------------------------
(* What the server knows after it has read the log.                        *)

Bounded == \E bound \in Nat : \A i \in Intact : log[i].rev <= bound

\* A bounded, non-empty set of naturals has a greatest element.
LEMMA GreatestExists ==
    ASSUME NEW S \in SUBSET Nat, S # {}, NEW b \in Nat, \A s \in S : s <= b
    PROVE  \E r \in S : \A s \in S : s <= r
<1> DEFINE U == {n \in Nat : \A s \in S : s <= n}
           R == OpToRel(<, Nat)
<1>1. PICK m \in U : \A n \in U : ~(<<n, m>> \in R)
  <2>1. U \subseteq Nat /\ b \in U
    OBVIOUS
  <2> HIDE DEF U, R
  <2>2. IsWellFoundedOn(R, Nat)
    BY NatLessThanWellFounded DEF R
  <2> QED
    BY <2>1, <2>2, WFMin
<1>2. \A n \in U : ~(n < m)
  <2> SUFFICES ASSUME NEW n \in U, n < m
               PROVE  FALSE
    OBVIOUS
  <2>1. <<n, m>> \in R
    BY DEF OpToRel
  <2> QED
    BY <1>1, <2>1
<1>3. m \in S
  <2> SUFFICES ASSUME m \notin S
               PROVE  FALSE
    OBVIOUS
  <2>1. PICK s \in S : TRUE
    OBVIOUS
  <2>2. m # 0
    BY <2>1
  <2>3. m - 1 \in U
    BY <2>2
  <2> QED
    BY <1>2, <2>3
<1> QED
  BY <1>3

\* Boot restores, for every id with a record in the log, exactly that record,
\* and the highest revision of all.
LEMMA LoadFacts ==
    ASSUME TypeOK, OneRecordPerId, Bounded
    PROVE  /\ LoadedEvents(log) \in [Ids -> Event \cup {NoEvent}]
           /\ LoadedRevisions(log) \in [Ids -> Nat]
           /\ LoadedRevision(log) \in Nat
           /\ \A id \in Ids : LoadedRevisions(log)[id] <= LoadedRevision(log)
           /\ \A i \in Intact : /\ LoadedEvents(log)[log[i].event.id] = log[i].event
                                /\ LoadedRevisions(log)[log[i].event.id] = log[i].rev
           /\ \A id \in Ids : LoadedEvents(log)[id] # NoEvent =>
                 \E i \in Intact : /\ log[i].event.id = id
                                   /\ LoadedEvents(log)[id] = log[i].event
                                   /\ LoadedRevisions(log)[id] = log[i].rev
<1>1. \A i \in Intact : i \in DOMAIN log /\ log[i] \in Record /\ log[i].event \in Event
                        /\ log[i].event.id \in Ids /\ log[i].rev \in Nat
  BY DEF TypeOK, Line, Record, Event, Intact
<1>2. \A id \in Ids : Positions(log, id) = {i \in Intact : log[i].event.id = id}
  BY DEF Positions, Intact
<1>3. ASSUME NEW i \in Intact
      PROVE  /\ Positions(log, log[i].event.id) # {}
             /\ FirstAt(log, log[i].event.id) = i
  <2>1. Positions(log, log[i].event.id) = {i}
    BY <1>1, <1>2 DEF OneRecordPerId, Intact
  <2>2. i <= i
    BY DEF TypeOK, Intact
  <2> QED
    BY <2>1, <2>2 DEF FirstAt
<1>4. \A i \in Intact : /\ LoadedEvents(log)[log[i].event.id] = log[i].event
                        /\ LoadedRevisions(log)[log[i].event.id] = log[i].rev
  BY <1>1, <1>3 DEF LoadedEvents, LoadedRevisions
<1>5. \A id \in Ids : \/ LoadedEvents(log)[id] = NoEvent /\ LoadedRevisions(log)[id] = 0
                      \/ \E i \in Intact : /\ log[i].event.id = id
                                           /\ LoadedEvents(log)[id] = log[i].event
                                           /\ LoadedRevisions(log)[id] = log[i].rev
  <2> SUFFICES ASSUME NEW id \in Ids, Positions(log, id) # {}
               PROVE  \E i \in Intact : /\ log[i].event.id = id
                                        /\ LoadedEvents(log)[id] = log[i].event
                                        /\ LoadedRevisions(log)[id] = log[i].rev
    BY DEF LoadedEvents, LoadedRevisions
  <2> QED
    BY <1>2, <1>4
<1>6. /\ LoadedEvents(log) \in [Ids -> Event \cup {NoEvent}]
      /\ LoadedRevisions(log) \in [Ids -> Nat]
  BY <1>1, <1>5 DEF LoadedEvents, LoadedRevisions
<1> DEFINE revs == {0} \cup {LoadedRevisions(log)[id] : id \in Ids}
<1>7. \E r \in revs : \A s \in revs : s <= r
  <2>1. PICK bound \in Nat : \A i \in Intact : log[i].rev <= bound
    BY DEF Bounded
  <2>2. revs \in SUBSET Nat /\ revs # {} /\ \A s \in revs : s <= bound
    BY <1>5, <1>6, <2>1
  <2> HIDE DEF revs
  <2> QED
    BY <2>2, GreatestExists
<1>8. LoadedRevision(log) \in revs /\ \A s \in revs : s <= LoadedRevision(log)
  <2> HIDE DEF revs
  <2>1. LoadedRevision(log) = CHOOSE r \in revs : \A s \in revs : s <= r
    BY DEF LoadedRevision, revs
  <2> QED
    BY <1>7, <2>1
<1>9. LoadedRevision(log) \in Nat
  BY <1>6, <1>8
<1>10. \A id \in Ids : LoadedRevisions(log)[id] <= LoadedRevision(log)
  BY <1>8
<1> QED
  BY <1>4, <1>5, <1>6, <1>9, <1>10

-----------------------------------------------------------------------------
(* The inductive invariant.                                                *)

IndInv == StorageInv /\ Bounded

\* The invariant holds of an empty storage.
LEMMA InitIndInv == Init => IndInv
<1> SUFFICES ASSUME Init
             PROVE  IndInv
  OBVIOUS
<1> USE DEF Init
<1>1. TypeOK
  <2>1. log \in Seq(Line) /\ segs \in Seq(Nat) /\ queue \in Seq(Waiting)
    OBVIOUS
  <2>2. eventsById \in [Ids -> Event \cup {NoEvent}] /\ eventRevisionsById \in [Ids -> Nat]
    OBVIOUS
  <2>3. pushes \in 0..MaxPushes /\ restarts \in 0..MaxRestarts
    BY BoundsAssumption
  <2> QED
    BY <2>1, <2>2, <2>3 DEF TypeOK
<1>2. MemoryInv
  BY DEF MemoryInv, RevisionsAreUnique, Stored
<1>3. DiskInv
  BY DEF DiskInv, OneRecordPerId, DiskWithinMemory, Intact
<1>4. TaskInv
  BY DEF TaskInv
<1>5. AnswerInv
  BY DEF AnswerInv, AnswersAgree, TaskAnswers
<1>6. Bounded
  BY DEF Bounded, Intact
<1> QED
  BY <1>1, <1>2, <1>3, <1>4, <1>5, <1>6 DEF IndInv, StorageInv

\* The parts of an answer, typed.
LEMMA AnswerFacts ==
    \A a \in Answer : /\ a.event \in Event /\ a.event.id \in Ids /\ a.event # NoEvent
                      /\ a.rev \in Nat /\ a.epoch \in Nat
<1> SUFFICES ASSUME NEW a \in Answer
             PROVE  /\ a.event \in Event /\ a.event.id \in Ids /\ a.event # NoEvent
                    /\ a.rev \in Nat /\ a.epoch \in Nat
  OBVIOUS
<1>1. a.event \in Event /\ a.rev \in Nat /\ a.epoch \in Nat
  BY DEF Answer
<1> QED
  BY <1>1, IdsAssumption DEF Event

\* Entering the queue changes neither memory nor disk.
LEMMA SubmitStep ==
    ASSUME IndInv, NEW req \in Requests, Submit(req)
    PROVE  IndInv'
<1> USE DEF IndInv, StorageInv, Submit, memory, disk
<1>1. TypeOK'
  <2>1. [ticket |-> pushes + 1, req |-> req] \in Waiting
    BY DEF TypeOK, Waiting
  <2>2. queue' \in Seq(Waiting)
    BY <2>1 DEF TypeOK
  <2>3. pushes' \in 0..MaxPushes
    BY BoundsAssumption DEF TypeOK
  <2> QED
    BY <2>2, <2>3 DEF TypeOK
<1>2. MemoryInv'
  BY DEF MemoryInv, RevisionsAreUnique, Stored
<1>3. DiskInv'
  BY DEF DiskInv, OneRecordPerId, DiskWithinMemory, Intact
<1>4. TaskInv'
  BY DEF TaskInv, Intact
<1>5. AnswerInv'
  BY DEF AnswerInv, AnswersAgree, TaskAnswers
<1>6. Bounded'
  BY DEF Bounded, Intact
<1> QED
  BY <1>1, <1>2, <1>3, <1>4, <1>5, <1>6

\* A push: the new events and their revisions enter memory, the task holds
\* their records, and every answer it will give agrees with memory.
LEMMA PushStep ==
    ASSUME IndInv, DistinctIds, Push
    PROVE  IndInv'
<1> USE DEF IndInv, StorageInv
<1> DEFINE req == Head(queue).req
           N == NewEvents(req)
<1>1. TypeOK /\ task = NoTask /\ up /\ queue # << >>
  BY DEF Push
<1>2. Head(queue) \in Waiting /\ req \in Requests /\ Tail(queue) \in Seq(Waiting)
  <2>1. queue \in Seq(Waiting)
    BY <1>1 DEF TypeOK
  <2>2. Head(queue) \in Waiting /\ Tail(queue) \in Seq(Waiting)
    BY <1>1, <2>1
  <2> QED
    BY <2>2 DEF Waiting
<1>3. /\ revision' = revision + Len(N)
      /\ eventsById' = [id \in Ids |-> EventAfter(req, id)]
      /\ eventRevisionsById' = [id \in Ids |-> RevisionAfter(req, id)]
      /\ queue' = Tail(queue)
      /\ UNCHANGED <<up, log, segs, activeLen, openTail, pruned, pushes, restarts>>
  BY DEF Push, disk
<1>4. \/ acked' = acked \cup Answers(req) /\ task' = NoTask
      \/ /\ task' = [step |-> "rotate", ticket |-> Head(queue).ticket,
                     records |-> Records(req), answers |-> Answers(req)]
         /\ acked' = acked
  BY DEF Push
<1> HIDE DEF req
<1>5. /\ N \in Seq(Event) /\ Len(N) \in Nat /\ DOMAIN N = 1..Len(N)
      /\ \A k \in DOMAIN N : ~Stored(N[k].id)
      /\ \A k, l \in DOMAIN N : N[k].id = N[l].id => k = l
  BY <1>1, <1>2, NewEventsFacts
<1>6. /\ Records(req) \in Seq(Record) /\ DOMAIN Records(req) = DOMAIN N
      /\ \A k \in DOMAIN N : Records(req)[k] = [rev |-> revision + k, event |-> N[k]]
  BY <1>1, <1>2, RecordsFacts
<1>7. /\ \A k \in DOMAIN N : /\ eventsById'[N[k].id] = N[k]
                             /\ eventRevisionsById'[N[k].id] = revision + k
                             /\ N[k].id \in Ids /\ N[k] \in Event
      /\ \A id \in Ids :
            \/ \E k \in DOMAIN N : N[k].id = id /\ ~Stored(id)
            \/ eventsById'[id] = eventsById[id] /\ eventRevisionsById'[id] = eventRevisionsById[id]
      /\ \A id \in Ids : eventsById'[id] \in Event \cup {NoEvent} /\ eventRevisionsById'[id] \in Nat
  <2>1. \A k \in DOMAIN N : N[k].id \in Ids /\ N[k] \in Event
    <3>1. \A k \in DOMAIN N : N[k] \in Event
      BY <1>5
    <3> QED
      BY <3>1 DEF Event
  <2> QED
    BY <1>1, <1>2, <1>3, <2>1, MemoryAfter
<1>8. \A a \in Answers(req) : /\ a \in Answer /\ a.epoch = restarts
                              /\ eventsById'[a.event.id] = a.event
                              /\ eventRevisionsById'[a.event.id] = a.rev
  <2> SUFFICES ASSUME NEW a \in Answers(req)
               PROVE  /\ a \in Answer /\ a.epoch = restarts
                      /\ eventsById'[a.event.id] = a.event
                      /\ eventRevisionsById'[a.event.id] = a.rev
    OBVIOUS
  <2>1. PICK i \in DOMAIN req.events :
           /\ EventAfter(req, req.events[i].id) = req.events[i]
           /\ a = [event |-> req.events[i],
                   rev |-> RevisionAfter(req, req.events[i].id),
                   status |-> IF i \in Accepted(req) THEN "accepted" ELSE "duplicate",
                   epoch |-> restarts]
    BY DEF Answers
  <2>2. req.events[i] \in Event /\ req.events[i].id \in Ids
    <3>1. req.events \in Seq(Event)
      BY <1>2, RequestsAssumption
    <3>2. req.events[i] \in Event
      BY <3>1
    <3> QED
      BY <3>2 DEF Event
  <2>3. /\ a.event = req.events[i] /\ a.epoch = restarts
        /\ a.rev = RevisionAfter(req, req.events[i].id) /\ a.status \in {"accepted", "duplicate"}
    BY <2>1
  <2>4. restarts \in Nat /\ RevisionAfter(req, req.events[i].id) \in Nat
    BY <1>1, <1>2, <2>2, MemoryAfter DEF TypeOK
  <2> QED
    BY <1>3, <2>1, <2>2, <2>3, <2>4 DEF Answer
<1> HIDE DEF N
<1>9. TypeOK'
  <2>1. /\ eventsById' \in [Ids -> Event \cup {NoEvent}]
        /\ eventRevisionsById' \in [Ids -> Nat]
    BY <1>3, <1>7
  <2>2. revision' \in Nat /\ queue' \in Seq(Waiting)
    BY <1>1, <1>2, <1>3, <1>5 DEF TypeOK
  <2>3. task' \in Task \cup {NoTask} /\ acked' \subseteq Answer
    BY <1>1, <1>2, <1>4, <1>6, <1>8 DEF TypeOK, Task, Waiting
  <2> QED
    BY <1>1, <1>3, <2>1, <2>2, <2>3 DEF TypeOK
<1>10. MemoryInv'
  <2>1. ASSUME NEW id \in Ids, eventsById'[id] # NoEvent
        PROVE  /\ eventRevisionsById'[id] \in 1..revision' /\ eventsById'[id].id = id
               /\ \/ \E k \in DOMAIN N : N[k].id = id /\ eventRevisionsById'[id] = revision + k
                  \/ Stored(id) /\ eventRevisionsById'[id] = eventRevisionsById[id]
                              /\ eventRevisionsById'[id] \in 1..revision
    <3>1. revision \in Nat /\ revision' = revision + Len(N) /\ Len(N) \in Nat
      BY <1>1, <1>3, <1>5 DEF TypeOK
    <3>2. CASE \E k \in DOMAIN N : N[k].id = id /\ ~Stored(id)
      <4>1. PICK k \in DOMAIN N : N[k].id = id
        BY <3>2
      <4>2. eventRevisionsById'[id] = revision + k /\ eventsById'[id] = N[k] /\ k \in 1..Len(N)
        BY <1>5, <1>7, <4>1
      <4> QED
        BY <3>1, <4>1, <4>2
    <3>3. CASE eventsById'[id] = eventsById[id] /\ eventRevisionsById'[id] = eventRevisionsById[id]
      <4>1. /\ Stored(id) /\ eventsById[id].id = id
            /\ eventRevisionsById[id] \in 1..revision
        BY <2>1, <3>3 DEF MemoryInv, RevisionsAreUnique, Stored
      <4> QED
        BY <3>1, <3>3, <4>1
    <3> QED
      BY <1>7, <3>2, <3>3
  <2>2. ASSUME NEW a \in Ids, NEW b \in Ids, eventsById'[a] # NoEvent, eventsById'[b] # NoEvent,
               eventRevisionsById'[a] = eventRevisionsById'[b]
        PROVE  a = b
    <3>1. revision \in Nat /\ DOMAIN N = 1..Len(N)
      BY <1>1, <1>5 DEF TypeOK
    <3>2. CASE /\ \E k \in DOMAIN N : N[k].id = a /\ eventRevisionsById'[a] = revision + k
               /\ \E k \in DOMAIN N : N[k].id = b /\ eventRevisionsById'[b] = revision + k
      <4>1. PICK k \in DOMAIN N : N[k].id = a /\ eventRevisionsById'[a] = revision + k
        BY <3>2
      <4>2. PICK l \in DOMAIN N : N[l].id = b /\ eventRevisionsById'[b] = revision + l
        BY <3>2
      <4>3. k \in Int /\ l \in Int
        BY <3>1
      <4>4. revision + k = revision + l
        BY <2>2, <4>1, <4>2
      <4>5. k = l
        BY <3>1, <4>3, <4>4
      <4> QED
        BY <4>1, <4>2, <4>5
    <3>3. CASE /\ Stored(a) /\ eventRevisionsById'[a] = eventRevisionsById[a]
               /\ Stored(b) /\ eventRevisionsById'[b] = eventRevisionsById[b]
      BY <2>2, <3>3 DEF MemoryInv, RevisionsAreUnique
    <3> DEFINE New(id) == \E k \in DOMAIN N : N[k].id = id /\ eventRevisionsById'[id] = revision + k
               Old(id) == Stored(id) /\ eventRevisionsById'[id] = eventRevisionsById[id]
                                     /\ eventRevisionsById'[id] \in 1..revision
    <3>4. New(a) \/ Old(a)
      BY <2>1, <2>2
    <3>5. New(b) \/ Old(b)
      BY <2>1, <2>2
    <3>6. \A x, y \in Ids : New(x) /\ Old(y) => eventRevisionsById'[x] # eventRevisionsById'[y]
      BY <3>1
    <3> QED
      BY <2>2, <3>2, <3>3, <3>4, <3>5, <3>6
  <2> QED
    BY <1>1, <1>3, <2>1, <2>2 DEF MemoryInv, RevisionsAreUnique, Stored
<1>11. \A i \in Intact : log[i].event.id \in Ids /\ Stored(log[i].event.id)
  BY <1>1, IdsAssumption DEF TypeOK, Line, Record, Event, Intact, DiskInv, DiskWithinMemory, Stored
<1>12. DiskInv'
  <2>1. DiskWithinMemory'
    BY <1>1, <1>3, <1>7, <1>11 DEF DiskInv, DiskWithinMemory, Intact
  <2> QED
    BY <1>3, <2>1 DEF DiskInv, OneRecordPerId, Intact
<1>13. TaskInv'
  <2> SUFFICES ASSUME task' # NoTask, NEW k \in DOMAIN N
               PROVE  /\ Records(req)[k].rev >= 1
                      /\ eventsById'[Records(req)[k].event.id] = Records(req)[k].event
                      /\ eventRevisionsById'[Records(req)[k].event.id] = Records(req)[k].rev
                      /\ \A l \in DOMAIN N :
                            Records(req)[l].event.id = Records(req)[k].event.id => k = l
                      /\ \A i \in Intact : log[i].event.id # Records(req)[k].event.id
    BY <1>3, <1>4, <1>6 DEF TaskInv, Intact
  <2>1. Records(req)[k].rev = revision + k /\ Records(req)[k].event = N[k]
    BY <1>6
  <2>2. revision \in Nat /\ k \in Nat /\ k >= 1
    BY <1>1, <1>5 DEF TypeOK
  <2> QED
    BY <1>5, <1>6, <1>7, <1>11, <2>1, <2>2
<1>14. AnswerInv'
  <2>1. ASSUME NEW a \in acked
        PROVE  /\ a \in Answer /\ a.epoch <= restarts
               /\ a.epoch = restarts => eventsById'[a.event.id] = a.event /\ eventRevisionsById'[a.event.id] = a.rev
    <3>1. a \in Answer /\ a.epoch <= restarts
      BY <1>1 DEF TypeOK, AnswerInv
    <3>2. ASSUME a.epoch = restarts
          PROVE  eventsById[a.event.id] = a.event /\ eventRevisionsById[a.event.id] = a.rev
      BY <1>1, <3>2 DEF AnswerInv
    <3>3. a.epoch = restarts => Stored(a.event.id) /\ a.event.id \in Ids
      BY <3>1, <3>2, AnswerFacts DEF Stored
    <3> QED
      BY <1>7, <3>1, <3>2, <3>3
  <2>2. \A a \in acked' \cup TaskAnswers' : a \in acked \/ a \in Answers(req)
    BY <1>4 DEF TaskAnswers, NoTask
  <2>3. ASSUME NEW a \in acked', NEW b \in acked', a.epoch = b.epoch
        PROVE  /\ a.event.id = b.event.id => a.event = b.event /\ a.rev = b.rev
               /\ a.rev = b.rev => a.event.id = b.event.id
    <3>1. a \in Answer /\ b \in Answer
      BY <1>8, <2>1, <2>2
    <3>2. CASE a.epoch = restarts
      <4>1. /\ eventsById'[a.event.id] = a.event /\ eventRevisionsById'[a.event.id] = a.rev
            /\ eventsById'[b.event.id] = b.event /\ eventRevisionsById'[b.event.id] = b.rev
        BY <1>8, <2>1, <2>2, <2>3, <3>2
      <4>2. a.event.id \in Ids /\ b.event.id \in Ids /\ a.event # NoEvent /\ b.event # NoEvent
        BY <3>1, AnswerFacts
      <4> QED
        BY <1>10, <4>1, <4>2 DEF MemoryInv, RevisionsAreUnique, Stored
    <3>3. CASE a.epoch # restarts
      <4>1. a \in acked /\ b \in acked
        BY <1>8, <2>2, <2>3, <3>3
      <4> QED
        BY <2>3, <4>1 DEF AnswerInv, AnswersAgree
    <3> QED
      BY <3>2, <3>3
  <2>4. \A a \in acked' \cup TaskAnswers' :
           /\ a.epoch <= restarts
           /\ a.epoch = restarts => eventsById'[a.event.id] = a.event /\ eventRevisionsById'[a.event.id] = a.rev
    <3>1. restarts <= restarts
      BY <1>1 DEF TypeOK
    <3> QED
      BY <1>8, <2>1, <2>2, <3>1
  <2>5. \A a \in TaskAnswers' : a.epoch = restarts
    BY <1>4, <1>8 DEF TaskAnswers
  <2> QED
    BY <1>3, <2>3, <2>4, <2>5 DEF AnswerInv, AnswersAgree
<1>15. Bounded'
  BY <1>3 DEF Bounded, Intact
<1> QED
  BY <1>9, <1>10, <1>12, <1>13, <1>14, <1>15

\* The steps of a task that change neither memory nor a line of the log.
LEMMA QuietStep ==
    ASSUME IndInv, task # NoTask,
           UNCHANGED <<up, memory, queue, log, acked, pruned, pushes, restarts>>,
           segs' \in Seq(Nat), activeLen' \in Nat, openTail' \in BOOLEAN,
           \/ task' = NoTask
           \/ \E s \in {"rotate", "prune", "append"} : task' = [task EXCEPT !.step = s]
    PROVE  IndInv'
<1> USE DEF IndInv, StorageInv, memory
<1>1. task \in Task
  BY DEF TypeOK
<1>2. \/ task' = NoTask
      \/ task' \in Task /\ task'.records = task.records /\ task'.answers = task.answers
  BY <1>1 DEF Task
<1>3. TypeOK'
  BY <1>2 DEF TypeOK
<1>4. MemoryInv'
  <2>1. up
    BY DEF MemoryInv
  <2> QED
    BY <2>1 DEF MemoryInv, RevisionsAreUnique, Stored
<1>5. DiskInv' /\ Bounded'
  BY DEF DiskInv, OneRecordPerId, DiskWithinMemory, Intact, Bounded
<1>6. TaskInv'
  BY <1>2 DEF TaskInv, Intact
<1>7. AnswerInv'
  <2>1. TaskAnswers' \subseteq TaskAnswers
    BY <1>2 DEF TaskAnswers
  <2> QED
    BY <2>1 DEF AnswerInv, AnswersAgree
<1> QED
  BY <1>3, <1>4, <1>5, <1>6, <1>7

\* What a write of the task's records, whole or in part, does to the log: every
\* intact record is in memory as it was before the step, and each once.
LEMMA WriteStep ==
    ASSUME IndInv, up, task # NoTask,
           NEW k \in 0..Len(task.records), NEW tail \in Tails, Write(task.records, k, tail)
    PROVE  /\ log' \in Seq(Line) /\ activeLen' \in Nat /\ openTail' \in BOOLEAN
           /\ OneRecordPerId'
           /\ \A i \in Intact' : /\ eventsById[log'[i].event.id] = log'[i].event
                                 /\ eventRevisionsById[log'[i].event.id] = log'[i].rev
                                 /\ log'[i].rev >= 1
           /\ \A i, j \in Intact' : log'[i].rev = log'[j].rev => i = j
           /\ Bounded'
<1> USE DEF IndInv, StorageInv
<1> DEFINE recs == task.records
<1>1. TypeOK /\ recs \in Seq(Record) /\ task \in Task
  BY DEF TypeOK, Task
<1> HIDE DEF recs
<1>2. PICK off \in Nat :
        /\ log' \in Seq(Line) /\ activeLen' \in Nat /\ openTail' \in BOOLEAN
        /\ \A i \in DOMAIN log' :
              \/ log'[i] = Torn
              \/ i \in DOMAIN log /\ i <= off /\ log'[i] = log[i]
              \/ i > off /\ i - off \in DOMAIN recs /\ log'[i] = recs[i - off]
  BY <1>1, WriteFacts DEF recs
<1> DEFINE Was(i) == i \in Intact /\ i <= off /\ log'[i] = log[i]
           Is(i) == i > off /\ i - off \in DOMAIN recs /\ log'[i] = recs[i - off]
<1>3. \A i \in Intact' : i \in DOMAIN log' /\ i \in Nat /\ log'[i] # Torn /\ (Was(i) \/ Is(i))
  BY <1>2 DEF Intact
<1>4. \A k1 \in DOMAIN recs :
        /\ recs[k1].rev >= 1
        /\ eventsById[recs[k1].event.id] = recs[k1].event
        /\ eventRevisionsById[recs[k1].event.id] = recs[k1].rev
        /\ \A l \in DOMAIN recs : recs[l].event.id = recs[k1].event.id => k1 = l
        /\ \A i \in Intact : log[i].event.id # recs[k1].event.id
  BY DEF TaskInv, recs
<1>5. \A i \in Intact : /\ log[i].rev >= 1
                        /\ eventsById[log[i].event.id] = log[i].event
                        /\ eventRevisionsById[log[i].event.id] = log[i].rev
  BY DEF DiskInv, DiskWithinMemory, Intact
<1>6. ASSUME NEW i \in Intact'
      PROVE  /\ eventsById[log'[i].event.id] = log'[i].event
             /\ eventRevisionsById[log'[i].event.id] = log'[i].rev
             /\ log'[i].rev >= 1
  BY <1>3, <1>4, <1>5
<1>7. ASSUME NEW i \in Intact', NEW j \in Intact', log'[i].event.id = log'[j].event.id
      PROVE  i = j
  <2>1. CASE Was(i) /\ Was(j)
    BY <1>7, <2>1 DEF DiskInv, OneRecordPerId, Intact
  <2>2. CASE Is(i) /\ Is(j)
    <3>1. i - off = j - off
      BY <1>4, <1>7, <2>2
    <3> QED
      BY <1>3, <3>1
  <2>3. CASE (Was(i) /\ Is(j)) \/ (Is(i) /\ Was(j))
    BY <1>4, <1>7, <2>3
  <2>4. (Was(i) \/ Is(i)) /\ (Was(j) \/ Is(j))
    BY <1>3
  <2> QED
    BY <2>1, <2>2, <2>3, <2>4
<1>8. OneRecordPerId'
  BY <1>7 DEF OneRecordPerId, Intact
<1>9. \A i \in Intact' : log'[i] \in Record /\ log'[i].event \in Event /\ log'[i].event.id \in Ids
  <2>1. \A i \in Intact' : log'[i] \in Record
    BY <1>2, <1>3 DEF Line
  <2> QED
    BY <2>1 DEF Record, Event
<1>10. ASSUME NEW i \in Intact', NEW j \in Intact', log'[i].rev = log'[j].rev
       PROVE  i = j
  <2>1. Stored(log'[i].event.id) /\ Stored(log'[j].event.id)
    BY <1>6, <1>9, IdsAssumption DEF Stored
  <2>2. log'[i].event.id = log'[j].event.id
    BY <1>6, <1>9, <1>10, <2>1 DEF MemoryInv, RevisionsAreUnique
  <2> QED
    BY <1>7, <2>2
<1>11. Bounded'
  <2>1. \A i \in Intact' : log'[i].rev <= revision
    <3> SUFFICES ASSUME NEW i \in Intact'
                 PROVE  log'[i].rev <= revision
      OBVIOUS
    <3>1. Stored(log'[i].event.id)
      BY <1>6, <1>9, IdsAssumption DEF Stored
    <3>2. eventRevisionsById[log'[i].event.id] \in 1..revision
      BY <1>9, <3>1 DEF MemoryInv, RevisionsAreUnique
    <3> QED
      BY <1>1, <1>6, <3>2 DEF TypeOK
  <2>2. revision \in Nat
    BY DEF TypeOK
  <2> QED
    BY <2>1, <2>2 DEF Bounded
<1> QED
  BY <1>2, <1>6, <1>8, <1>10, <1>11

\* Unlinking a segment takes the first lines of the log away.
LEMMA PruneStep ==
    ASSUME IndInv, Prune
    PROVE  IndInv'
<1> USE DEF IndInv, StorageInv
<1>1. TypeOK /\ up /\ task # NoTask
  BY DEF Prune, NoTask
<1>2. CASE ~(Len(segs) > KeepSegments)
  <2>1. UNCHANGED <<up, memory, queue, log, acked, pruned, pushes, restarts, segs, activeLen, openTail>>
    BY <1>2 DEF Prune
  <2>2. task' = [task EXCEPT !.step = "append"]
    BY <1>2 DEF Prune
  <2>3. segs' \in Seq(Nat) /\ activeLen' \in Nat /\ openTail' \in BOOLEAN
    BY <1>1, <2>1 DEF TypeOK
  <2> QED
    BY <1>1, <2>1, <2>2, <2>3, QuietStep
<1>3. CASE Len(segs) > KeepSegments
  <2>1. /\ log' = SubSeq(log, segs[1] + 1, Len(log))
        /\ segs' = Tail(segs)
        /\ pruned' = pruned \cup {log[i].event.id : i \in {j \in 1..Len(log) : j <= segs[1] /\ log[j] # Torn}}
        /\ UNCHANGED <<up, memory, queue, task, activeLen, openTail, acked, pushes, restarts>>
    BY <1>3 DEF Prune
  <2>2. segs \in Seq(Nat) /\ segs # << >> /\ segs[1] \in Nat /\ segs' \in Seq(Nat)
    BY <1>1, <1>3, <2>1, PolicyAssumption DEF TypeOK
  <2>3. log \in Seq(Line)
    BY <1>1 DEF TypeOK
  <2> DEFINE n == segs[1]
  <2>4. /\ log' \in Seq(Line)
        /\ \A i \in DOMAIN log' : i \in Nat /\ i + n \in DOMAIN log /\ log'[i] = log[i + n]
    <3>1. log' = SubSeq(log, n + 1, Len(log)) /\ n \in Nat /\ Len(log) \in Nat
      BY <2>1, <2>2, <2>3
    <3> HIDE DEF n
    <3>2. /\ log' \in Seq(Line)
          /\ Len(log') = IF n + 1 <= Len(log) THEN Len(log) - n ELSE 0
      BY <2>3, <3>1
    <3>3. \A i \in 1..Len(log') : i + n \in 1..Len(log) /\ log'[i] = log[i + n]
      BY <2>3, <3>1, <3>2
    <3> QED
      BY <2>3, <3>1, <3>2, <3>3
  <2>5. \A i \in Intact' : i \in Nat /\ i + n \in Intact /\ log'[i] = log[i + n]
    BY <2>4 DEF Intact
  <2>6. pruned' \subseteq Ids
    BY <1>1, <2>1, <2>3 DEF TypeOK, Line, Record, Event
  <2>7. TypeOK'
    BY <1>1, <2>1, <2>2, <2>4, <2>6 DEF TypeOK, memory
  <2>8. MemoryInv'
    BY <2>1 DEF MemoryInv, RevisionsAreUnique, Stored, memory
  <2>9. DiskInv'
    <3>1. \A i, j \in Intact' : i + n = j + n => i = j
      BY <2>2, <2>5
    <3>2. \A i, j \in Intact' : log'[i].event.id = log'[j].event.id => i = j
      BY <2>5, <3>1 DEF DiskInv, OneRecordPerId, Intact
    <3>3. \A i, j \in Intact' : log'[i].rev = log'[j].rev => i = j
      BY <2>5, <3>1 DEF DiskInv
    <3>4. \A i \in Intact' : /\ log'[i].rev >= 1
                             /\ eventsById[log'[i].event.id] = log'[i].event
                             /\ eventRevisionsById[log'[i].event.id] = log'[i].rev
      BY <1>1, <2>5 DEF DiskInv, DiskWithinMemory, Intact
    <3> QED
      BY <2>1, <3>2, <3>3, <3>4 DEF DiskInv, OneRecordPerId, DiskWithinMemory, Intact, memory
  <2>10. TaskInv'
    <3>1. /\ task' = task /\ eventsById' = eventsById
          /\ eventRevisionsById' = eventRevisionsById
      BY <2>1 DEF memory
    <3>2. \A id : (\A i \in Intact : log[i].event.id # id)
                 => (\A i \in Intact' : log'[i].event.id # id)
      BY <2>5
    <3> HIDE DEF n
    <3> QED
      BY <1>1, <3>1, <3>2 DEF TaskInv
  <2>11. AnswerInv'
    BY <2>1 DEF AnswerInv, AnswersAgree, TaskAnswers, memory
  <2>12. Bounded'
    BY <2>5 DEF Bounded
  <2> QED
    BY <2>7, <2>8, <2>9, <2>10, <2>11, <2>12
<1> QED
  BY <1>2, <1>3

\* The end of a task whose write happened, whole or in part: the client gets
\* the answers of the task, or none of them.
LEMMA WriteEndsTask ==
    ASSUME IndInv, up, task # NoTask, task' = NoTask,
           UNCHANGED <<up, memory, queue, segs, pruned, pushes, restarts>>,
           acked' \in {acked, acked \cup task.answers},
           NEW k \in 0..Len(task.records), NEW tail \in Tails, Write(task.records, k, tail)
    PROVE  IndInv'
<1> USE DEF IndInv, StorageInv
<1>1. TypeOK /\ task \in Task
  BY DEF TypeOK
<1>2. /\ log' \in Seq(Line) /\ activeLen' \in Nat /\ openTail' \in BOOLEAN
      /\ OneRecordPerId'
      /\ \A i \in Intact' : /\ eventsById[log'[i].event.id] = log'[i].event
                            /\ eventRevisionsById[log'[i].event.id] = log'[i].rev
                            /\ log'[i].rev >= 1
      /\ \A i, j \in Intact' : log'[i].rev = log'[j].rev => i = j
      /\ Bounded'
  BY WriteStep
<1>3. acked' \subseteq acked \cup TaskAnswers /\ TaskAnswers' = {}
  BY DEF TaskAnswers
<1>4. TypeOK'
  <2>1. acked' \subseteq Answer
    BY <1>1 DEF TypeOK, Task
  <2> QED
    BY <1>1, <1>2, <2>1 DEF TypeOK, memory
<1>5. MemoryInv'
  BY DEF MemoryInv, RevisionsAreUnique, Stored, memory
<1>6. DiskInv'
  BY <1>2 DEF DiskInv, DiskWithinMemory, Intact, memory
<1>7. TaskInv'
  BY DEF TaskInv
<1>8. AnswerInv'
  <2>1. \A a \in acked' :
                        /\ a \in Answer /\ a \in acked \cup TaskAnswers
                        /\ a.epoch <= restarts
                        /\ a.epoch = restarts => /\ eventsById[a.event.id] = a.event
                                                 /\ eventRevisionsById[a.event.id] = a.rev
    <3>1. acked' \subseteq Answer
      BY <1>4 DEF TypeOK
    <3> QED
      BY <1>3, <3>1 DEF AnswerInv
  <2>2. \A a \in acked' : a \in acked \/ a.epoch = restarts
    BY <1>3 DEF AnswerInv
  <2>3. ASSUME NEW a \in acked', NEW b \in acked', a.epoch = b.epoch
        PROVE  /\ a.event.id = b.event.id => a.event = b.event /\ a.rev = b.rev
               /\ a.rev = b.rev => a.event.id = b.event.id
    <3>1. CASE a \in acked /\ b \in acked
      BY <2>3, <3>1 DEF AnswerInv, AnswersAgree
    <3>2. CASE a.epoch = restarts
      <4>1. /\ eventsById[a.event.id] = a.event /\ eventRevisionsById[a.event.id] = a.rev
            /\ eventsById[b.event.id] = b.event /\ eventRevisionsById[b.event.id] = b.rev
        BY <2>1, <2>3, <3>2
      <4>2. /\ a.event.id \in Ids /\ b.event.id \in Ids
            /\ a.event # NoEvent /\ b.event # NoEvent
        <5>1. a \in Answer /\ b \in Answer
          BY <2>1
        <5> QED
          BY <5>1, AnswerFacts
      <4> QED
        BY <2>3, <4>1, <4>2 DEF MemoryInv, RevisionsAreUnique, Stored
    <3> QED
      BY <2>2, <2>3, <3>1, <3>2
  <2> QED
    BY <1>3, <2>1, <2>3 DEF AnswerInv, AnswersAgree, memory
<1> QED
  BY <1>2, <1>4, <1>5, <1>6, <1>7, <1>8

\* A crash empties memory and may leave a part of a write behind.
LEMMA CrashStep ==
    ASSUME IndInv, Crash
    PROVE  IndInv'
<1> USE DEF IndInv, StorageInv
<1>1. /\ TypeOK /\ up /\ up' = FALSE /\ restarts < MaxRestarts /\ task' = NoTask /\ queue' = << >> /\ revision' = 0
      /\ eventsById' = [id \in Ids |-> NoEvent] /\ eventRevisionsById' = [id \in Ids |-> 0]
      /\ UNCHANGED <<segs, acked, pruned, pushes, restarts>>
  BY DEF Crash
<1>2. /\ log' \in Seq(Line) /\ activeLen' \in Nat /\ openTail' \in BOOLEAN
      /\ OneRecordPerId'
      /\ \A i \in Intact' : log'[i].rev >= 1
      /\ \A i, j \in Intact' : log'[i].rev = log'[j].rev => i = j
      /\ Bounded'
  <2>1. CASE UNCHANGED <<log, activeLen, openTail>>
    BY <1>1, <2>1 DEF TypeOK, DiskInv, OneRecordPerId, Intact, Bounded
  <2>2. ASSUME task.step = "append",
               NEW k \in 0..Len(task.records), NEW tail \in Tails, Write(task.records, k, tail)
        PROVE  /\ log' \in Seq(Line) /\ activeLen' \in Nat /\ openTail' \in BOOLEAN
               /\ OneRecordPerId'
               /\ \A i \in Intact' : log'[i].rev >= 1
               /\ \A i, j \in Intact' : log'[i].rev = log'[j].rev => i = j
               /\ Bounded'
    <3>1. task # NoTask
      BY <2>2 DEF NoTask
    <3> QED
      BY <1>1, <2>2, <3>1, WriteStep
  <2> QED
    BY <2>1, <2>2 DEF Crash
<1>3. TypeOK'
  <2>1. /\ eventsById' \in [Ids -> Event \cup {NoEvent}] /\ eventRevisionsById' \in [Ids -> Nat]
        /\ queue' \in Seq(Waiting) /\ revision' \in Nat
    BY <1>1
  <2> QED
    BY <1>1, <1>2, <2>1 DEF TypeOK
<1>4. MemoryInv'
  BY <1>1 DEF MemoryInv, RevisionsAreUnique, Stored
<1>5. DiskInv'
  BY <1>1, <1>2 DEF DiskInv, DiskWithinMemory, Intact
<1>6. TaskInv'
  BY <1>1 DEF TaskInv
<1>7. AnswerInv'
  BY <1>1 DEF AnswerInv, AnswersAgree, TaskAnswers
<1> QED
  BY <1>2, <1>3, <1>4, <1>5, <1>6, <1>7

\* A restart rebuilds memory from the log: it knows every intact record as it
\* was numbered, and no answer has been given in its epoch.
LEMMA RestartStep ==
    ASSUME IndInv, Restart
    PROVE  IndInv'
<1> USE DEF IndInv, StorageInv
<1>1. /\ TypeOK /\ up' /\ restarts' = restarts + 1
      /\ eventsById' = LoadedEvents(log) /\ eventRevisionsById' = LoadedRevisions(log)
      /\ revision' = LoadedRevision(log)
      /\ UNCHANGED <<queue, task, log, segs, activeLen, openTail, acked, pruned, pushes>>
      /\ task = NoTask /\ restarts < MaxRestarts
  BY DEF Restart, disk, MemoryInv
<1>2. /\ LoadedEvents(log) \in [Ids -> Event \cup {NoEvent}]
      /\ LoadedRevisions(log) \in [Ids -> Nat]
      /\ LoadedRevision(log) \in Nat
      /\ \A id \in Ids : LoadedRevisions(log)[id] <= LoadedRevision(log)
      /\ \A i \in Intact : /\ LoadedEvents(log)[log[i].event.id] = log[i].event
                           /\ LoadedRevisions(log)[log[i].event.id] = log[i].rev
      /\ \A id \in Ids : LoadedEvents(log)[id] # NoEvent =>
            \E i \in Intact : /\ log[i].event.id = id
                              /\ LoadedEvents(log)[id] = log[i].event
                              /\ LoadedRevisions(log)[id] = log[i].rev
  BY <1>1, LoadFacts DEF DiskInv
<1>3. TypeOK'
  <2>1. restarts' \in 0..MaxRestarts
    BY <1>1, BoundsAssumption DEF TypeOK
  <2> QED
    BY <1>1, <1>2, <2>1 DEF TypeOK
<1>4. MemoryInv'
  <2>1. ASSUME NEW id \in Ids, LoadedEvents(log)[id] # NoEvent
        PROVE  /\ LoadedEvents(log)[id].id = id
               /\ LoadedRevisions(log)[id] \in 1..LoadedRevision(log)
    <3>1. PICK i \in Intact : /\ log[i].event.id = id
                              /\ LoadedEvents(log)[id] = log[i].event
                              /\ LoadedRevisions(log)[id] = log[i].rev
      BY <1>2, <2>1
    <3>2. log[i].rev >= 1
      BY DEF DiskInv
    <3>3. LoadedRevisions(log)[id] \in Nat /\ LoadedRevisions(log)[id] <= LoadedRevision(log)
      BY <1>2
    <3> QED
      BY <1>2, <3>1, <3>2, <3>3
  <2>2. ASSUME NEW a \in Ids, NEW b \in Ids,
               LoadedEvents(log)[a] # NoEvent, LoadedEvents(log)[b] # NoEvent,
               LoadedRevisions(log)[a] = LoadedRevisions(log)[b]
        PROVE  a = b
    <3>1. PICK i \in Intact : log[i].event.id = a /\ LoadedRevisions(log)[a] = log[i].rev
      BY <1>2, <2>2
    <3>2. PICK j \in Intact : log[j].event.id = b /\ LoadedRevisions(log)[b] = log[j].rev
      BY <1>2, <2>2
    <3>3. i = j
      BY <2>2, <3>1, <3>2 DEF DiskInv
    <3> QED
      BY <3>1, <3>2, <3>3
  <2> QED
    BY <1>1, <2>1, <2>2 DEF MemoryInv, RevisionsAreUnique, Stored
<1>5. DiskInv'
  BY <1>1, <1>2 DEF DiskInv, OneRecordPerId, DiskWithinMemory, Intact
<1>6. TaskInv'
  BY <1>1 DEF TaskInv
<1>7. AnswerInv'
  <2>1. \A a \in acked : a.epoch <= restarts /\ a.epoch \in Nat /\ restarts \in Nat
    BY <1>1, AnswerFacts DEF TypeOK, AnswerInv
  <2> QED
    BY <1>1, <2>1 DEF AnswerInv, AnswersAgree, TaskAnswers
<1>8. Bounded'
  BY <1>1 DEF Bounded, Intact
<1> QED
  BY <1>3, <1>4, <1>5, <1>6, <1>7, <1>8

\* A step that changes no variable preserves the invariant.
LEMMA StutterStep ==
    ASSUME IndInv, UNCHANGED vars
    PROVE  IndInv'
<1> USE DEF IndInv, StorageInv, vars, memory, disk
<1>1. TypeOK'
  BY DEF TypeOK
<1>2. MemoryInv'
  BY DEF MemoryInv, RevisionsAreUnique, Stored
<1>3. DiskInv' /\ TaskInv' /\ Bounded'
  BY DEF DiskInv, OneRecordPerId, DiskWithinMemory, TaskInv, Intact, Bounded
<1>4. AnswerInv'
  BY DEF AnswerInv, AnswersAgree, TaskAnswers
<1> QED
  BY <1>1, <1>2, <1>3, <1>4

\* Every step of the storage preserves the invariant.
LEMMA NextStep ==
    ASSUME IndInv, DistinctIds, [Next]_vars
    PROVE  IndInv'
<1>1. TypeOK /\ log \in Seq(Line) /\ segs \in Seq(Nat) /\ activeLen \in Nat /\ openTail \in BOOLEAN
  BY DEF IndInv, StorageInv, TypeOK
<1>2. task.step \in {"rotate", "prune", "append"} => task # NoTask /\ task.records \in Seq(Record)
  BY <1>1 DEF TypeOK, NoTask, Task
<1>3. CASE \E req \in Requests : Submit(req)
  BY <1>3, SubmitStep
<1>4. CASE Push
  BY <1>4, PushStep
<1>5. CASE Rotate
  <2>1. segs' \in Seq(Nat) /\ activeLen' \in Nat /\ openTail' \in BOOLEAN
    <3>1. CASE UNCHANGED <<segs, activeLen, openTail>>
      BY <1>1, <3>1
    <3>2. CASE segs' = Append(segs, activeLen) /\ activeLen' = 0 /\ openTail' = FALSE
      <4>1. Append(segs, activeLen) \in Seq(Nat)
        BY <1>1
      <4> QED
        BY <3>2, <4>1
    <3> QED
      BY <1>5, <3>1, <3>2 DEF Rotate
  <2>2. \E s \in {"rotate", "prune", "append"} : task' = [task EXCEPT !.step = s]
    BY <1>5 DEF Rotate
  <2>3. task # NoTask /\ UNCHANGED <<up, memory, queue, log, acked, pruned, pushes, restarts>>
    BY <1>2, <1>5 DEF Rotate
  <2> QED
    BY <2>1, <2>2, <2>3, QuietStep
<1>6. CASE RenameFails \/ PruneFails
  <2>1. segs' \in Seq(Nat) /\ activeLen' \in Nat /\ openTail' \in BOOLEAN
    BY <1>1, <1>6 DEF RenameFails, PruneFails, disk
  <2>2. task' = [task EXCEPT !.step = "append"]
    BY <1>6 DEF RenameFails, PruneFails
  <2>3. task # NoTask /\ UNCHANGED <<up, memory, queue, log, acked, pruned, pushes, restarts>>
    BY <1>2, <1>6 DEF RenameFails, PruneFails, disk
  <2> QED
    BY <2>1, <2>2, <2>3, QuietStep
<1>7. CASE StatFails
  <2>1. segs' \in Seq(Nat) /\ activeLen' \in Nat /\ openTail' \in BOOLEAN
    BY <1>1, <1>7 DEF StatFails, disk
  <2>2. /\ task # NoTask /\ task' = NoTask
        /\ UNCHANGED <<up, memory, queue, log, acked, pruned, pushes, restarts>>
    BY <1>2, <1>7 DEF StatFails, Fail, disk
  <2> QED
    BY <2>1, <2>2, QuietStep
<1>8. CASE Prune
  BY <1>8, PruneStep
<1>9. CASE AppendFile
  <2>1. /\ up /\ task # NoTask /\ task' = NoTask
        /\ UNCHANGED <<up, memory, queue, segs, pruned, pushes, restarts>>
        /\ acked' \in {acked, acked \cup task.answers}
        /\ Write(task.records, Len(task.records), "none")
    BY <1>2, <1>9 DEF AppendFile
  <2>2. Len(task.records) \in 0..Len(task.records) /\ "none" \in Tails
    BY <1>2, <1>9 DEF AppendFile, Tails
  <2> QED
    BY <2>1, <2>2, WriteEndsTask
<1>10. CASE AppendFails
  <2>1. /\ up /\ task # NoTask /\ task' = NoTask
        /\ UNCHANGED <<up, memory, queue, segs, pruned, pushes, restarts>>
        /\ acked' \in {acked, acked \cup task.answers}
    BY <1>2, <1>10 DEF AppendFails, Fail
  <2>2. PICK k \in 0..Len(task.records), tail \in Tails : Write(task.records, k, tail)
    BY <1>10 DEF AppendFails
  <2> QED
    BY <2>1, <2>2, WriteEndsTask
<1>11. CASE Crash
  BY <1>11, CrashStep
<1>12. CASE Restart
  BY <1>12, RestartStep
<1>13. CASE UNCHANGED vars
  BY <1>13, StutterStep
<1> QED
  BY <1>3, <1>4, <1>5, <1>6, <1>7, <1>8, <1>9, <1>10, <1>11, <1>12, <1>13 DEF Next

-----------------------------------------------------------------------------
(* What was accepted is on disk, if a failed or interrupted write leaves   *)
(* no torn line behind.  The run of EventStorageTorn.cfg shows why the      *)
(* hypothesis is needed.                                                    *)

\* Without a torn tail a write of k whole records extends the log by them.
LEMMA CleanWrite ==
    ASSUME TypeOK, ~openTail, NEW recs \in Seq(Record), NEW k \in 0..Len(recs),
           Write(recs, k, "none")
    PROVE  /\ ~openTail'
           /\ \A i \in DOMAIN log : i \in DOMAIN log' /\ log'[i] = log[i]
           /\ k = Len(recs) => \A m \in DOMAIN recs : \E i \in DOMAIN log' : log'[i] = recs[m]
<1> DEFINE front == SubSeq(recs, 1, k)
           text == Written(recs, k, "none")
<1>1. /\ front \in Seq(Record) /\ Len(front) = k
      /\ \A m \in 1..k : front[m] = recs[m]
  OBVIOUS
<1>2. text = front \o << >>
  BY DEF Written
<1>3. text = front
  BY <1>1, <1>2
<1>4. /\ openTail' = IF text = << >> THEN openTail ELSE FALSE
      /\ log' = IF text = << >> THEN log ELSE log \o text
  BY DEF Write, Glue
<1> HIDE DEF front, text
<1>5. log \in Seq(Line) /\ front \in Seq(Line)
  BY <1>1 DEF TypeOK, Line
<1>6. log \o front \in Seq(Line) /\ (front = << >> => log \o front = log)
  BY <1>5
<1>7. log' = log \o front
  BY <1>3, <1>4, <1>6
<1>8. /\ DOMAIN log' = 1..(Len(log) + k)
      /\ \A i \in DOMAIN log' : log'[i] = IF i <= Len(log) THEN log[i] ELSE front[i - Len(log)]
  <2>1. Len(log) \in Nat /\ k \in Nat /\ Len(front) = k
    BY <1>1, <1>5
  <2>2. Len(log \o front) = Len(log) + k
    BY <1>5, <2>1
  <2>3. \A i \in 1..(Len(log) + k) :
           (log \o front)[i] = IF i <= Len(log) THEN log[i] ELSE front[i - Len(log)]
    BY <1>5, <2>1
  <2> QED
    BY <1>6, <1>7, <2>1, <2>2, <2>3
<1>9. \A i \in DOMAIN log : i \in DOMAIN log' /\ log'[i] = log[i]
  BY <1>5, <1>8
<1>10. ASSUME k = Len(recs), NEW m \in DOMAIN recs
       PROVE  \E i \in DOMAIN log' : log'[i] = recs[m]
  <2>1. m \in 1..k /\ Len(log) \in Nat
    BY <1>5, <1>10
  <2>2. Len(log) + m \in DOMAIN log' /\ log'[Len(log) + m] = front[m]
    BY <1>8, <2>1
  <2> QED
    BY <1>1, <2>1, <2>2
<1> QED
  BY <1>4, <1>9, <1>10

\* Durability is kept by every step that keeps the lines of the log and the
\* task, or ends the task.
LEMMA DurableGrows ==
    ASSUME DurableInv, ~openTail', acked' = acked, pruned \subseteq pruned',
           \A i \in DOMAIN log : i \in DOMAIN log' /\ log'[i] = log[i],
           \/ task' = NoTask
           \/ task = NoTask /\ UNCHANGED task
           \/ task # NoTask /\ task'.records = task.records /\ task'.answers = task.answers
    PROVE  DurableInv'
<1>1. AcceptedIsDurable'
  <2> SUFFICES ASSUME NEW a \in acked, a.status # "duplicate", a.event.id \notin pruned'
               PROVE  \E i \in DOMAIN log' : log'[i] = [rev |-> a.rev, event |-> a.event]
    BY DEF AcceptedIsDurable
  <2>1. PICK i \in DOMAIN log : log[i] = [rev |-> a.rev, event |-> a.event]
    BY DEF DurableInv, AcceptedIsDurable
  <2> QED
    BY <2>1
<1>2. TaskAnswers' = {} \/ (TaskAnswers' = TaskAnswers /\ task'.records = task.records)
  BY DEF TaskAnswers
<1>3. ASSUME NEW a \in TaskAnswers', a.status = "accepted"
      PROVE  \E k \in DOMAIN task'.records : task'.records[k] = [rev |-> a.rev, event |-> a.event]
  <2>1. a \in TaskAnswers /\ task'.records = task.records
    BY <1>2
  <2>2. \E k \in DOMAIN task.records : task.records[k] = [rev |-> a.rev, event |-> a.event]
    BY <1>3, <2>1 DEF DurableInv
  <2> QED
    BY <2>1, <2>2
<1> QED
  BY <1>1, <1>3 DEF DurableInv

\* Every event a push will answer "accepted" is among the records of its task.
LEMMA PushDurable ==
    ASSUME IndInv, DurableInv, DistinctIds, Push
    PROVE  DurableInv'
<1> DEFINE req == Head(queue).req
<1>1. TypeOK /\ queue # << >> /\ task = NoTask
  BY DEF IndInv, StorageInv, Push
<1>2. req \in Requests
  <2>1. queue \in Seq(Waiting)
    BY <1>1 DEF TypeOK
  <2>2. Head(queue) \in Waiting
    BY <1>1, <2>1
  <2> QED
    BY <2>2 DEF Waiting
<1>3. UNCHANGED <<log, openTail, pruned>>
  BY DEF Push, disk
<1>4. \/ Records(req) = << >> /\ acked' = acked \cup Answers(req) /\ task' = NoTask
      \/ /\ task'.records = Records(req) /\ task'.answers = Answers(req)
         /\ acked' = acked
  BY DEF Push
<1> HIDE DEF req
<1>5. \A a \in Answers(req) : a.status = "accepted" =>
         \E k \in DOMAIN Records(req) : Records(req)[k] = [rev |-> a.rev, event |-> a.event]
  <2> SUFFICES ASSUME NEW a \in Answers(req), a.status = "accepted"
               PROVE  \E k \in DOMAIN Records(req) :
                         Records(req)[k] = [rev |-> a.rev, event |-> a.event]
    OBVIOUS
  <2>1. PICK i \in DOMAIN req.events :
           a = [event |-> req.events[i],
                rev |-> RevisionAfter(req, req.events[i].id),
                status |-> IF i \in Accepted(req) THEN "accepted" ELSE "duplicate",
                epoch |-> restarts]
    BY DEF Answers
  <2>2. i \in Accepted(req)
    BY <2>1
  <2>3. PICK k \in DOMAIN NewEvents(req) : NewEvents(req)[k] = req.events[i]
    BY <1>1, <1>2, <2>2, NewEventsFacts
  <2>4. RevisionAfter(req, req.events[i].id) = revision + k
    BY <1>1, <1>2, <2>3, MemoryAfter
  <2>5. /\ DOMAIN Records(req) = DOMAIN NewEvents(req)
        /\ Records(req)[k] = [rev |-> revision + k, event |-> NewEvents(req)[k]]
    BY <1>1, <1>2, RecordsFacts
  <2> QED
    BY <2>1, <2>3, <2>4, <2>5
<1>6. CASE Records(req) = << >> /\ acked' = acked \cup Answers(req) /\ task' = NoTask
  <2>1. \A a \in Answers(req) : a.status = "duplicate"
    <3>1. \A a \in Answers(req) : a.status \in {"accepted", "duplicate"}
      BY DEF Answers
    <3> QED
      BY <1>5, <1>6, <3>1
  <2>2. AcceptedIsDurable'
    BY <1>3, <1>6, <2>1 DEF DurableInv, AcceptedIsDurable
  <2>3. TaskAnswers' = {}
    BY <1>6 DEF TaskAnswers
  <2> QED
    BY <1>3, <2>2, <2>3 DEF DurableInv
<1>7. CASE /\ task'.records = Records(req) /\ task'.answers = Answers(req)
           /\ acked' = acked
  <2>1. AcceptedIsDurable'
    BY <1>3, <1>7 DEF DurableInv, AcceptedIsDurable
  <2>2. TaskAnswers' \subseteq Answers(req)
    BY <1>7 DEF TaskAnswers
  <2> QED
    BY <1>3, <1>5, <1>7, <2>1, <2>2 DEF DurableInv
<1> QED
  BY <1>4, <1>6, <1>7

\* The completed write carries every record its answers speak of.
LEMMA AppendDurable ==
    ASSUME IndInv, DurableInv, AppendFile
    PROVE  DurableInv'
<1>1. /\ TypeOK /\ task \in Task /\ task # NoTask
      /\ task' = NoTask /\ pruned' = pruned /\ acked' = acked \cup task.answers
      /\ Write(task.records, Len(task.records), "none")
  BY DEF IndInv, StorageInv, TypeOK, AppendFile, NoTask
<1>2. task.records \in Seq(Record) /\ Len(task.records) \in 0..Len(task.records)
  BY <1>1 DEF Task
<1>3. /\ ~openTail'
      /\ \A i \in DOMAIN log : i \in DOMAIN log' /\ log'[i] = log[i]
      /\ \A m \in DOMAIN task.records : \E i \in DOMAIN log' : log'[i] = task.records[m]
  BY <1>1, <1>2, CleanWrite DEF DurableInv
<1>4. ASSUME NEW a \in acked'
      PROVE  \/ a.status = "duplicate" \/ a.event.id \in pruned'
             \/ \E i \in DOMAIN log' : log'[i] = [rev |-> a.rev, event |-> a.event]
  <2>1. CASE a \in acked
    BY <1>1, <1>3, <2>1 DEF DurableInv, AcceptedIsDurable
  <2>2. CASE a \in task.answers
    <3>1. a.status \in {"accepted", "duplicate"}
      BY <1>1, <2>2 DEF Task, Answer
    <3>2. CASE a.status = "accepted"
      <4>1. PICK m \in DOMAIN task.records : task.records[m] = [rev |-> a.rev, event |-> a.event]
        BY <1>1, <2>2, <3>2 DEF DurableInv, TaskAnswers
      <4> QED
        BY <1>3, <4>1
    <3> QED
      BY <3>1, <3>2
  <2> QED
    BY <1>1, <2>1, <2>2
<1>5. TaskAnswers' = {}
  BY <1>1 DEF TaskAnswers
<1> QED
  BY <1>3, <1>4, <1>5 DEF DurableInv, AcceptedIsDurable

\* Pruning takes away only what it notes as pruned.
LEMMA PruneDurable ==
    ASSUME IndInv, DurableInv, Prune
    PROVE  DurableInv'
<1>1. TypeOK /\ task # NoTask /\ ~openTail' /\ acked' = acked
  BY DEF IndInv, StorageInv, Prune, NoTask, DurableInv
<1>2. CASE ~(Len(segs) > KeepSegments)
  <2>1. /\ task' = [task EXCEPT !.step = "append"] /\ task \in Task
        /\ pruned' = pruned /\ log' = log
    BY <1>1, <1>2 DEF Prune, TypeOK
  <2>2. task'.records = task.records /\ task'.answers = task.answers
    BY <2>1 DEF Task
  <2> QED
    BY <1>1, <2>1, <2>2, DurableGrows
<1>3. CASE Len(segs) > KeepSegments
  <2>1. /\ log' = SubSeq(log, segs[1] + 1, Len(log)) /\ task' = task
        /\ pruned' = pruned \cup {log[i].event.id : i \in {j \in 1..Len(log) :
                                     j <= segs[1] /\ log[j] # Torn}}
    BY <1>3 DEF Prune
  <2>2. segs[1] \in Nat /\ log \in Seq(Line)
    BY <1>1, <1>3, PolicyAssumption DEF TypeOK
  <2> DEFINE n == segs[1]
  <2> HIDE DEF n
  <2>3. n \in Nat /\ Len(log) \in Nat /\ log' = SubSeq(log, n + 1, Len(log))
    BY <2>1, <2>2 DEF n
  <2>4. \A i \in 1..Len(log) : i > n => i - n \in DOMAIN log' /\ log'[i - n] = log[i]
    BY <2>2, <2>3
  <2>5. ASSUME NEW a \in acked, a.status # "duplicate", a.event.id \notin pruned'
        PROVE  \E i \in DOMAIN log' : log'[i] = [rev |-> a.rev, event |-> a.event]
    <3>1. a.event.id \notin pruned
      BY <2>1, <2>5
    <3>2. PICK i \in 1..Len(log) : log[i] = [rev |-> a.rev, event |-> a.event]
      BY <2>2, <2>5, <3>1 DEF DurableInv, AcceptedIsDurable
    <3>3. log[i] # Torn
      <4>1. a.rev \in Nat /\ a.event \in Event
        BY <1>1, AnswerFacts DEF TypeOK
      <4>2. [rev |-> a.rev, event |-> a.event] \in Record
        BY <4>1 DEF Record
      <4> QED
        BY <3>2, <4>2, TornAssumption
    <3>4. ~(i <= n)
      BY <2>1, <2>5, <3>2, <3>3 DEF n
    <3>5. i > n
      BY <2>3, <3>4
    <3> QED
      BY <2>4, <3>2, <3>5
  <2>6. AcceptedIsDurable'
    BY <1>1, <2>5 DEF AcceptedIsDurable
  <2> QED
    BY <1>1, <2>1, <2>6 DEF DurableInv, TaskAnswers
<1> QED
  BY <1>2, <1>3

\* A crash ends the task; a write it interrupts has happened whole or not.
LEMMA CrashDurable ==
    ASSUME IndInv, DurableInv, NoTear, Crash
    PROVE  DurableInv'
<1>1. TypeOK /\ task' = NoTask /\ acked' = acked /\ pruned' = pruned
  BY DEF IndInv, StorageInv, Crash
<1>2. CASE UNCHANGED <<log, activeLen, openTail>>
  BY <1>1, <1>2, DurableGrows DEF DurableInv
<1>3. CASE /\ task.step = "append"
           /\ Write(task.records, Len(task.records), "none")
  <2>1. task.records \in Seq(Record) /\ Len(task.records) \in 0..Len(task.records)
    BY <1>1, <1>3 DEF TypeOK, Task, NoTask
  <2>2. ~openTail' /\ \A i \in DOMAIN log : i \in DOMAIN log' /\ log'[i] = log[i]
    BY <1>1, <1>3, <2>1, CleanWrite DEF DurableInv
  <2> QED
    BY <1>1, <2>2, DurableGrows
<1> QED
  BY <1>2, <1>3 DEF Crash, NoTear

\* A failed write without a torn tail has written nothing.
LEMMA AppendFailsDurable ==
    ASSUME IndInv, DurableInv, NoTear, AppendFails
    PROVE  DurableInv'
<1>1. /\ TypeOK /\ task' = NoTask /\ acked' = acked /\ pruned' = pruned
      /\ Write(task.records, 0, "none")
  BY DEF IndInv, StorageInv, AppendFails, Fail, NoTear
<1>2. task.records \in Seq(Record) /\ 0 \in 0..Len(task.records)
  BY DEF IndInv, StorageInv, AppendFails, TypeOK, Task, NoTask
<1>3. ~openTail' /\ \A i \in DOMAIN log : i \in DOMAIN log' /\ log'[i] = log[i]
  BY <1>1, <1>2, CleanWrite DEF DurableInv
<1> QED
  BY <1>1, <1>3, DurableGrows

-----------------------------------------------------------------------------
(* What boot and a write make of the lines of a log.                       *)

\* What boot makes of any sequence of lines with one record per id: each record
\* under its id, nothing under the others, and the highest revision.
LEMMA LinesLoad ==
    ASSUME NEW lines \in Seq(Line), NEW bound \in Nat,
           \A i \in DOMAIN lines : lines[i] # Torn => lines[i].rev <= bound,
           \A i, j \in DOMAIN lines : lines[i] # Torn /\ lines[j] # Torn =>
              (lines[i].event.id = lines[j].event.id => i = j)
    PROVE  /\ LoadedRevision(lines) \in {0} \cup {LoadedRevisions(lines)[id] : id \in Ids}
           /\ \A id \in Ids : LoadedRevisions(lines)[id] <= LoadedRevision(lines)
           /\ LoadedEvents(lines) = [id \in Ids |-> LoadedEvents(lines)[id]]
           /\ LoadedRevisions(lines) = [id \in Ids |-> LoadedRevisions(lines)[id]]
           /\ \A id \in Ids : Positions(lines, id) = {} =>
                 LoadedEvents(lines)[id] = NoEvent /\ LoadedRevisions(lines)[id] = 0
           /\ \A id \in Ids, i \in DOMAIN lines : i \in Positions(lines, id) =>
                 /\ LoadedEvents(lines)[id] = lines[i].event
                 /\ LoadedRevisions(lines)[id] = lines[i].rev
<1>1. \A id \in Ids, i \in DOMAIN lines : i \in Positions(lines, id) => FirstAt(lines, id) = i
  <2> SUFFICES ASSUME NEW id \in Ids, NEW i \in Positions(lines, id)
               PROVE  FirstAt(lines, id) = i
    OBVIOUS
  <2>1. Positions(lines, id) = {i}
    BY DEF Positions
  <2>2. i <= i
    BY DEF Positions
  <2> QED
    BY <2>1, <2>2 DEF FirstAt
<1>2. \A id \in Ids, i \in DOMAIN lines : i \in Positions(lines, id) =>
         /\ LoadedEvents(lines)[id] = lines[i].event
         /\ LoadedRevisions(lines)[id] = lines[i].rev
  BY <1>1 DEF LoadedEvents, LoadedRevisions
<1>3. \A id \in Ids : Positions(lines, id) = {} =>
         LoadedEvents(lines)[id] = NoEvent /\ LoadedRevisions(lines)[id] = 0
  BY DEF LoadedEvents, LoadedRevisions
<1>4. \A id \in Ids : LoadedRevisions(lines)[id] \in Nat /\ LoadedRevisions(lines)[id] <= bound
  <2> SUFFICES ASSUME NEW id \in Ids, NEW i \in Positions(lines, id)
               PROVE  LoadedRevisions(lines)[id] \in Nat /\ LoadedRevisions(lines)[id] <= bound
    BY <1>3
  <2>1. i \in DOMAIN lines /\ lines[i] # Torn /\ lines[i] \in Line
    BY DEF Positions
  <2>2. lines[i].rev \in Nat
    BY <2>1 DEF Line, Record
  <2> QED
    BY <1>2, <2>1, <2>2
<1> DEFINE revs == {0} \cup {LoadedRevisions(lines)[id] : id \in Ids}
<1>5. revs \in SUBSET Nat /\ revs # {} /\ \A s \in revs : s <= bound
  BY <1>4
<1>6. LoadedRevision(lines) = CHOOSE r \in revs : \A s \in revs : s <= r
  BY DEF LoadedRevision
<1>7. \A id \in Ids : LoadedRevisions(lines)[id] \in revs
  OBVIOUS
<1>8. LoadedRevision(lines) \in revs /\ \A s \in revs : s <= LoadedRevision(lines)
  <2> HIDE DEF revs
  <2>1. \E r \in revs : \A s \in revs : s <= r
    BY <1>5, GreatestExists
  <2> QED
    BY <1>6, <2>1
<1>9. /\ LoadedEvents(lines) = [id \in Ids |-> LoadedEvents(lines)[id]]
      /\ LoadedRevisions(lines) = [id \in Ids |-> LoadedRevisions(lines)[id]]
  BY DEF LoadedEvents, LoadedRevisions
<1> QED
  BY <1>2, <1>3, <1>7, <1>8, <1>9

\* A write leaves every line as it was, except an open last line.
LEMMA WriteKeeps ==
    ASSUME TypeOK, NEW recs \in Seq(Record), NEW k \in 0..Len(recs), NEW tail \in Tails,
           Write(recs, k, tail)
    PROVE  \A i \in DOMAIN log : \/ i \in DOMAIN log' /\ log'[i] = log[i]
                                 \/ openTail /\ i = Len(log)
<1> DEFINE text == Written(recs, k, tail)
<1>1. text \in Seq(Line)
  BY WrittenFacts DEF Write
<1>2. log' = Glue(text) /\ log \in Seq(Line)
  BY DEF Write, TypeOK
<1> HIDE DEF text
<1>3. CASE text = << >>
  BY <1>2, <1>3 DEF Glue
<1>4. CASE text # << >> /\ ~openTail
  <2>1. log' = log \o text
    BY <1>2, <1>4 DEF Glue
  <2> QED
    BY <1>1, <1>2, <2>1
<1>5. CASE text # << >> /\ openTail
  <2> DEFINE front == SubSeq(log, 1, Len(log) - 1)
  <2>1. log' = front \o <<Torn>> \o Tail(text)
    BY <1>2, <1>5 DEF Glue
  <2>2. /\ front \in Seq(Line) /\ Torn \in Line /\ Tail(text) \in Seq(Line)
        /\ \A i \in DOMAIN log : i # Len(log) => i \in 1..Len(front) /\ front[i] = log[i]
    BY <1>1, <1>2, <1>5 DEF Line
  <2> HIDE DEF front
  <2>3. /\ front \o <<Torn>> \in Seq(Line) /\ Len(front \o <<Torn>>) = Len(front) + 1
        /\ \A i \in 1..Len(front) : (front \o <<Torn>>)[i] = front[i]
    BY <2>2
  <2>4. \A i \in 1..Len(front) : i \in DOMAIN log' /\ log'[i] = front[i]
    <3> DEFINE glued == front \o <<Torn>>
               both == glued \o Tail(text)
    <3>1. glued \in Seq(Line) /\ Len(glued) = Len(front) + 1 /\ log' = glued \o Tail(text)
          /\ \A i \in 1..Len(front) : glued[i] = front[i]
      BY <2>1, <2>3
    <3> HIDE DEF glued
    <3>2. Len(front) \in Nat
      BY <2>2
    <3>3. log' = both
      BY <3>1
    <3> HIDE DEF both
    <3>4. /\ both \in Seq(Line) /\ Len(both) = Len(glued) + Len(Tail(text))
          /\ \A i \in 1..Len(both) :
                both[i] = IF i <= Len(glued) THEN glued[i] ELSE Tail(text)[i - Len(glued)]
      BY <2>2, <3>1, Concatenated DEF both
    <3>5. Len(Tail(text)) \in Nat
      BY <2>2
    <3>6. DOMAIN both = 1..Len(both)
      BY <3>4
    <3> QED
      BY <3>1, <3>2, <3>3, <3>4, <3>5, <3>6
  <2> QED
    BY <1>5, <2>2, <2>4
<1> QED
  BY <1>3, <1>4, <1>5

-----------------------------------------------------------------------------
(* The log is in the order of its revisions.                               *)

\* Every record of the log is in memory, at or below the server's revision.
LEMMA LogBelowRevision ==
    ASSUME IndInv, up
    PROVE  \A i \in Intact : /\ log[i].rev \in Nat /\ log[i].rev <= revision
                             /\ log[i].event.id \in Ids /\ log[i].event # NoEvent
                             /\ log[i].event \in Event
<1> SUFFICES ASSUME NEW i \in Intact
             PROVE  /\ log[i].rev \in Nat /\ log[i].rev <= revision
                    /\ log[i].event.id \in Ids /\ log[i].event # NoEvent
                    /\ log[i].event \in Event
  OBVIOUS
<1> USE DEF IndInv, StorageInv
<1>1. log[i] \in Record /\ revision \in Nat
  BY DEF TypeOK, Line, Intact
<1>2. log[i].rev \in Nat /\ log[i].event \in Event /\ log[i].event.id \in Ids
  BY <1>1 DEF Record, Event
<1>3. /\ eventsById[log[i].event.id] = log[i].event
      /\ eventRevisionsById[log[i].event.id] = log[i].rev
  BY DEF DiskInv, DiskWithinMemory, Intact
<1>4. log[i].event # NoEvent
  BY <1>2, IdsAssumption
<1>5. log[i].rev \in 1..revision
  BY <1>2, <1>3, <1>4 DEF MemoryInv, RevisionsAreUnique, Stored
<1> QED
  BY <1>1, <1>2, <1>4, <1>5

\* A write of the task's records keeps the log in the order of its revisions.
LEMMA WriteOrdered ==
    ASSUME IndInv, OrderInv, task # NoTask,
           NEW k \in 0..Len(task.records), NEW tail \in Tails, Write(task.records, k, tail)
    PROVE  \A i, j \in Intact' : i < j => log'[i].rev < log'[j].rev
<1> DEFINE recs == task.records
<1>1. TypeOK /\ recs \in Seq(Record) /\ task \in Task
  BY DEF IndInv, StorageInv, TypeOK, Task
<1> HIDE DEF recs
<1>2. PICK off \in Nat :
        /\ log' \in Seq(Line)
        /\ \A i \in DOMAIN log' :
              \/ log'[i] = Torn
              \/ i \in DOMAIN log /\ i <= off /\ log'[i] = log[i]
              \/ i > off /\ i - off \in DOMAIN recs /\ log'[i] = recs[i - off]
  BY <1>1, WriteFacts DEF recs
<1> DEFINE Was(i) == i \in Intact /\ i <= off /\ log'[i] = log[i]
           Is(i) == i > off /\ i - off \in DOMAIN recs /\ log'[i] = recs[i - off]
<1>3. \A i \in Intact' : i \in Nat /\ (Was(i) \/ Is(i))
  BY <1>2 DEF Intact
<1>4. \A m \in DOMAIN recs :
         /\ \A i \in Intact : log[i].rev < recs[m].rev
         /\ \A l \in DOMAIN recs : l < m => recs[l].rev < recs[m].rev
  BY DEF OrderInv, recs
<1>5. ASSUME NEW i \in Intact', NEW j \in Intact', i < j
      PROVE  log'[i].rev < log'[j].rev
  <2>1. CASE Was(i) /\ Was(j)
    BY <1>5, <2>1 DEF OrderInv
  <2>2. CASE Was(i) /\ Is(j)
    BY <1>4, <2>2
  <2>3. CASE Is(i) /\ Is(j)
    <3>1. i - off < j - off
      BY <1>3, <1>5
    <3> QED
      BY <1>4, <2>3, <3>1
  <2>4. ~(Is(i) /\ Was(j))
    BY <1>3, <1>5
  <2> QED
    BY <1>3, <2>1, <2>2, <2>3, <2>4
<1> QED
  BY <1>5

\* A step that keeps the lines of the log keeps them ordered; the task goes on
\* with its records or ends.
LEMMA OrderQuiet ==
    ASSUME IndInv, OrderInv, log' = log, openTail' \in {openTail, FALSE},
           \/ task' = NoTask
           \/ task' = task
           \/ task # NoTask /\ \E s \in {"rotate", "prune", "append"} : task' = [task EXCEPT !.step = s]
    PROVE  OrderInv'
<1>1. Intact' = Intact
  BY DEF Intact
<1>2. task' = NoTask \/ (task # NoTask /\ task'.records = task.records)
  <2>1. task # NoTask => task \in Task
    BY DEF IndInv, StorageInv, TypeOK
  <2> QED
    BY <2>1 DEF Task
<1>3. openTail' => "tear" \in Faults
  BY DEF OrderInv
<1>4. \A i, j \in Intact' : i < j => log'[i].rev < log'[j].rev
  BY <1>1 DEF OrderInv
<1>5. task' # NoTask => \A k \in DOMAIN task'.records :
          /\ \A i \in Intact' : log'[i].rev < task'.records[k].rev
          /\ \A l \in DOMAIN task'.records : l < k => task'.records[l].rev < task'.records[k].rev
  BY <1>1, <1>2 DEF OrderInv
<1> QED
  BY <1>3, <1>4, <1>5 DEF OrderInv

\* A write that ends its task leaves an ordered log.
LEMMA OrderWrite ==
    ASSUME IndInv, OrderInv, task # NoTask, task' = NoTask,
           NEW k \in 0..Len(task.records), NEW tail \in Tails, Write(task.records, k, tail),
           tail = "none" \/ "tear" \in Faults
    PROVE  OrderInv'
<1>1. \A i, j \in Intact' : i < j => log'[i].rev < log'[j].rev
  BY WriteOrdered
<1>2. openTail' \in {openTail, tail # "none"}
  BY DEF Write
<1> QED
  BY <1>1, <1>2 DEF OrderInv

\* The records of a push take revisions above every record of the log.
LEMMA OrderPush ==
    ASSUME IndInv, OrderInv, DistinctIds, Push
    PROVE  OrderInv'
<1> DEFINE req == Head(queue).req
           N == NewEvents(req)
<1>1. TypeOK /\ up /\ queue # << >> /\ revision \in Nat
  BY DEF IndInv, StorageInv, TypeOK, Push
<1>2. req \in Requests
  <2>1. Head(queue) \in Waiting
    BY <1>1 DEF TypeOK
  <2> QED
    BY <2>1 DEF Waiting
<1>3. log' = log /\ openTail' = openTail /\ Intact' = Intact
  BY DEF Push, disk, Intact
<1>4. task' = NoTask \/ task'.records = Records(req)
  BY DEF Push
<1> HIDE DEF req
<1>5. DOMAIN N = 1..Len(N) /\ Len(N) \in Nat
  BY <1>1, <1>2, NewEventsFacts
<1>6. DOMAIN Records(req) = DOMAIN N /\ \A m \in DOMAIN N : Records(req)[m].rev = revision + m
  <2>1. /\ DOMAIN Records(req) = DOMAIN N
        /\ \A m \in DOMAIN N : Records(req)[m] = [rev |-> revision + m, event |-> N[m]]
    BY <1>1, <1>2, RecordsFacts
  <2> HIDE DEF N
  <2> QED
    BY <2>1
<1> HIDE DEF N
<1>7. task' # NoTask => \A m \in DOMAIN task'.records :
          /\ \A i \in Intact : log[i].rev < task'.records[m].rev
          /\ \A l \in DOMAIN task'.records : l < m => task'.records[l].rev < task'.records[m].rev
  <2> SUFFICES ASSUME NEW m \in DOMAIN N
               PROVE  /\ \A i \in Intact : log[i].rev < Records(req)[m].rev
                      /\ \A l \in DOMAIN N : l < m => Records(req)[l].rev < Records(req)[m].rev
    BY <1>4, <1>6
  <2>1. \A i \in Intact : log[i].rev \in Nat /\ log[i].rev <= revision
    BY <1>1, LogBelowRevision
  <2>2. \A i \in Intact : log[i].rev < revision + m
    BY <1>1, <1>5, <2>1
  <2>3. \A l \in DOMAIN N : l < m => revision + l < revision + m
    BY <1>1, <1>5
  <2> QED
    BY <1>6, <2>2, <2>3
<1>8. \A i, j \in Intact' : i < j => log'[i].rev < log'[j].rev
  BY <1>3 DEF OrderInv
<1> QED
  BY <1>3, <1>7, <1>8 DEF OrderInv

\* Unlinking a segment takes lines from the front of the log: the rest keeps
\* its order, and nothing that is left is older than what went.
LEMMA PruneFront ==
    ASSUME IndInv, Prune, Len(segs) > KeepSegments
    PROVE  \E n \in Nat :
              /\ \A i \in Intact' : i \in Nat /\ i + n \in Intact /\ log'[i] = log[i + n]
              /\ \A j \in Intact : j > n => j - n \in Intact' /\ log'[j - n] = log[j]
<1>1. TypeOK /\ log' = SubSeq(log, segs[1] + 1, Len(log))
  BY DEF IndInv, StorageInv, Prune
<1>2. segs[1] \in Nat /\ log \in Seq(Line)
  BY <1>1, PolicyAssumption DEF TypeOK
<1> DEFINE n == segs[1]
<1> HIDE DEF n
<1>3. n \in Nat /\ Len(log) \in Nat /\ log' = SubSeq(log, n + 1, Len(log))
  BY <1>1, <1>2 DEF n
<1>4. \A i \in DOMAIN log' : i \in Nat /\ i + n \in DOMAIN log /\ log'[i] = log[i + n]
  <2>1. log \in Seq(Line)
    BY <1>2
  <2>2. /\ log' \in Seq(Line)
        /\ Len(log') = IF n + 1 <= Len(log) THEN Len(log) - n ELSE 0
    BY <1>3, <2>1
  <2>3. \A i \in 1..Len(log') : i + n \in 1..Len(log) /\ log'[i] = log[i + n]
    BY <1>3, <2>1, <2>2
  <2> QED
    BY <1>3, <2>1, <2>2, <2>3
<1>5. \A j \in DOMAIN log : j > n => j - n \in DOMAIN log' /\ log'[j - n] = log[j]
  BY <1>2, <1>3
<1>6. \A i \in Intact' : i \in Nat /\ i + n \in Intact /\ log'[i] = log[i + n]
  BY <1>4 DEF Intact
<1>7. \A j \in Intact : j > n => j - n \in Intact' /\ log'[j - n] = log[j]
  BY <1>5 DEF Intact
<1> QED
  BY <1>3, <1>6, <1>7

\* What pruning leaves is ordered as it was.
LEMMA OrderPrune ==
    ASSUME IndInv, OrderInv, Prune
    PROVE  OrderInv'
<1>1. TypeOK /\ task # NoTask /\ openTail' = openTail
  BY DEF IndInv, StorageInv, Prune, NoTask
<1>2. CASE ~(Len(segs) > KeepSegments)
  <2>1. log' = log /\ task' = [task EXCEPT !.step = "append"]
    BY <1>2 DEF Prune
  <2> QED
    BY <1>1, <2>1, OrderQuiet
<1>3. CASE Len(segs) > KeepSegments
  <2>1. task' = task
    BY <1>3 DEF Prune
  <2>2. PICK n \in Nat :
           \A i \in Intact' : i \in Nat /\ i + n \in Intact /\ log'[i] = log[i + n]
    BY <1>3, PruneFront
  <2>3. \A i, j \in Intact' : i < j => i + n < j + n
    BY <2>2
  <2>4. \A i, j \in Intact' : i < j => log'[i].rev < log'[j].rev
    BY <2>2, <2>3 DEF OrderInv
  <2>5. \A k \in DOMAIN task.records :
          /\ \A i \in Intact' : log'[i].rev < task.records[k].rev
          /\ \A l \in DOMAIN task.records : l < k => task.records[l].rev < task.records[k].rev
    BY <1>1, <2>2 DEF OrderInv
  <2> QED
    BY <1>1, <2>1, <2>4, <2>5 DEF OrderInv
<1> QED
  BY <1>2, <1>3

\* Every step keeps the log in the order of its revisions.
LEMMA OrderStep ==
    ASSUME IndInv, OrderInv, DistinctIds, [Next]_vars
    PROVE  OrderInv'
<1>1. TypeOK
  BY DEF IndInv, StorageInv
<1>2. task.step \in {"rotate", "prune", "append"} =>
         task # NoTask /\ task.records \in Seq(Record) /\ Len(task.records) \in 0..Len(task.records)
  BY <1>1 DEF TypeOK, NoTask, Task
<1>3. CASE (\E req \in Requests : Submit(req)) \/ Restart \/ UNCHANGED vars
  <2>1. UNCHANGED <<log, openTail, task>>
    BY <1>3 DEF Submit, Restart, vars, disk
  <2> QED
    BY <2>1, OrderQuiet
<1>4. CASE Push
  BY <1>4, OrderPush
<1>5. CASE Rotate \/ RenameFails \/ PruneFails
  <2>1. /\ log' = log /\ openTail' \in {openTail, FALSE} /\ task # NoTask
        /\ \E s \in {"append", "prune"} : task' = [task EXCEPT !.step = s]
    BY <1>2, <1>5 DEF Rotate, RenameFails, PruneFails, disk
  <2> QED
    BY <2>1, OrderQuiet
<1>6. CASE StatFails
  <2>1. UNCHANGED <<log, openTail>> /\ task' = NoTask
    BY <1>6 DEF StatFails, Fail, disk
  <2> QED
    BY <2>1, OrderQuiet
<1>7. CASE Prune
  BY <1>7, OrderPrune
<1>8. CASE AppendFile
  <2>1. /\ task # NoTask /\ task' = NoTask /\ "none" \in Tails
        /\ Len(task.records) \in 0..Len(task.records)
        /\ Write(task.records, Len(task.records), "none")
    BY <1>2, <1>8 DEF AppendFile, Tails
  <2> QED
    BY <2>1, OrderWrite
<1>9. CASE AppendFails
  <2>1. PICK k \in 0..Len(task.records), tail \in Tails :
           ("tear" \in Faults \/ tail = "none") /\ Write(task.records, k, tail)
    BY <1>9 DEF AppendFails
  <2>2. task # NoTask /\ task' = NoTask
    BY <1>2, <1>9 DEF AppendFails, Fail
  <2> QED
    BY <2>1, <2>2, OrderWrite
<1>10. CASE Crash
  <2>1. CASE UNCHANGED <<log, activeLen, openTail>>
    BY <1>10, <2>1, OrderQuiet DEF Crash
  <2>2. CASE /\ task.step = "append"
             /\ \E k \in 0..Len(task.records), tail \in Tails :
                   /\ "tear" \in Faults \/ (k = Len(task.records) /\ tail = "none")
                   /\ Write(task.records, k, tail)
    <3>1. task # NoTask /\ task' = NoTask
      BY <1>2, <1>10, <2>2 DEF Crash
    <3> QED
      BY <2>2, <3>1, OrderWrite
  <2> QED
    BY <1>10, <2>1, <2>2 DEF Crash
<1> QED
  BY <1>3, <1>4, <1>5, <1>6, <1>7, <1>8, <1>9, <1>10 DEF Next

-----------------------------------------------------------------------------
(* The steps of the storage as steps of the abstract event log.            *)

\* The kept ids are those of the intact records.
LEMMA KeptAreIntact ==
    ASSUME NEW lines \in Seq(Line), NEW id \in Ids
    PROVE  Positions(lines, id) # {} <=> \E i \in DOMAIN lines : lines[i] # Torn /\ lines[i].event.id = id
  BY DEF Positions

\* A kept event is stored, under the revision of its record.
LEMMA KeptFacts ==
    ASSUME IndInv, up, NEW id \in KeptIds
    PROVE  \E i \in Intact : /\ log[i].event.id = id
                             /\ eventsById[id] = log[i].event
                             /\ eventRevisionsById[id] = log[i].rev
<1>1. PICK i \in Intact : log[i].event.id = id
  BY DEF KeptIds, Positions, Intact
<1> QED
  BY <1>1 DEF IndInv, StorageInv, DiskInv, DiskWithinMemory, Intact

\* A write keeps what it may and damages only the newest kept event, whatever
\* becomes of the process.
LEMMA WriteKeepsIds ==
    ASSUME IndInv, OrderInv, up,
           \/ log' = log
           \/ /\ task # NoTask
              /\ \E k \in 0..Len(task.records), tail \in Tails : Write(task.records, k, tail)
    PROVE  /\ \A i \in Intact' : /\ log'[i].event.id \in KeptIds'
                                 /\ eventsById[log'[i].event.id] = log'[i].event
                                 /\ eventRevisionsById[log'[i].event.id] = log'[i].rev
           /\ KeptIds' \subseteq {id \in Ids : eventsById[id] # NoEvent}
           /\ \A a \in KeptIds \ KeptIds' :
                 "tear" \in Faults /\ \A b \in KeptIds : eventRevisionsById[b] <= eventRevisionsById[a]
<1>1. TypeOK /\ log \in Seq(Line)
  BY DEF IndInv, StorageInv, TypeOK
<1>2. /\ log' \in Seq(Line)
      /\ \A i \in Intact' : /\ eventsById[log'[i].event.id] = log'[i].event
                            /\ eventRevisionsById[log'[i].event.id] = log'[i].rev
  <2>1. CASE log' = log
    BY <1>1, <2>1 DEF IndInv, StorageInv, DiskInv, DiskWithinMemory, Intact
  <2>2. CASE /\ task # NoTask
             /\ \E k \in 0..Len(task.records), tail \in Tails : Write(task.records, k, tail)
    BY <2>2, WriteStep
  <2> QED
    BY <2>1, <2>2
<1>3. \A i \in Intact' : log'[i].event \in Event /\ log'[i].event.id \in Ids
  <2>1. \A i \in Intact' : log'[i] \in Record
    BY <1>2 DEF Line, Intact
  <2> QED
    BY <2>1 DEF Record, Event
<1>4. \A i \in Intact' : log'[i].event.id \in KeptIds'
  BY <1>3 DEF KeptIds, Positions, Intact
<1>5. KeptIds' \subseteq {id \in Ids : eventsById[id] # NoEvent}
  <2> SUFFICES ASSUME NEW id \in KeptIds'
               PROVE  id \in Ids /\ eventsById[id] # NoEvent
    OBVIOUS
  <2>1. PICK i \in Intact' : log'[i].event.id = id
    BY DEF KeptIds, Positions, Intact
  <2> QED
    BY <1>2, <1>3, <2>1, IdsAssumption
<1>6. \A i \in DOMAIN log : \/ i \in DOMAIN log' /\ log'[i] = log[i]
                            \/ openTail /\ i = Len(log)
  <2>1. CASE log' = log
    BY <2>1
  <2>2. CASE /\ task # NoTask
             /\ \E k \in 0..Len(task.records), tail \in Tails : Write(task.records, k, tail)
    <3>1. task.records \in Seq(Record)
      BY <1>1, <2>2 DEF TypeOK, Task
    <3>2. PICK k \in 0..Len(task.records), tail \in Tails : Write(task.records, k, tail)
      BY <2>2
    <3> QED
      BY <1>1, <3>1, <3>2, WriteKeeps
  <2> QED
    BY <2>1, <2>2
<1>7. ASSUME NEW a \in KeptIds \ KeptIds'
      PROVE  "tear" \in Faults /\ \A b \in KeptIds : eventRevisionsById[b] <= eventRevisionsById[a]
  <2>1. PICK i \in Intact : log[i].event.id = a /\ eventRevisionsById[a] = log[i].rev
    BY KeptFacts
  <2>2. openTail /\ i = Len(log)
    <3> SUFFICES ASSUME i \in DOMAIN log', log'[i] = log[i]
                 PROVE  FALSE
      BY <1>6 DEF Intact
    <3>1. i \in Intact'
      BY DEF Intact
    <3> QED
      BY <1>4, <2>1, <3>1
  <2>3. \A j \in Intact : log[j].rev <= log[i].rev
    <3> SUFFICES ASSUME NEW j \in Intact
                 PROVE  log[j].rev <= log[i].rev
      OBVIOUS
    <3>1. log[i].rev \in Nat /\ log[j].rev \in Nat
      BY LogBelowRevision
    <3>2. j < i \/ j = i
      BY <1>1, <2>2 DEF Intact
    <3>3. j < i => log[j].rev < log[i].rev
      BY DEF OrderInv
    <3> QED
      BY <3>1, <3>2, <3>3
  <2>4. \A b \in KeptIds : \E j \in Intact : eventRevisionsById[b] = log[j].rev
    BY KeptFacts
  <2> QED
    BY <2>1, <2>2, <2>3, <2>4 DEF OrderInv
<1> QED
  BY <1>2, <1>4, <1>5, <1>7

\* A push commits its new events to the abstract log; one without new events
\* leaves it alone.
LEMMA PushCommits ==
    ASSUME IndInv, DistinctIds, Push
    PROVE  \/ UNCHANGED <<KnownEvents, KnownRevisions, KnownTop, KeptIds>>
           \/ Abstract!Commit
<1> DEFINE req == Head(queue).req
           N == NewEvents(req)
           n == Len(N)
<1>1. TypeOK /\ up /\ up' /\ queue # << >> /\ revision \in Nat
  BY DEF IndInv, StorageInv, TypeOK, Push
<1>2. req \in Requests
  <2>1. Head(queue) \in Waiting
    BY <1>1 DEF TypeOK
  <2> QED
    BY <2>1 DEF Waiting
<1>3. /\ revision' = revision + n
      /\ eventsById' = [id \in Ids |-> EventAfter(req, id)]
      /\ eventRevisionsById' = [id \in Ids |-> RevisionAfter(req, id)]
      /\ KeptIds' = KeptIds
  BY DEF Push, disk, KeptIds
<1> HIDE DEF req
<1>4. /\ KnownEvents = eventsById /\ KnownRevisions = eventRevisionsById /\ KnownTop = revision
      /\ KnownEvents' = eventsById' /\ KnownRevisions' = eventRevisionsById'
      /\ KnownTop' = revision'
  BY <1>1 DEF KnownEvents, KnownRevisions, KnownTop
<1>5. /\ N \in Seq(Event) /\ n \in Nat /\ DOMAIN N = 1..n
      /\ \A k \in 1..n : ~Stored(N[k].id)
      /\ \A k, l \in 1..n : N[k].id = N[l].id => k = l
  BY <1>1, <1>2, NewEventsFacts
<1>6. \A k \in 1..n : /\ N[k] \in Event /\ N[k].id \in Ids /\ N[k] # NoEvent
                      /\ EventAfter(req, N[k].id) = N[k]
                      /\ RevisionAfter(req, N[k].id) = revision + k
  <2>1. \A k \in 1..n : N[k] \in Event
    BY <1>5
  <2>2. \A k \in 1..n : N[k].id \in Ids /\ N[k] # NoEvent
    BY <2>1, IdsAssumption DEF Event
  <2> QED
    BY <1>1, <1>2, <1>5, <2>1, <2>2, MemoryAfter
<1>7. \A id \in Ids : \/ \E k \in 1..n : N[k].id = id
                      \/ /\ EventAfter(req, id) = eventsById[id]
                         /\ RevisionAfter(req, id) = eventRevisionsById[id]
  BY <1>1, <1>2, <1>5, MemoryAfter
<1> DEFINE new == {id \in Ids : eventsById[id] = NoEvent /\ eventsById'[id] # NoEvent}
<1>8. \A id \in Ids : id \in new <=> \E k \in 1..n : N[k].id = id
  BY <1>3, <1>5, <1>6, <1>7 DEF Stored
<1> HIDE DEF N, n
<1>9. CASE n = 0
  <2>1. /\ eventsById' = [id \in Ids |-> eventsById[id]]
        /\ eventRevisionsById' = [id \in Ids |-> eventRevisionsById[id]]
    BY <1>3, <1>7, <1>9
  <2>2. eventsById' = eventsById /\ eventRevisionsById' = eventRevisionsById
    BY <1>1, <2>1 DEF TypeOK
  <2> QED
    BY <1>1, <1>3, <1>4, <1>9, <2>2
<1>10. CASE n # 0
  <2>1. new # {}
    <3>1. 1 \in 1..n
      BY <1>5, <1>10
    <3> QED
      BY <1>6, <1>8, <3>1
  <2>2. \A id \in Ids \ new : /\ eventsById'[id] = eventsById[id]
                              /\ eventRevisionsById'[id] = eventRevisionsById[id]
    BY <1>3, <1>7, <1>8
  <2>3. {eventRevisionsById'[id] : id \in new} = (revision + 1)..(revision + n)
    <3>1. \A id \in new : \E k \in 1..n : eventRevisionsById'[id] = revision + k
      BY <1>3, <1>6, <1>8
    <3>2. \A r \in (revision + 1)..(revision + n) : \E id \in new : eventRevisionsById'[id] = r
      <4> SUFFICES ASSUME NEW r \in (revision + 1)..(revision + n)
                   PROVE  \E id \in new : eventRevisionsById'[id] = r
        OBVIOUS
      <4>1. r - revision \in 1..n /\ revision + (r - revision) = r
        BY <1>1, <1>5
      <4> QED
        BY <1>3, <1>6, <1>8, <4>1
    <3>3. \A k \in 1..n : revision + k \in (revision + 1)..(revision + n)
      BY <1>1, <1>5
    <3> HIDE DEF new
    <3> QED
      BY <3>1, <3>2, <3>3
  <2>4. \A a, b \in new : eventRevisionsById'[a] = eventRevisionsById'[b] => a = b
    <3> SUFFICES ASSUME NEW a \in new, NEW b \in new, eventRevisionsById'[a] = eventRevisionsById'[b]
                 PROVE  a = b
      OBVIOUS
    <3>1. PICK k \in 1..n : N[k].id = a
      BY <1>8
    <3>2. PICK l \in 1..n : N[l].id = b
      BY <1>8
    <3>3. revision + k = revision + l
      BY <1>3, <1>6, <3>1, <3>2
    <3> QED
      BY <1>1, <1>5, <3>1, <3>2, <3>3
  <2> HIDE DEF new
  <2>5. /\ KnownEvents' \in [Ids -> Event \cup {NoEvent}] /\ KnownRevisions' \in [Ids -> Nat]
        /\ KnownTop' \in Nat
    <3>1. TypeOK'
      BY NextStep DEF Next, IndInv, StorageInv
    <3> QED
      BY <1>4, <3>1 DEF TypeOK
  <2>6. Abstract!Commit
    BY <1>3, <1>4, <2>1, <2>2, <2>3, <2>4, <2>5 DEF Abstract!Commit, new
  <2> QED
    BY <2>6
<1> QED
  BY <1>9, <1>10

\* Memory as the abstract log sees it while the process lives.
LEMMA KnownWhileUp ==
    /\ up => /\ KnownEvents = eventsById /\ KnownRevisions = eventRevisionsById
             /\ KnownTop = revision
    /\ up' => /\ KnownEvents' = eventsById' /\ KnownRevisions' = eventRevisionsById'
              /\ KnownTop' = revision'
  BY DEF KnownEvents, KnownRevisions, KnownTop

\* A write to the log keeps some more of the abstract log's events.
LEMMA WriteIsKeep ==
    ASSUME IndInv, OrderInv, up, up', UNCHANGED memory, task # NoTask,
           NEW k \in 0..Len(task.records), NEW tail \in Tails, Write(task.records, k, tail)
    PROVE  Abstract!Keep /\ UNCHANGED <<KnownEvents, KnownRevisions, KnownTop>>
<1>1. /\ KeptIds' \subseteq {id \in Ids : eventsById[id] # NoEvent}
      /\ \A a \in KeptIds \ KeptIds' :
            "tear" \in Faults /\ \A b \in KeptIds : eventRevisionsById[b] <= eventRevisionsById[a]
  BY WriteKeepsIds
<1>2. Abstract!Keep
  BY <1>1, KnownWhileUp DEF Abstract!Keep, Abstract!StoredIds
<1> QED
  BY <1>2, KnownWhileUp DEF memory

\* Unlinking a segment gives up the oldest of the kept events.
LEMMA PruneGivesUp ==
    ASSUME IndInv, OrderInv, Prune
    PROVE  \/ UNCHANGED <<KnownEvents, KnownRevisions, KnownTop, KeptIds>>
           \/ Abstract!GiveUp /\ UNCHANGED <<KnownEvents, KnownRevisions, KnownTop>>
<1>1. /\ up /\ up' /\ UNCHANGED memory
  BY DEF Prune
<1>2. UNCHANGED <<KnownEvents, KnownRevisions, KnownTop>>
  BY <1>1, KnownWhileUp DEF memory
<1>3. CASE ~(Len(segs) > KeepSegments)
  <2>1. KeptIds' = KeptIds
    BY <1>3 DEF Prune, KeptIds
  <2> QED
    BY <1>2, <2>1
<1>4. CASE Len(segs) > KeepSegments
  <2>1. PICK n \in Nat :
           /\ \A i \in Intact' : i \in Nat /\ i + n \in Intact /\ log'[i] = log[i + n]
           /\ \A j \in Intact : j > n => j - n \in Intact' /\ log'[j - n] = log[j]
    BY <1>4, PruneFront
  <2>2. ASSUME NEW a \in KeptIds'
        PROVE  \E j \in Intact : j > n /\ log[j].event.id = a
    <3>1. PICK i \in Intact' : log'[i].event.id = a
      BY DEF KeptIds, Positions, Intact
    <3>2. i + n \in Intact /\ log[i + n].event.id = a /\ i \in Nat /\ i >= 1
      <4>1. log' \in Seq(Line)
        BY PruneStep DEF IndInv, StorageInv, TypeOK
      <4>2. i \in 1..Len(log')
        BY <4>1 DEF Intact
      <4> QED
        BY <2>1, <3>1, <4>2
    <3> QED
      BY <3>2
  <2>3. KeptIds' \subseteq KeptIds
    BY <2>2 DEF KeptIds, Positions, Intact
  <2>4. ASSUME NEW b \in KeptIds \ KeptIds', NEW a \in KeptIds'
        PROVE  eventRevisionsById[b] < eventRevisionsById[a]
    <3>1. PICK i \in Intact : log[i].event.id = b /\ eventRevisionsById[b] = log[i].rev
      BY <1>1, KeptFacts
    <3>2. ~(i > n)
      <4> SUFFICES ASSUME i > n
                   PROVE  FALSE
        OBVIOUS
      <4>1. i - n \in Intact' /\ log'[i - n].event.id = b
        BY <2>1, <3>1
      <4>2. b \in KeptIds'
        BY <4>1 DEF KeptIds, Positions, Intact
      <4> QED
        BY <4>2
    <3>3. PICK j \in Intact : j > n /\ log[j].event.id = a
      BY <2>2
    <3>4. eventRevisionsById[a] = log[j].rev
      BY <1>1, <3>3 DEF IndInv, StorageInv, DiskInv, DiskWithinMemory, Intact
    <3>5. i \in Nat /\ j \in Nat
      BY DEF IndInv, StorageInv, TypeOK, Intact
    <3>6. i < j
      BY <3>2, <3>3, <3>5
    <3> QED
      BY <3>1, <3>4, <3>6 DEF OrderInv
  <2>5. Abstract!GiveUp
    BY <1>1, <2>3, <2>4, KnownWhileUp DEF Abstract!GiveUp
  <2> QED
    BY <1>2, <2>5
<1> QED
  BY <1>3, <1>4

\* A crash leaves a server that knows what its log kept: what the abstract log
\* calls a reload.
LEMMA CrashIsReload ==
    ASSUME IndInv, OrderInv, Crash
    PROVE  Abstract!Reload
<1>1. TypeOK /\ up /\ ~up'
  BY DEF IndInv, StorageInv, Crash
<1>2. \/ log' = log
      \/ /\ task # NoTask
         /\ \E k \in 0..Len(task.records), tail \in Tails : Write(task.records, k, tail)
  BY DEF Crash, NoTask
<1>3. /\ \A i \in Intact' : /\ log'[i].event.id \in KeptIds'
                            /\ eventsById[log'[i].event.id] = log'[i].event
                            /\ eventRevisionsById[log'[i].event.id] = log'[i].rev
      /\ KeptIds' \subseteq {id \in Ids : eventsById[id] # NoEvent}
      /\ \A a \in KeptIds \ KeptIds' :
            "tear" \in Faults /\ \A b \in KeptIds : eventRevisionsById[b] <= eventRevisionsById[a]
  BY <1>1, <1>2, WriteKeepsIds
<1>4. Abstract!Keep
  BY <1>1, <1>3, KnownWhileUp DEF Abstract!Keep, Abstract!StoredIds
<1>5. PICK lines : lines = log'
  OBVIOUS
<1>6. /\ lines \in Seq(Line)
      /\ \A i, j \in DOMAIN lines : lines[i] # Torn /\ lines[j] # Torn =>
         (lines[i].event.id = lines[j].event.id => i = j)
  <2>1. TypeOK' /\ OneRecordPerId'
    BY CrashStep DEF IndInv, StorageInv, DiskInv
  <2>2. log' \in Seq(Line)
    BY <2>1 DEF TypeOK
  <2>3. \A i, j \in DOMAIN log' : log'[i] # Torn /\ log'[j] # Torn =>
           (log'[i].event.id = log'[j].event.id => i = j)
    BY <2>1 DEF OneRecordPerId
  <2> QED
    BY <1>5, <2>2, <2>3
<1>7. \A i \in DOMAIN lines : lines[i] # Torn =>
         /\ lines[i].event.id \in KeptIds'
         /\ eventsById[lines[i].event.id] = lines[i].event
         /\ eventRevisionsById[lines[i].event.id] = lines[i].rev
  BY <1>3, <1>5 DEF Intact
<1>8. revision \in Nat /\ \A i \in DOMAIN lines : lines[i] # Torn => lines[i].rev <= revision
  <2>1. \A id \in KeptIds' : eventRevisionsById[id] \in 1..revision
    BY <1>3 DEF IndInv, StorageInv, MemoryInv, RevisionsAreUnique, Stored
  <2>2. revision \in Nat
    BY <1>1 DEF TypeOK
  <2> QED
    BY <1>7, <2>1, <2>2
<1>9. /\ LoadedRevision(lines) \in {0} \cup {LoadedRevisions(lines)[id] : id \in Ids}
      /\ \A id \in Ids : LoadedRevisions(lines)[id] <= LoadedRevision(lines)
      /\ LoadedEvents(lines) = [id \in Ids |-> LoadedEvents(lines)[id]]
      /\ LoadedRevisions(lines) = [id \in Ids |-> LoadedRevisions(lines)[id]]
      /\ \A id \in Ids : Positions(lines, id) = {} =>
            LoadedEvents(lines)[id] = NoEvent /\ LoadedRevisions(lines)[id] = 0
      /\ \A id \in Ids, i \in DOMAIN lines : i \in Positions(lines, id) =>
            /\ LoadedEvents(lines)[id] = lines[i].event
            /\ LoadedRevisions(lines)[id] = lines[i].rev
  BY <1>6, <1>8, LinesLoad
<1>10. KeptIds' = {id \in Ids : Positions(lines, id) # {}}
  BY <1>5 DEF KeptIds
<1>11. \A id \in KeptIds' : /\ LoadedEvents(lines)[id] = eventsById[id]
                            /\ LoadedRevisions(lines)[id] = eventRevisionsById[id]
  <2> SUFFICES ASSUME NEW id \in KeptIds'
               PROVE  /\ LoadedEvents(lines)[id] = eventsById[id]
                      /\ LoadedRevisions(lines)[id] = eventRevisionsById[id]
    OBVIOUS
  <2>1. PICK i \in Positions(lines, id) : TRUE
    BY <1>10
  <2>2. i \in DOMAIN lines /\ lines[i] # Torn /\ lines[i].event.id = id
    BY DEF Positions
  <2> QED
    BY <1>7, <1>9, <1>10, <2>2
<1>12. \A id \in Ids \ KeptIds' : /\ LoadedEvents(lines)[id] = NoEvent
                                 /\ LoadedRevisions(lines)[id] = 0
  BY <1>9, <1>10
<1>13. /\ KnownEvents' = LoadedEvents(lines) /\ KnownRevisions' = LoadedRevisions(lines)
       /\ KnownTop' = LoadedRevision(lines)
  BY <1>1, <1>5 DEF KnownEvents, KnownRevisions, KnownTop
<1>14. LoadedEvents(lines) = [id \in Ids |-> IF id \in KeptIds' THEN eventsById[id] ELSE NoEvent]
  <2>1. \A id \in Ids : LoadedEvents(lines)[id] = IF id \in KeptIds' THEN eventsById[id] ELSE NoEvent
    BY <1>11, <1>12
  <2> QED
    BY <1>9, <2>1
<1>15. LoadedRevisions(lines) = [id \in Ids |-> IF id \in KeptIds' THEN eventRevisionsById[id] ELSE 0]
  <2>1. \A id \in Ids : LoadedRevisions(lines)[id] = IF id \in KeptIds' THEN eventRevisionsById[id] ELSE 0
    BY <1>11, <1>12
  <2> QED
    BY <1>9, <2>1
<1>16. LoadedRevision(lines) \in {0} \cup {eventRevisionsById[id] : id \in KeptIds'}
  BY <1>9, <1>11, <1>12
<1>17. \A id \in KeptIds' : eventRevisionsById[id] <= LoadedRevision(lines)
  BY <1>3, <1>9, <1>11
<1> QED
  BY <1>1, <1>4, <1>13, <1>14, <1>15, <1>16, <1>17, KnownWhileUp DEF Abstract!Reload

\* A restart loads what the abstract log was said to know already.
LEMMA RestartIsQuiet ==
    ASSUME Restart
    PROVE  UNCHANGED <<KnownEvents, KnownRevisions, KnownTop, KeptIds>>
  BY DEF Restart, disk, KnownEvents, KnownRevisions, KnownTop, KeptIds

\* Every step of the storage is a step of the abstract log, or leaves it alone.
LEMMA StepRefines ==
    ASSUME IndInv, OrderInv, DistinctIds, [Next]_vars
    PROVE  [Abstract!LogNext]_(Abstract!logVars)
<1> DEFINE Quiet == UNCHANGED <<KnownEvents, KnownRevisions, KnownTop, KeptIds>>
<1>1. Quiet => [Abstract!LogNext]_(Abstract!logVars)
  BY DEF Abstract!logVars
<1>2. TypeOK
  BY DEF IndInv, StorageInv
<1>3. task.step \in {"rotate", "prune", "append"} =>
         task # NoTask /\ Len(task.records) \in 0..Len(task.records)
  <2>1. task.step \in {"rotate", "prune", "append"} => task # NoTask /\ task.records \in Seq(Record)
    BY <1>2 DEF TypeOK, NoTask, Task
  <2> QED
    BY <2>1
<1>4. CASE (\E req \in Requests : Submit(req)) \/ Rotate \/ RenameFails \/ StatFails
           \/ PruneFails \/ UNCHANGED vars
  <2>1. UNCHANGED <<up, memory, log>>
    BY <1>4 DEF Submit, Rotate, RenameFails, StatFails, PruneFails, vars, disk
  <2>2. Quiet
    BY <2>1 DEF memory, KnownEvents, KnownRevisions, KnownTop, KeptIds
  <2> QED
    BY <1>1, <2>2
<1>5. CASE Push
  <2>1. Quiet \/ Abstract!Commit
    BY <1>5, PushCommits
  <2> QED
    BY <1>1, <2>1 DEF Abstract!LogNext
<1>6. CASE Prune
  <2>1. Quiet \/ (Abstract!GiveUp /\ UNCHANGED <<KnownEvents, KnownRevisions, KnownTop>>)
    BY <1>6, PruneGivesUp
  <2> QED
    BY <1>1, <2>1 DEF Abstract!LogNext
<1>7. CASE AppendFile \/ AppendFails
  <2>1. up /\ up' /\ UNCHANGED memory /\ task # NoTask
    BY <1>3, <1>7 DEF AppendFile, AppendFails
  <2>2. \E k \in 0..Len(task.records), tail \in Tails : Write(task.records, k, tail)
    BY <1>3, <1>7 DEF AppendFile, AppendFails, Tails
  <2>3. Abstract!Keep /\ UNCHANGED <<KnownEvents, KnownRevisions, KnownTop>>
    BY <2>1, <2>2, WriteIsKeep
  <2> QED
    BY <2>3 DEF Abstract!LogNext
<1>8. CASE Crash
  BY <1>8, CrashIsReload DEF Abstract!LogNext
<1>9. CASE Restart
  BY <1>1, <1>9, RestartIsQuiet
<1> QED
  BY <1>4, <1>5, <1>6, <1>7, <1>8, <1>9 DEF Next

\* The empty storage is the empty abstract log.
LEMMA InitRefines == Init => Abstract!LogInit
<1> SUFFICES ASSUME Init
             PROVE  Abstract!LogInit
  OBVIOUS
<1>1. /\ KnownEvents = [id \in Ids |-> NoEvent] /\ KnownRevisions = [id \in Ids |-> 0]
      /\ KnownTop = 0
  BY DEF Init, KnownEvents, KnownRevisions, KnownTop
<1>2. KeptIds = {}
  BY DEF Init, KeptIds, Positions
<1> QED
  BY <1>1, <1>2 DEF Abstract!LogInit

\* The abstract log has its types, and all that is kept is in it: memory has what
\* the log on disk has, or will have it when it has been loaded.
LEMMA KnownTypes ==
    ASSUME IndInv
    PROVE  Abstract!LogTypeOK
<1>1. TypeOK /\ OneRecordPerId /\ Bounded
  BY DEF IndInv, StorageInv, DiskInv
<1>2. CASE up
  <2>1. \A id \in KeptIds : eventsById[id] # NoEvent
    <3> SUFFICES ASSUME NEW id \in KeptIds
                 PROVE  eventsById[id] # NoEvent
      OBVIOUS
    <3>1. PICK i \in Intact : log[i].event.id = id /\ eventsById[id] = log[i].event
      BY <1>2, KeptFacts
    <3>2. log[i].event \in Event
      BY <1>1 DEF TypeOK, Intact, Line, Record
    <3> QED
      BY <3>1, <3>2, IdsAssumption DEF Event
  <2> QED
    BY <1>1, <1>2, <2>1 DEF Abstract!LogTypeOK, Abstract!StoredIds, KnownEvents, KnownRevisions,
       KnownTop, KeptIds, TypeOK
<1>3. CASE ~up
  <2>1. \A id \in KeptIds : LoadedEvents(log)[id] # NoEvent
    <3> SUFFICES ASSUME NEW id \in KeptIds
                 PROVE  LoadedEvents(log)[id] # NoEvent
      OBVIOUS
    <3>1. PICK i \in Intact : log[i].event.id = id
      BY DEF KeptIds, Positions, Intact
    <3>2. LoadedEvents(log)[id] = log[i].event
      BY <1>1, <3>1, LoadFacts
    <3>3. log[i].event \in Event
      BY <1>1 DEF TypeOK, Intact, Line, Record
    <3> QED
      BY <3>2, <3>3, IdsAssumption DEF Event
  <2>2. /\ LoadedEvents(log) \in [Ids -> Event \cup {NoEvent}]
        /\ LoadedRevisions(log) \in [Ids -> Nat]
        /\ LoadedRevision(log) \in Nat
    BY <1>1, LoadFacts
  <2> QED
    BY <1>3, <2>1, <2>2 DEF Abstract!LogTypeOK, Abstract!StoredIds, KnownEvents, KnownRevisions,
       KnownTop, KeptIds
<1> QED
  BY <1>2, <1>3

-----------------------------------------------------------------------------
(* The theorems.                                                           *)

\* For any ids, payloads, rotation policy and faults, and any requests that
\* name each id at most once, the storage never leaves StorageInv.
THEOREM StorageIsSafe ==
    ASSUME DistinctIds
    PROVE  Spec => []StorageInv
<1>1. Init => IndInv
  BY InitIndInv
<1>2. IndInv /\ [Next]_vars => IndInv'
  BY NextStep
<1>3. IndInv => StorageInv
  BY DEF IndInv
<1> QED
  BY <1>1, <1>2, <1>3, PTL DEF Spec

\* Revisions number the stored events without repetition.
THEOREM RevisionsStayUnique ==
    ASSUME DistinctIds
    PROVE  Spec => []RevisionsAreUnique
<1>1. StorageInv => RevisionsAreUnique
  BY DEF StorageInv, MemoryInv
<1> QED
  BY <1>1, StorageIsSafe, PTL

\* The log never contradicts memory, and holds no id twice.
THEOREM LogAgreesWithMemory ==
    ASSUME DistinctIds
    PROVE  Spec => [](DiskWithinMemory /\ OneRecordPerId)
<1>1. StorageInv => DiskWithinMemory /\ OneRecordPerId
  BY DEF StorageInv, DiskInv
<1> QED
  BY <1>1, StorageIsSafe, PTL

\* Retried pushes get the answer the first one got, while the process lives.
THEOREM PushesAreIdempotent ==
    ASSUME DistinctIds
    PROVE  Spec => []AnswersAgree
<1>1. StorageInv => AnswersAgree
  BY DEF StorageInv, AnswerInv
<1> QED
  BY <1>1, StorageIsSafe, PTL

\* Every variable of the storage keeps its type.
THEOREM StorageTypes ==
    ASSUME DistinctIds
    PROVE  Spec => []TypeOK
<1>1. StorageInv => TypeOK
  BY DEF StorageInv
<1> QED
  BY <1>1, StorageIsSafe, PTL

\* If no write is ever torn, then whatever was answered "accepted" is in the
\* log under its revision until its segment is pruned, through any number of
\* failed writes, failed rotations, crashes and restarts.
THEOREM AcceptedStaysDurable ==
    ASSUME DistinctIds, NoTear
    PROVE  Spec => []AcceptedIsDurable
<1>1. Init => IndInv /\ DurableInv
  BY InitIndInv DEF Init, DurableInv, AcceptedIsDurable, TaskAnswers
<1>2. IndInv /\ DurableInv /\ [Next]_vars => IndInv' /\ DurableInv'
  <2> SUFFICES ASSUME IndInv, DurableInv, [Next]_vars
               PROVE  DurableInv'
    BY NextStep
  <2>1. TypeOK
    BY DEF IndInv, StorageInv
  <2>2. CASE Push
    BY <2>2, PushDurable
  <2>3. CASE Prune
    BY <2>3, PruneDurable
  <2>4. CASE AppendFile
    BY <2>4, AppendDurable
  <2>5. CASE AppendFails
    BY <2>5, AppendFailsDurable
  <2>6. CASE Crash
    BY <2>6, CrashDurable
  <2>7. CASE (\E req \in Requests : Submit(req)) \/ Restart \/ UNCHANGED vars
    <3>1. UNCHANGED <<task, log, openTail, acked, pruned>>
      BY <2>7 DEF Submit, Restart, vars, disk
    <3> QED
      BY <3>1, DurableGrows DEF DurableInv
  <2>8. CASE Rotate \/ RenameFails \/ PruneFails
    <3>1. task \in Task /\ task # NoTask
      BY <2>1, <2>8 DEF Rotate, RenameFails, PruneFails, TypeOK, NoTask
    <3>2. /\ UNCHANGED <<log, acked, pruned>> /\ ~openTail'
          /\ \E s \in {"append", "prune"} : task' = [task EXCEPT !.step = s]
      BY <2>8 DEF Rotate, RenameFails, PruneFails, disk, DurableInv
    <3>3. task'.records = task.records /\ task'.answers = task.answers
      BY <3>1, <3>2 DEF Task
    <3> QED
      BY <3>1, <3>2, <3>3, DurableGrows
  <2>9. CASE StatFails
    <3>1. UNCHANGED <<log, openTail, acked, pruned>> /\ task' = NoTask
      BY <2>9 DEF StatFails, Fail, disk
    <3> QED
      BY <3>1, DurableGrows DEF DurableInv
  <2> QED
    BY <2>2, <2>3, <2>4, <2>5, <2>6, <2>7, <2>8, <2>9 DEF Next
<1>3. DurableInv => AcceptedIsDurable
  BY DEF DurableInv
<1> QED
  BY <1>1, <1>2, <1>3, PTL DEF Spec

\* The log on disk is in the order of its revisions, through torn writes,
\* rotation, pruning and restarts.
THEOREM LogStaysOrdered ==
    ASSUME DistinctIds
    PROVE  Spec => []OrderInv
<1>1. Init => IndInv /\ OrderInv
  BY InitIndInv DEF Init, OrderInv, Intact
<1>2. IndInv /\ OrderInv /\ [Next]_vars => IndInv' /\ OrderInv'
  BY NextStep, OrderStep
<1> QED
  BY <1>1, <1>2, PTL DEF Spec

\* The event log that the storage implements has its types at any time: in
\* particular what is kept on disk is never missing in memory.
THEOREM KeptIsKnown ==
    ASSUME DistinctIds
    PROVE  Spec => []Abstract!LogTypeOK
<1>1. Init => IndInv
  BY InitIndInv
<1>2. IndInv /\ [Next]_vars => IndInv'
  BY NextStep
<1>3. IndInv => Abstract!LogTypeOK
  BY KnownTypes
<1> QED
  BY <1>1, <1>2, <1>3, PTL DEF Spec

\* The storage implements the event log the other components rely on: pushes
\* commit new events under consecutive revisions, a write damages at most the
\* newest kept event, pruning gives up the oldest, and a restart knows exactly
\* what was kept.
THEOREM StorageImplementsLog ==
    ASSUME DistinctIds
    PROVE  Spec => ImplementsEventLog
<1>1. Init => IndInv /\ OrderInv
  BY InitIndInv DEF Init, OrderInv, Intact
<1>2. IndInv /\ OrderInv /\ [Next]_vars => IndInv' /\ OrderInv'
  BY NextStep, OrderStep
<1>3. Init => Abstract!LogInit
  BY InitRefines
<1>4. IndInv /\ OrderInv /\ [Next]_vars => [Abstract!LogNext]_(Abstract!logVars)
  BY StepRefines
<1> QED
  BY <1>1, <1>2, <1>3, <1>4, PTL DEF Spec, ImplementsEventLog, Abstract!LogSpec
=============================================================================

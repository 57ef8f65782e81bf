-------------------------- MODULE EventSyncProofs ---------------------------
(***************************************************************************)
(* Proofs about EventSync for any number of syncs at once, urls, sessions, *)
(* events and faults.                                                      *)
(***************************************************************************)
EXTENDS EventSync, TLAPS

-----------------------------------------------------------------------------
(* Types. *)

Attempts == Attempt \cup {Idle}

\* What a slot holds is an attempt of a sync or nothing.
SlotsOK == sync \in [Slots -> Attempts]

\* A slot that is idle is at no step of an attempt.
LEMMA IdleLemma ==
    ASSUME SlotsOK, NEW s \in Slots
    PROVE  /\ sync[s] = Idle => sync[s].step = "idle"
           /\ sync[s] # Idle => sync[s] \in Attempt
           /\ sync[s].step \in {"sent", "saving", "answered", "gone"} => sync[s] # Idle
<1> QED BY DEF SlotsOK, Attempts, Attempt, Idle

\* An attempt that takes its next step keeps its batch, its session and its
\* url, and the other slots are not touched.
LEMMA AdvanceLemma ==
    ASSUME SlotsOK, NEW s \in Slots, sync[s] # Idle,
           NEW step \in {"sent", "saving", "answered", "gone"}, NEW new \in SUBSET Events,
           NEW url \in 1..NumUrls,
           sync' = [sync EXCEPT ![s].url = url, ![s].step = step, ![s].new = new]
    PROVE  /\ SlotsOK'
           /\ sync'[s] # Idle /\ sync'[s] \in Attempt
           /\ sync'[s].batch = sync[s].batch /\ sync'[s].session = sync[s].session
           /\ sync'[s].step = step /\ sync'[s].new = new
           /\ \A t \in Slots \ {s} : sync'[t] = sync[t]
<1>1. sync[s] \in Attempt BY IdleLemma
<1> DEFINE a == [sync[s] EXCEPT !.url = url, !.step = step, !.new = new]
<1>2. a \in Attempt /\ a.step = step /\ a.new = new /\ a.batch = sync[s].batch /\ a.session = sync[s].session
    BY <1>1 DEF Attempt
<1>3. sync' = [sync EXCEPT ![s] = a] OBVIOUS
<1>4. a.step # "idle" BY <1>2
<1>5. a # Idle BY <1>4 DEF Idle
<1> HIDE DEF a
<1>6. a \in Attempts BY <1>2 DEF Attempts
<1>7. sync'[s] = a /\ SlotsOK' BY <1>3, <1>6 DEF SlotsOK
<1>8. \A t \in Slots \ {s} : sync'[t] = sync[t] BY <1>3 DEF SlotsOK
<1> QED BY <1>2, <1>5, <1>7, <1>8

\* The steps of an attempt that leave its url alone.
LEMMA SameUrlLemma ==
    ASSUME SlotsOK, NEW s \in Slots, sync[s] # Idle,
           NEW step \in {"sent", "saving", "answered", "gone"}, NEW new \in SUBSET Events,
           sync' = [sync EXCEPT ![s].step = step, ![s].new = new]
    PROVE  /\ SlotsOK'
           /\ sync'[s] # Idle /\ sync'[s] \in Attempt
           /\ sync'[s].batch = sync[s].batch /\ sync'[s].session = sync[s].session
           /\ sync'[s].step = step /\ sync'[s].new = new
           /\ \A t \in Slots \ {s} : sync'[t] = sync[t]
<1>1. sync[s] \in Attempt BY IdleLemma
<1> DEFINE a == [sync[s] EXCEPT !.step = step, !.new = new]
<1>2. a \in Attempt /\ a.step = step /\ a.new = new /\ a.batch = sync[s].batch /\ a.session = sync[s].session
    BY <1>1 DEF Attempt
<1>3. sync' = [sync EXCEPT ![s] = a] OBVIOUS
<1>4. a # Idle BY <1>2 DEF Idle
<1> HIDE DEF a
<1> QED BY <1>2, <1>3, <1>4 DEF SlotsOK, Attempts

\* A sync begins in an idle slot, with the batch it was given.
LEMMA BeginLemma ==
    ASSUME SlotsOK, NEW s \in Slots, NEW batch \in SUBSET Events, Begin(s, batch)
    PROVE  /\ SlotsOK'
           /\ sync[s] = Idle /\ sync'[s] # Idle /\ sync'[s] \in Attempt
           /\ sync'[s].batch = batch /\ sync'[s].new = {} /\ sync'[s].step = "sent"
           /\ \A t \in Slots \ {s} : sync'[t] = sync[t]
           /\ syncs' = syncs + 1 /\ syncs < MaxSyncs
<1>1. PICK newest \in batch :
          sync' = [sync EXCEPT ![s] = [batch |-> batch, session |-> Session[newest],
                                       url |-> 1, step |-> "sent", new |-> {}]]
    BY DEF Begin
<1> DEFINE a == [batch |-> batch, session |-> Session[newest], url |-> 1, step |-> "sent", new |-> {}]
<1>2. Session[newest] \in Sessions BY SessionsAssumption
<1>3. 1 \in 1..NumUrls BY UrlsAssumption
<1>4. a \in Attempt BY <1>2, <1>3 DEF Attempt
<1>5. a # Idle BY DEF Idle
<1>6. a.batch = batch /\ a.new = {} /\ a.step = "sent" OBVIOUS
<1>7. sync' = [sync EXCEPT ![s] = a] BY <1>1
<1> HIDE DEF a
<1> QED BY <1>4, <1>5, <1>6, <1>7 DEF SlotsOK, Attempts, Begin

\* A failed attempt is made again at the next url, or the sync ends.
LEMMA NextUrlLemma ==
    ASSUME SlotsOK, NEW s \in Slots, sync[s] # Idle, NextUrl(s)
    PROVE  /\ SlotsOK'
           /\ \A t \in Slots \ {s} : sync'[t] = sync[t]
           /\ \/ /\ sync'[s] # Idle /\ sync'[s].step = "sent" /\ sync'[s].new = {}
                 /\ sync'[s].batch = sync[s].batch
                 /\ UNCHANGED <<cache, outbox>>
              \/ /\ sync'[s] = Idle /\ UNCHANGED cache /\ outbox' = Unsynced' \cup sync[s].batch
<1>1. sync[s] \in Attempt BY IdleLemma
<1>2. CASE MoreUrls(s)
  <2>1. sync[s].url + 1 \in 1..NumUrls BY <1>1, <1>2, UrlsAssumption DEF MoreUrls, Attempt
  <2>2. sync' = [sync EXCEPT ![s].url = sync[s].url + 1, ![s].step = "sent", ![s].new = {}]
      BY <1>2 DEF NextUrl, SlotsOK
  <2>3. UNCHANGED <<cache, outbox>> BY <1>2 DEF NextUrl
  <2> QED BY <2>1, <2>2, <2>3, AdvanceLemma
<1>3. CASE ~MoreUrls(s)
  <2>1. sync' = [sync EXCEPT ![s] = Idle] /\ UNCHANGED cache /\ outbox' = Unsynced' \cup sync[s].batch
      BY <1>3 DEF NextUrl, NextOutbox
  <2> QED BY <2>1 DEF SlotsOK, Attempts
<1> QED BY <1>2, <1>3

\* A request is received: its new events are to be written, or there are none
\* and it is answered.
LEMMA ReceiveLemma ==
    ASSUME SlotsOK, NEW s \in Slots, Receive(s)
    PROVE  /\ SlotsOK'
           /\ sync[s] # Idle /\ sync'[s] # Idle
           /\ sync'[s].batch = sync[s].batch /\ sync'[s].session = sync[s].session
           /\ sync'[s].new = Confirmed(sync[s]) \ store
           /\ sync'[s].step = IF Confirmed(sync[s]) \ store = {} THEN "answered" ELSE "saving"
           /\ \A t \in Slots \ {s} : sync'[t] = sync[t]
           /\ store' = store \cup (Confirmed(sync[s]) \ store)
           /\ Confirmed(sync[s]) \subseteq sync[s].batch
<1> DEFINE new == Confirmed(sync[s]) \ store
           step == IF new = {} THEN "answered" ELSE "saving"
<1>1. sync[s] # Idle BY IdleLemma DEF Receive
<1>2. sync[s] \in Attempt BY <1>1, IdleLemma
<1>3. Confirmed(sync[s]) \subseteq sync[s].batch /\ sync[s].batch \subseteq Events
    BY <1>2 DEF Confirmed, Attempt
<1>4. new \in SUBSET Events BY <1>3
<1>5. step \in {"sent", "saving", "answered", "gone"} OBVIOUS
<1>6. sync' = [sync EXCEPT ![s].step = step, ![s].new = new] /\ store' = store \cup new
    BY DEF Receive
<1> HIDE DEF new, step
<1>7. SlotsOK' /\ sync'[s] # Idle /\ sync'[s].batch = sync[s].batch /\ sync'[s].session = sync[s].session
      /\ sync'[s].step = step /\ sync'[s].new = new /\ \A t \in Slots \ {s} : sync'[t] = sync[t]
    BY <1>1, <1>4, <1>5, <1>6, SameUrlLemma
<1> QED BY <1>1, <1>3, <1>6, <1>7 DEF new, step

\* The records of a cache in which only the events 1..n are.
Records(n) == {r \in [Events -> Marks] : \A e \in Events : e > n => r[e] = "none"}

CacheOK ==
    /\ stored \in Records(created) /\ memory \in Records(created)
    /\ disabled \in BOOLEAN /\ broken \in BOOLEAN /\ (disabled => broken)

\* Records of fewer events are records of more.
LEMMA RecordsGrow == ASSUME NEW m \in Nat, NEW n \in Nat, m <= n PROVE Records(m) \subseteq Records(n)
<1> QED BY DEF Records, Events

LEMMA LoadedType == ASSUME CacheOK PROVE Loaded \in Records(created)
<1> QED BY DEF CacheOK, Loaded

\* Only events that exist are unsynced.
LEMMA UnsyncedType ==
    ASSUME CacheOK, created \in Nat PROVE Unsynced \subseteq 1..created
<1>1. Loaded \in Records(created) BY LoadedType
<1> QED BY <1>1, BoundsAssumption DEF Records, Unsynced, Events

\* What an append leaves: it adds its batch and changes no mark.
LEMMA AppendedLemma ==
    ASSUME CacheOK, NEW n \in Nat, created \in Nat, created <= n, NEW batch \in SUBSET Events, batch \subseteq 1..n
    PROVE  /\ Appended(batch) \in Records(n)
           /\ \A e \in Events :
                /\ Loaded[e] # "none" => Appended(batch)[e] = Loaded[e]
                /\ e \notin batch => Appended(batch)[e] = Loaded[e]
                /\ e \in batch /\ Loaded[e] = "none" => Appended(batch)[e] = "unsynced"
<1>1. Loaded \in [Events -> Marks] /\ \A e \in Events : e > created => Loaded[e] = "none"
    BY LoadedType DEF Records
<1>2. "unsynced" \in Marks BY DEF Marks
<1>3. Appended(batch) \in [Events -> Marks] BY <1>1, <1>2 DEF Appended
<1>4. ASSUME NEW e \in Events, e > n PROVE Appended(batch)[e] = "none"
  <2>1. e > created /\ e \notin batch BY <1>4, BoundsAssumption DEF Events
  <2> QED BY <1>1, <2>1 DEF Appended
<1> QED BY <1>1, <1>3, <1>4 DEF Appended, Records

\* Marking as projected touches nothing else.
LEMMA MarkedLemma ==
    ASSUME NEW n \in Nat, NEW r \in Records(n), NEW done
    PROVE  /\ Marked(r, done) \in Records(n)
           /\ \A e \in Events : /\ e \notin done => Marked(r, done)[e] = r[e]
                                /\ e \in done => Marked(r, done)[e] # "unsynced"
                                /\ Marked(r, done)[e] = "unsynced" => r[e] = "unsynced"
<1>1. r \in [Events -> Marks] /\ \A e \in Events : e > n => r[e] = "none" BY DEF Records
<1> QED BY <1>1 DEF Marked, Records, Marks

\* What a save leaves: the records that are read again are those that were
\* saved, unless localStorage has failed.
LEMMA SaveLemma ==
    ASSUME CacheOK, created \in Nat, created' \in Nat, created <= created',
           NEW records \in Records(created'), NEW full \in Records(created'), SaveOr(records, full)
    PROVE  /\ CacheOK' /\ (broken => broken')
           /\ Loaded' \in {records, full, Loaded}
           /\ ~broken' => Loaded' = records
<1>1. stored \in Records(created') /\ memory \in Records(created') BY RecordsGrow DEF CacheOK
<1>2. stored' \in Records(created') /\ memory' \in Records(created') BY <1>1 DEF SaveOr
<1>3. /\ disabled' \in BOOLEAN /\ broken' \in BOOLEAN
      /\ disabled' => broken'
      /\ broken => broken'
  <2>1. CASE UNCHANGED <<disabled, broken>> BY <2>1 DEF CacheOK
  <2>2. CASE disabled' = TRUE /\ broken' = TRUE BY <2>2
  <2> QED BY <2>1, <2>2 DEF SaveOr
<1>4. CacheOK' BY <1>2, <1>3 DEF CacheOK
<1>5. Loaded' \in {records, full, Loaded} /\ (~broken' => Loaded' = records)
    BY DEF SaveOr, Loaded, CacheOK
<1> QED BY <1>3, <1>4, <1>5

\* Nothing happens to the cache.
LEMMA CacheSame ==
    ASSUME CacheOK, UNCHANGED <<cache, created>>
    PROVE  CacheOK' /\ Loaded' = Loaded /\ Unsynced' = Unsynced /\ broken' = broken
<1> QED BY DEF CacheOK, cache, Loaded, Unsynced

ClientOK ==
    /\ running \in BOOLEAN /\ created \in 0..MaxEvents
    /\ outbox \subseteq 1..created /\ shown \subseteq 1..created /\ synced \subseteq 1..created
    /\ onlyShown \subseteq 1..created
ServerOK ==
    /\ store \subseteq 1..created /\ kept \subseteq store
    /\ failed \subseteq 1..created /\ hasty \subseteq 1..created

\* What a request carries exists, and what is being written is in memory.
Carries(r) ==
    /\ r.batch \subseteq 1..created /\ r.new \subseteq 1..created
    /\ r.step = "saving" => r.new \subseteq store
SyncsOK == SlotsOK /\ \A s \in Slots : sync[s] # Idle => Carries(sync[s])
StraysOK == strays \subseteq Request /\ \A r \in strays : Carries(r)
CountsOK == faults \in 0..MaxFaults /\ syncs \in 0..MaxSyncs

TypeInv == CacheOK /\ ClientOK /\ ServerOK /\ SyncsOK /\ StraysOK /\ CountsOK

\* The invariant says what TypeOK says.
LEMMA TypeInvTypes == TypeInv => TypeOK
<1> SUFFICES ASSUME TypeInv PROVE TypeOK OBVIOUS
<1>1. stored \in [Events -> Marks] /\ memory \in [Events -> Marks] /\ disabled \in BOOLEAN /\ broken \in BOOLEAN
    BY DEF TypeInv, CacheOK, Records
<1>2. {disabled, broken} \subseteq BOOLEAN
  <2> SUFFICES ASSUME NEW b \in {disabled, broken} PROVE b \in BOOLEAN OBVIOUS
  <2> QED BY <1>1
<1>3. \A s \in Slots : sync[s] = Idle \/ sync[s] \in Attempt BY IdleLemma DEF TypeInv, SyncsOK
<1>4. DOMAIN sync = Slots BY DEF TypeInv, SyncsOK, SlotsOK
<1>5. {outbox, shown, synced, onlyShown, store, kept, failed, hasty} \subseteq SUBSET (1..created)
    BY DEF TypeInv, ClientOK, ServerOK
<1> QED BY <1>1, <1>2, <1>3, <1>4, <1>5 DEF TypeOK, TypeInv, ClientOK, ServerOK, StraysOK, CountsOK

\* Requests that stay as they are, while events are only added.
LEMMA CarriesGrow ==
    ASSUME created \in Nat, created' \in Nat, created <= created', store \subseteq store', NEW r, Carries(r)
    PROVE  /\ r.batch \subseteq 1..created' /\ r.new \subseteq 1..created'
           /\ r.step = "saving" => r.new \subseteq store'
<1> QED BY DEF Carries

\* Requests that a client gives up are requests.
LEMMA RemainsLemma ==
    ASSUME SyncsOK, NEW slots \in SUBSET Slots
    PROVE  /\ Remains(slots) \subseteq Request
           /\ \A r \in Remains(slots) : Carries(r)
           /\ \A r \in Remains(slots) : \E s \in slots : r.new = sync[s].new /\ r.step = sync[s].step
           /\ \A s \in slots : sync[s].step = "saving" =>
                 \E r \in Remains(slots) : r.new = sync[s].new /\ r.step = "saving"
<1>1. ASSUME NEW s \in slots, sync[s].step \in {"sent", "saving"}
      PROVE  /\ Abandoned(s) \in Request /\ Carries(Abandoned(s))
             /\ Abandoned(s).new = sync[s].new /\ Abandoned(s).step = sync[s].step
  <2>1. sync[s] # Idle /\ sync[s] \in Attempt /\ Carries(sync[s]) BY <1>1, IdleLemma DEF SyncsOK
  <2>2. Abandoned(s) \in Request BY <1>1, <2>1 DEF Abandoned, Attempt, Request
  <2>3. Carries(Abandoned(s)) BY <2>1 DEF Abandoned, Carries
  <2> QED BY <2>2, <2>3 DEF Abandoned
<1> QED BY <1>1 DEF Remains

\* A timer, or an answer that is no confirmation: only the slot changes.
LEMMA SyncsNextUrl ==
    ASSUME SyncsOK, NEW s \in Slots, sync[s] # Idle, NextUrl(s), UNCHANGED <<created, store>>
    PROVE  SyncsOK'
<1>1. SlotsOK' /\ \A t \in Slots \ {s} : sync'[t] = sync[t] BY NextUrlLemma DEF SyncsOK
<1>2. ASSUME NEW t \in Slots, sync'[t] # Idle PROVE Carries(sync[t])'
  <2>1. CASE t # s BY <1>1, <1>2, <2>1 DEF SyncsOK, Carries
  <2>2. CASE t = s
    <3>1. sync'[s].step = "sent" /\ sync'[s].new = {} /\ sync'[s].batch = sync[s].batch
        BY <1>2, <2>2, NextUrlLemma DEF SyncsOK
    <3> QED BY <2>2, <3>1 DEF SyncsOK, Carries
  <2> QED BY <2>1, <2>2
<1> QED BY <1>1, <1>2 DEF SyncsOK

\* A new sync.
LEMMA SyncsBegin ==
    ASSUME SyncsOK, created \in Nat, created' \in Nat, created <= created', created' <= MaxEvents,
           UNCHANGED store, NEW s \in Slots, NEW batch \in SUBSET (1..created'), Begin(s, batch)
    PROVE  SyncsOK'
<1>1. batch \in SUBSET Events BY BoundsAssumption DEF Events
<1>2. /\ SlotsOK' /\ \A t \in Slots \ {s} : sync'[t] = sync[t]
      /\ sync'[s].batch = batch /\ sync'[s].new = {} /\ sync'[s].step = "sent"
    BY <1>1, BeginLemma DEF SyncsOK
<1>3. ASSUME NEW t \in Slots, sync'[t] # Idle PROVE Carries(sync[t])'
  <2>1. CASE t # s
    <3>1. sync'[t] = sync[t] /\ Carries(sync[t]) BY <1>2, <1>3, <2>1 DEF SyncsOK
    <3> QED BY <3>1 DEF Carries
  <2>2. CASE t = s BY <1>2, <2>2 DEF Carries
  <2> QED BY <2>1, <2>2
<1> QED BY <1>2, <1>3 DEF SyncsOK

\* The requests without a client, while events are only added.
LEMMA StraysGrow ==
    ASSUME StraysOK, created \in Nat, created' \in Nat, created <= created', store \subseteq store',
           UNCHANGED strays
    PROVE  StraysOK'
<1> QED BY CarriesGrow DEF StraysOK, Carries

\* The faults are counted up to the bound.
LEMMA FaultLemma ==
    ASSUME CountsOK, NEW kind PROVE Fault(kind) => faults' \in 0..MaxFaults
<1>1. MaxFaults \in Nat BY BoundsAssumption
<1> QED BY <1>1 DEF Fault, CountsOK

LEMMA SaveFaults ==
    ASSUME CountsOK, NEW records, NEW full, SaveOr(records, full) PROVE faults' \in 0..MaxFaults
<1> QED BY FaultLemma DEF SaveOr, CountsOK

LEMMA InitType == Init => TypeInv
<1> SUFFICES ASSUME Init PROVE TypeInv OBVIOUS
<1>1. CacheOK BY DEF Init, CacheOK, Records, Marks
<1>2. 0 \in 0..MaxEvents /\ 0 \in 0..MaxFaults /\ 0 \in 0..MaxSyncs BY BoundsAssumption
<1>4. ClientOK BY <1>2 DEF Init, ClientOK
<1>5. ServerOK /\ CountsOK BY <1>2 DEF Init, ServerOK, CountsOK
<1>3. SyncsOK /\ StraysOK BY DEF Init, SyncsOK, SlotsOK, Attempts, StraysOK
<1> QED BY <1>1, <1>3, <1>4, <1>5 DEF TypeInv

\* A new event is the next one.
LEMMA StartType ==
    ASSUME TypeInv, NEW s \in Slots, Start(s) PROVE TypeInv'
<1> DEFINE new == created + 1
<1>1. /\ created \in Nat /\ created' = new /\ created' \in 0..MaxEvents /\ created' \in Nat
      /\ new \in Events /\ {new} \subseteq 1..created' /\ created <= created'
    BY BoundsAssumption DEF Start, TypeInv, ClientOK, Events
<1>2. Appended({new}) \in Records(created') BY <1>1, AppendedLemma DEF TypeInv
<1>3. SaveOr(Appended({new}), Appended({new})) BY DEF Start, Save
<1>4. CacheOK' BY <1>1, <1>2, <1>3, SaveLemma DEF TypeInv
<1>5. Unsynced \subseteq 1..created BY <1>1, UnsyncedType DEF TypeInv
<1>6. outbox' = Unsynced \cup {new} /\ outbox' \subseteq 1..created' BY <1>1, <1>5 DEF Start
<1>7. shown' \subseteq 1..created'
  <2>1. shown' \subseteq {e \in Events : Appended({new})[e] # "none"} BY DEF Start
  <2>2. ASSUME NEW e \in Events, Appended({new})[e] # "none" PROVE e \in 1..created'
    <3>1. e \in Nat /\ e >= 1 BY BoundsAssumption DEF Events
    <3>2. ~(e > created') BY <1>2, <2>2 DEF Records
    <3> QED BY <1>1, <3>1, <3>2
  <2> QED BY <2>1, <2>2
<1>8. ClientOK' BY <1>1, <1>6, <1>7 DEF ClientOK, TypeInv, Start
<1>9. ServerOK' BY <1>1 DEF ServerOK, TypeInv, Start, server
<1>10. Begin(s, outbox') BY DEF Start
<1>11. PICK batch \in SUBSET (1..created') : batch = outbox' BY <1>6
<1>12. Begin(s, batch) BY <1>10, <1>11
<1>13. SyncsOK' BY <1>1, <1>12, SyncsBegin DEF TypeInv, Start, server
<1>14. StraysOK' BY <1>1, StraysGrow DEF TypeInv, Start, server
<1>15. CountsOK'
  <2>1. faults' \in 0..MaxFaults BY <1>3, SaveFaults DEF TypeInv
  <2>2. syncs' \in 0..MaxSyncs BY <1>12, BoundsAssumption DEF Begin, TypeInv, CountsOK
  <2> QED BY <2>1, <2>2 DEF CountsOK
<1> QED BY <1>4, <1>8, <1>9, <1>13, <1>14, <1>15 DEF TypeInv

LEMMA CreateType ==
    ASSUME TypeInv, NEW s \in Slots, Create(s) PROVE TypeInv'
<1> DEFINE new == created + 1
<1>1. /\ created \in Nat /\ created' = new /\ created' \in 0..MaxEvents /\ created' \in Nat
      /\ new \in Events /\ {new} \subseteq 1..created' /\ created <= created'
    BY BoundsAssumption DEF Create, TypeInv, ClientOK, Events
<1>2. Appended({new}) \in Records(created') BY <1>1, AppendedLemma DEF TypeInv
<1>3. SaveOr(Appended({new}), Appended({new})) BY DEF Create, Save
<1>4. CacheOK' BY <1>1, <1>2, <1>3, SaveLemma DEF TypeInv
<1>5. shown' \subseteq 1..created' BY <1>1 DEF Create, TypeInv, ClientOK
<1>6. ClientOK' BY <1>1, <1>5 DEF ClientOK, TypeInv, Create
<1>7. ServerOK' BY <1>1 DEF ServerOK, TypeInv, Create, server
<1>8. Begin(s, {new}) BY DEF Create
<1>9. PICK batch \in SUBSET (1..created') : batch = {new} BY <1>1
<1>10. Begin(s, batch) BY <1>8, <1>9
<1>11. SyncsOK' BY <1>1, <1>10, SyncsBegin DEF TypeInv, Create, server
<1>12. StraysOK' BY <1>1, StraysGrow DEF TypeInv, Create, server
<1>13. CountsOK'
  <2>1. faults' \in 0..MaxFaults BY <1>3, SaveFaults DEF TypeInv
  <2>2. syncs' \in 0..MaxSyncs BY <1>10, BoundsAssumption DEF Begin, TypeInv, CountsOK
  <2> QED BY <2>1, <2>2 DEF CountsOK
<1> QED BY <1>4, <1>6, <1>7, <1>11, <1>12, <1>13 DEF TypeInv

\* What a sync of everything leaves in the cache.
LEMMA OverwrittenLemma ==
    ASSUME CacheOK, created \in 0..MaxEvents, NEW batch \in SUBSET (1..created), NEW last \in batch
    PROVE  Overwritten(batch, last) \in Records(created) /\ Appended(batch) \in Records(created)
<1>1. created \in Nat /\ batch \in SUBSET Events /\ {last} \subseteq 1..created /\ {last} \in SUBSET Events
    BY BoundsAssumption DEF Events
<1>2. Appended(batch) \in Records(created) /\ Appended({last}) \in Records(created)
    BY <1>1, AppendedLemma
<1> QED BY <1>2 DEF Overwritten

LEMMA SyncAllType ==
    ASSUME TypeInv, NEW s \in Slots, SyncAll(s) PROVE TypeInv'
<1>1. created \in Nat /\ created \in 0..MaxEvents /\ UNCHANGED <<created, store>> /\ created' \in Nat
    BY DEF TypeInv, ClientOK, SyncAll, server
<1>2. Unsynced \subseteq 1..created BY <1>1, UnsyncedType DEF TypeInv
<1>3. PICK batch \in SUBSET (1..created) : batch = outbox \cup Unsynced \cup (shown \ synced)
    BY <1>2 DEF TypeInv, ClientOK
<1>4. Begin(s, batch) /\ \E last \in batch : SaveOr(Overwritten(batch, last), Appended(batch))
    BY <1>3 DEF SyncAll
<1>5. PICK last \in batch : SaveOr(Overwritten(batch, last), Appended(batch)) BY <1>4
<1>6. Overwritten(batch, last) \in Records(created') /\ Appended(batch) \in Records(created')
    BY <1>1, OverwrittenLemma DEF TypeInv
<1>7. CacheOK' BY <1>1, <1>5, <1>6, SaveLemma DEF TypeInv
<1>8. ClientOK' /\ ServerOK' BY DEF ClientOK, ServerOK, TypeInv, SyncAll, server
<1>9. SyncsOK' BY <1>1, <1>4, SyncsBegin DEF TypeInv
<1>10. StraysOK' BY <1>1, StraysGrow DEF TypeInv, SyncAll
<1>11. CountsOK'
  <2>1. faults' \in 0..MaxFaults BY <1>5, SaveFaults DEF TypeInv
  <2>2. syncs' \in 0..MaxSyncs BY <1>4, BoundsAssumption DEF Begin, TypeInv, CountsOK
  <2> QED BY <2>1, <2>2 DEF CountsOK
<1> QED BY <1>7, <1>8, <1>9, <1>10, <1>11 DEF TypeInv

\* What a replay leaves in the cache: nothing becomes unsynced by it.
LEMMA ReplayLemma ==
    ASSUME CacheOK, created \in 0..MaxEvents, NEW pulled \in SUBSET (1..created)
    PROVE  /\ Marked(IF disabled THEN Loaded ELSE Appended(pulled), pulled) \in Records(created)
           /\ Marked(Appended(pulled), pulled) \in Records(created)
           /\ \A e \in Events \ pulled :
                 /\ Marked(IF disabled THEN Loaded ELSE Appended(pulled), pulled)[e] = Loaded[e]
                 /\ Marked(Appended(pulled), pulled)[e] = Loaded[e]
           /\ \A e \in pulled :
                 /\ Marked(IF disabled THEN Loaded ELSE Appended(pulled), pulled)[e] # "unsynced"
                 /\ Marked(Appended(pulled), pulled)[e] # "unsynced"
<1>1. created \in Nat /\ pulled \in SUBSET Events BY BoundsAssumption DEF Events
<1>2. /\ Appended(pulled) \in Records(created)
      /\ \A e \in Events \ pulled : Appended(pulled)[e] = Loaded[e]
    BY <1>1, AppendedLemma
<1>3. Loaded \in Records(created) BY LoadedType
<1>4. PICK r \in Records(created) : r = IF disabled THEN Loaded ELSE Appended(pulled) BY <1>2, <1>3
<1>5. \A e \in Events \ pulled : r[e] = Loaded[e] BY <1>2, <1>4
<1>6. /\ Marked(r, pulled) \in Records(created)
      /\ \A e \in Events : /\ e \notin pulled => Marked(r, pulled)[e] = r[e]
                           /\ e \in pulled => Marked(r, pulled)[e] # "unsynced"
    BY <1>1, MarkedLemma
<1>7. PICK q \in Records(created) : q = Appended(pulled) BY <1>2
<1>8. /\ Marked(q, pulled) \in Records(created)
      /\ \A e \in Events : /\ e \notin pulled => Marked(q, pulled)[e] = q[e]
                           /\ e \in pulled => Marked(q, pulled)[e] # "unsynced"
    BY <1>1, MarkedLemma
<1> QED BY <1>1, <1>2, <1>4, <1>5, <1>6, <1>7, <1>8

\* The events that a replay pulls exist.
LEMMA PulledType ==
    ASSUME TypeInv PROVE {e \in store : Session[e] = Open} \in SUBSET (1..created)
<1> QED BY DEF TypeInv, ServerOK

LEMMA ReplayType ==
    ASSUME TypeInv, Replay PROVE TypeInv'
<1> DEFINE pulled == {e \in store : Session[e] = Open}
<1>1. created \in Nat /\ created \in 0..MaxEvents /\ created' = created /\ store' = store /\ kept' = kept
    BY DEF TypeInv, ClientOK, Replay
<1>2. pulled \in SUBSET (1..created) BY PulledType
<1>3. /\ SaveOr(Marked(IF disabled THEN Loaded ELSE Appended(pulled), pulled), Marked(Appended(pulled), pulled))
      /\ hasty' = hasty \cup (pulled \ kept) /\ synced' = synced \cup pulled
      /\ shown' = shown \cup pulled \cup {e \in Events : Session[e] = Open /\ Loaded[e] # "none"}
    BY DEF Replay
<1> HIDE DEF pulled
<1>4. /\ Marked(IF disabled THEN Loaded ELSE Appended(pulled), pulled) \in Records(created')
      /\ Marked(Appended(pulled), pulled) \in Records(created')
    BY <1>1, <1>2, ReplayLemma DEF TypeInv
<1>5. CacheOK' BY <1>1, <1>3, <1>4, SaveLemma DEF TypeInv
<1>6. \A e \in Events : Loaded[e] # "none" => e \in 1..created
  <2>1. Loaded \in Records(created) BY LoadedType DEF TypeInv
  <2> SUFFICES ASSUME NEW e \in Events, Loaded[e] # "none" PROVE e \in 1..created OBVIOUS
  <2>2. ~(e > created) BY <2>1 DEF Records
  <2>3. e \in Nat /\ e >= 1 BY BoundsAssumption DEF Events
  <2> QED BY <1>1, <2>2, <2>3
<1>7. ClientOK' BY <1>1, <1>2, <1>3, <1>6 DEF ClientOK, TypeInv, Replay
<1>8. ServerOK' BY <1>1, <1>2, <1>3 DEF ServerOK, TypeInv, Replay
<1>9. SyncsOK'
  <2>1. UNCHANGED <<sync, store, created>> BY DEF Replay
  <2> QED BY <2>1 DEF SyncsOK, SlotsOK, Carries, TypeInv
<1>10. StraysOK' BY <1>1, StraysGrow DEF TypeInv, Replay
<1>11. CountsOK' BY <1>3, SaveFaults DEF CountsOK, TypeInv, Replay
<1> QED BY <1>5, <1>7, <1>8, <1>9, <1>10, <1>11 DEF TypeInv

\* An event that is only shown: nobody has it but the user.
LEMMA ShowType ==
    ASSUME TypeInv, Show PROVE TypeInv'
<1>1. /\ created \in Nat /\ created' = created + 1 /\ created' \in 0..MaxEvents /\ created' \in Nat
      /\ created <= created' /\ UNCHANGED <<stored, memory, disabled, broken, store>>
    BY BoundsAssumption DEF Show, TypeInv, ClientOK, cache, server
<1>2. CacheOK' BY <1>1, RecordsGrow DEF CacheOK, TypeInv
<1>3. ClientOK' BY <1>1 DEF ClientOK, TypeInv, Show
<1>4. ServerOK' BY <1>1 DEF ServerOK, TypeInv, Show, server
<1>5. SyncsOK'
  <2>1. ASSUME NEW t \in Slots, sync[t] # Idle PROVE Carries(sync[t])'
    <3>1. Carries(sync[t]) BY <2>1 DEF SyncsOK, TypeInv
    <3> QED BY <1>1, <3>1 DEF Carries, Show
  <2> QED BY <2>1 DEF SyncsOK, SlotsOK, TypeInv, Show
<1>6. StraysOK' BY <1>1, StraysGrow DEF TypeInv, Show
<1>7. CountsOK' BY DEF CountsOK, TypeInv, Show
<1> QED BY <1>2, <1>3, <1>4, <1>5, <1>6, <1>7 DEF TypeInv

LEMMA ReceiveType ==
    ASSUME TypeInv, NEW s \in Slots, Receive(s) PROVE TypeInv'
<1>1. /\ SlotsOK' /\ sync[s] # Idle /\ sync'[s] # Idle
      /\ sync'[s].batch = sync[s].batch
      /\ sync'[s].new = Confirmed(sync[s]) \ store
      /\ \A t \in Slots \ {s} : sync'[t] = sync[t]
      /\ store' = store \cup (Confirmed(sync[s]) \ store)
      /\ Confirmed(sync[s]) \subseteq sync[s].batch
    BY ReceiveLemma DEF TypeInv, SyncsOK
<1>2. sync[s].batch \subseteq 1..created BY <1>1 DEF TypeInv, SyncsOK, Carries
<1>3. created \in Nat /\ created' = created BY DEF TypeInv, ClientOK, Receive, client
<1>4. CacheOK' BY CacheSame DEF TypeInv, Receive, client
<1>5. ClientOK' BY DEF ClientOK, TypeInv, Receive, client
<1>6. ServerOK' BY <1>1, <1>2, <1>3 DEF ServerOK, TypeInv, Receive
<1>7. SyncsOK'
  <2>1. ASSUME NEW t \in Slots, sync'[t] # Idle PROVE Carries(sync[t])'
    <3>1. CASE t # s
      <4>1. sync'[t] = sync[t] /\ Carries(sync[t]) BY <1>1, <2>1, <3>1 DEF TypeInv, SyncsOK
      <4> QED BY <1>1, <1>3, <4>1 DEF Carries
    <3>2. CASE t = s BY <1>1, <1>2, <1>3, <3>2 DEF Carries
    <3> QED BY <3>1, <3>2
  <2> QED BY <1>1, <2>1 DEF SyncsOK
<1>8. StraysOK' BY <1>1, <1>3, StraysGrow DEF TypeInv, Receive
<1>9. CountsOK' BY DEF TypeInv, CountsOK, Receive
<1> QED BY <1>4, <1>5, <1>6, <1>7, <1>8, <1>9 DEF TypeInv

\* A request that is answered is otherwise the same.
LEMMA WriteLemma ==
    ASSUME SlotsOK, NEW s \in Slots, Write(s)
    PROVE  /\ SlotsOK' /\ sync[s] # Idle /\ sync'[s] # Idle
           /\ sync'[s].batch = sync[s].batch /\ sync'[s].session = sync[s].session
           /\ sync'[s].new = sync[s].new /\ sync'[s].step = "answered"
           /\ \A t \in Slots \ {s} : sync'[t] = sync[t]
<1>1. sync[s] # Idle BY IdleLemma DEF Write
<1>2. sync[s] \in Attempt BY <1>1, IdleLemma
<1> DEFINE a == [sync[s] EXCEPT !.step = "answered"]
<1>3. a \in Attempt /\ a.step = "answered" /\ a.batch = sync[s].batch /\ a.session = sync[s].session
      /\ a.new = sync[s].new
    BY <1>2 DEF Attempt
<1>4. sync' = [sync EXCEPT ![s] = a] BY DEF Write
<1>5. a # Idle BY <1>3 DEF Idle
<1> HIDE DEF a
<1> QED BY <1>1, <1>3, <1>4, <1>5 DEF SlotsOK, Attempts

LEMMA WriteType ==
    ASSUME TypeInv, NEW s \in Slots, Write(s) PROVE TypeInv'
<1>1. /\ SlotsOK' /\ sync[s] # Idle /\ sync'[s] # Idle
      /\ sync'[s].batch = sync[s].batch
      /\ sync'[s].new = sync[s].new /\ sync'[s].step = "answered"
      /\ \A t \in Slots \ {s} : sync'[t] = sync[t]
    BY WriteLemma DEF TypeInv, SyncsOK
<1>2. created \in Nat /\ created' = created /\ store' = store BY DEF TypeInv, ClientOK, Write, client
<1>3. CacheOK' BY CacheSame DEF TypeInv, Write, client
<1>4. ClientOK' BY DEF ClientOK, TypeInv, Write, client
<1>5. sync[s].new \subseteq store
  <2>1. sync[s].step = "saving" BY DEF Write
  <2> QED BY <1>1, <2>1 DEF TypeInv, SyncsOK, Carries
<1>6. ServerOK' BY <1>2, <1>5 DEF ServerOK, TypeInv, Write
<1>7. SyncsOK'
  <2>1. ASSUME NEW t \in Slots, sync'[t] # Idle PROVE Carries(sync[t])'
    <3>1. CASE t # s
      <4>1. sync'[t] = sync[t] /\ Carries(sync[t]) BY <1>1, <2>1, <3>1 DEF TypeInv, SyncsOK
      <4> QED BY <1>2, <4>1 DEF Carries
    <3>2. CASE t = s
      <4>1. Carries(sync[s]) BY <1>1 DEF TypeInv, SyncsOK
      <4> QED BY <1>1, <1>2, <3>2, <4>1 DEF Carries
    <3> QED BY <3>1, <3>2
  <2> QED BY <1>1, <2>1 DEF SyncsOK
<1>8. StraysOK' BY <1>2, StraysGrow DEF TypeInv, Write
<1>9. CountsOK' BY DEF TypeInv, CountsOK, Write
<1> QED BY <1>3, <1>4, <1>6, <1>7, <1>8, <1>9 DEF TypeInv

\* The slots do not change, while events are only added.
LEMMA SyncsSame ==
    ASSUME SyncsOK, created \in Nat, created' = created, store \subseteq store', UNCHANGED sync
    PROVE  SyncsOK'
<1>1. ASSUME NEW t \in Slots, sync[t] # Idle PROVE Carries(sync[t])'
  <2>1. Carries(sync[t]) BY <1>1 DEF SyncsOK
  <2> QED BY <2>1 DEF Carries
<1> QED BY <1>1 DEF SyncsOK, SlotsOK

\* What a request without a client turns into, when it is received.
LEMMA ReceiveStrayLemma ==
    ASSUME StraysOK, ServerOK, NEW r \in strays, ReceiveStray(r)
    PROVE  /\ r \in Request /\ Confirmed(r) \subseteq r.batch
           /\ store' = store \cup (Confirmed(r) \ store)
           /\ \A q \in strays' : \/ q \in strays
                                 \/ /\ q \in Request /\ q.step = "saving"
                                    /\ q.batch = r.batch /\ q.new = Confirmed(r) \ store
           /\ \A q \in strays : q # r => q \in strays'
           /\ Confirmed(r) \ store # {} => \E q \in strays' : q.step = "saving" /\ q.new = Confirmed(r) \ store
<1> DEFINE new == Confirmed(r) \ store
           q0 == [r EXCEPT !.step = "saving", !.new = new]
<1>1. r \in Request BY DEF StraysOK
<1>2. Confirmed(r) \subseteq r.batch /\ r.batch \subseteq Events BY <1>1 DEF Confirmed, Request
<1>3. /\ store' = store \cup new
      /\ \E others \in {strays, strays \ {r}} : strays' = others \cup (IF new = {} THEN {} ELSE {q0})
    BY DEF ReceiveStray
<1>4. q0 \in Request /\ q0.step = "saving" /\ q0.batch = r.batch /\ q0.new = new
    BY <1>1, <1>2 DEF Request
<1> HIDE DEF new, q0
<1>5. \A q \in strays' : q \in strays \/ q = q0 BY <1>3
<1>6. \A q \in strays : q # r => q \in strays' BY <1>3
<1>7. new # {} => q0 \in strays' BY <1>3
<1> QED BY <1>1, <1>2, <1>3, <1>4, <1>5, <1>6, <1>7 DEF new

LEMMA ReceiveStrayType ==
    ASSUME TypeInv, NEW r \in strays, ReceiveStray(r) PROVE TypeInv'
<1>1. /\ Confirmed(r) \subseteq r.batch
      /\ store' = store \cup (Confirmed(r) \ store)
      /\ \A q \in strays' : \/ q \in strays
                            \/ /\ q \in Request /\ q.step = "saving"
                               /\ q.batch = r.batch /\ q.new = Confirmed(r) \ store
    BY ReceiveStrayLemma DEF TypeInv
<1>2. created \in Nat /\ created' = created BY DEF TypeInv, ClientOK, ReceiveStray, client
<1>3. r.batch \subseteq 1..created BY DEF TypeInv, StraysOK, Carries
<1>4. CacheOK' BY CacheSame DEF TypeInv, ReceiveStray, client
<1>5. ClientOK' BY DEF ClientOK, TypeInv, ReceiveStray, client
<1>6. ServerOK' BY <1>1, <1>2, <1>3 DEF ServerOK, TypeInv, ReceiveStray
<1>7. SyncsOK' BY <1>1, <1>2, SyncsSame DEF TypeInv, ReceiveStray
<1>8. StraysOK'
  <2>1. ASSUME NEW q \in strays' PROVE q \in Request /\ Carries(q)'
    <3>1. CASE q \in strays
      <4>1. q \in Request /\ Carries(q) BY <3>1 DEF TypeInv, StraysOK
      <4> QED BY <1>1, <1>2, <4>1 DEF Carries
    <3>2. CASE /\ q \in Request /\ q.step = "saving"
               /\ q.batch = r.batch /\ q.new = Confirmed(r) \ store
      BY <1>1, <1>2, <1>3, <3>2 DEF Carries
    <3> QED BY <1>1, <2>1, <3>1, <3>2
  <2> QED BY <2>1 DEF StraysOK
<1>9. CountsOK' BY DEF TypeInv, CountsOK, ReceiveStray
<1> QED BY <1>4, <1>5, <1>6, <1>7, <1>8, <1>9 DEF TypeInv

LEMMA WriteStrayType ==
    ASSUME TypeInv, NEW r \in strays, WriteStray(r) PROVE TypeInv'
<1>1. created \in Nat /\ created' = created /\ store' = store BY DEF TypeInv, ClientOK, WriteStray, client
<1>2. CacheOK' BY CacheSame DEF TypeInv, WriteStray, client
<1>3. ClientOK' BY DEF ClientOK, TypeInv, WriteStray, client
<1>4. r.new \subseteq store /\ r.new \subseteq 1..created BY DEF TypeInv, StraysOK, Carries, WriteStray
<1>5. ServerOK' BY <1>1, <1>4 DEF ServerOK, TypeInv, WriteStray
<1>6. SyncsOK' BY <1>1, SyncsSame DEF TypeInv, WriteStray
<1>7. StraysOK' BY <1>1 DEF TypeInv, StraysOK, Carries, WriteStray
<1>8. CountsOK' BY FaultLemma DEF TypeInv, CountsOK, WriteStray
<1> QED BY <1>2, <1>3, <1>5, <1>6, <1>7, <1>8 DEF TypeInv

\* The steps in which the client gives up an attempt.
LEMMA NextUrlType ==
    ASSUME TypeInv, NEW s \in Slots, sync[s] # Idle, NextUrl(s),
           UNCHANGED <<running, created, shown, synced, onlyShown, store>>
    PROVE  CacheOK' /\ ClientOK' /\ SyncsOK'
<1>1. /\ \/ UNCHANGED <<cache, outbox>>
         \/ UNCHANGED cache /\ outbox' = Unsynced' \cup sync[s].batch
      /\ created \in Nat
    BY NextUrlLemma DEF TypeInv, SyncsOK, ClientOK
<1>2. CacheOK' /\ Unsynced' = Unsynced BY <1>1, CacheSame DEF TypeInv
<1>3. Unsynced \subseteq 1..created BY <1>1, UnsyncedType DEF TypeInv
<1>4. sync[s].batch \subseteq 1..created BY DEF TypeInv, SyncsOK, Carries
<1>5. outbox' \subseteq 1..created BY <1>1, <1>2, <1>3, <1>4 DEF TypeInv, ClientOK
<1>6. ClientOK' BY <1>5 DEF ClientOK, TypeInv
<1>7. SyncsOK' BY SyncsNextUrl DEF TypeInv
<1> QED BY <1>2, <1>6, <1>7

LEMMA TimeoutType ==
    ASSUME TypeInv, NEW s \in Slots, Timeout(s) PROVE TypeInv'
<1>1. CacheOK' /\ ClientOK' /\ SyncsOK' BY NextUrlType DEF Timeout, server
<1>2. created' = created /\ store' = store BY DEF Timeout, server
<1>3. ServerOK' BY DEF ServerOK, TypeInv, Timeout, server
<1>4. Remains({s}) \subseteq Request /\ \A r \in Remains({s}) : Carries(r)
    BY RemainsLemma DEF TypeInv
<1>5. strays' = strays \cup Remains({s}) BY DEF Timeout
<1>6. StraysOK' BY <1>2, <1>4, <1>5 DEF StraysOK, Carries, TypeInv
<1>7. CountsOK' BY DEF TypeInv, CountsOK, Timeout
<1> QED BY <1>1, <1>3, <1>6, <1>7 DEF TypeInv

LEMMA TooLargeType ==
    ASSUME TypeInv, NEW s \in Slots, TooLarge(s) PROVE TypeInv'
<1>1. sync[s] # Idle BY IdleLemma DEF TooLarge, TypeInv, SyncsOK
<1>2. CacheOK' /\ ClientOK' /\ SyncsOK' BY <1>1, NextUrlType DEF TooLarge, server
<1>3. created \in Nat /\ created' = created /\ store' = store BY DEF TooLarge, server, TypeInv, ClientOK
<1>4. ServerOK' BY DEF ServerOK, TypeInv, TooLarge, server
<1>5. StraysOK' BY <1>3, StraysGrow DEF TooLarge, TypeInv
<1>6. CountsOK' BY DEF TypeInv, CountsOK, TooLarge
<1> QED BY <1>2, <1>4, <1>5, <1>6 DEF TypeInv

LEMMA WriteFailsType ==
    ASSUME TypeInv, NEW s \in Slots, WriteFails(s) PROVE TypeInv'
<1>1. sync[s] # Idle BY IdleLemma DEF WriteFails, TypeInv, SyncsOK
<1>2. CacheOK' /\ ClientOK' /\ SyncsOK' BY <1>1, NextUrlType DEF WriteFails
<1>3. created \in Nat /\ created' = created /\ store' = store BY DEF WriteFails, TypeInv, ClientOK
<1>4. sync[s].new \subseteq 1..created BY <1>1 DEF TypeInv, SyncsOK, Carries
<1>5. ServerOK' BY <1>3, <1>4 DEF ServerOK, TypeInv, WriteFails
<1>6. StraysOK' BY <1>3, StraysGrow DEF WriteFails, TypeInv
<1>7. CountsOK' BY FaultLemma DEF TypeInv, CountsOK, WriteFails
<1> QED BY <1>2, <1>5, <1>6, <1>7 DEF TypeInv

\* What the answer to a sync leaves in the cache.
LEMMA FinishLemma ==
    ASSUME TypeInv, NEW s \in Slots, Finish(s)
    PROVE  /\ sync[s].step = "answered" /\ sync[s] # Idle
           /\ Synced(sync[s]) \subseteq sync[s].batch /\ sync[s].batch \subseteq 1..created
           /\ CacheOK' /\ (broken => broken') /\ faults' \in 0..MaxFaults
           /\ ~broken' => \A e \in Events : e \notin Synced(sync[s]) => Loaded'[e] = Loaded[e]
<1>1. sync[s].step = "answered" BY DEF Finish
<1>2. sync[s] # Idle BY <1>1, IdleLemma DEF TypeInv, SyncsOK
<1>3. sync[s] \in Attempt BY <1>2, IdleLemma DEF TypeInv, SyncsOK
<1>4. Synced(sync[s]) \subseteq sync[s].batch BY DEF Synced, Confirmed
<1>5. sync[s].batch \subseteq 1..created BY <1>2 DEF TypeInv, SyncsOK, Carries
<1>6. created \in Nat /\ created' = created BY DEF TypeInv, ClientOK, Finish
<1> DEFINE done == Synced(sync[s])
<1>7. CASE done = {}
  <2>1. UNCHANGED <<cache, faults>> BY <1>7 DEF Finish
  <2>2. CacheOK' /\ Loaded' = Loaded /\ broken' = broken BY <1>6, <2>1, CacheSame DEF TypeInv
  <2>3. faults' \in 0..MaxFaults BY <2>1 DEF TypeInv, CountsOK
  <2> QED BY <1>1, <1>2, <1>4, <1>5, <2>2, <2>3
<1>8. CASE done # {}
  <2>1. SaveOr(Marked(Loaded, done), Marked(Loaded, done)) BY <1>8 DEF Finish, Save
  <2>2. Loaded \in Records(created) BY LoadedType DEF TypeInv
  <2>3. PICK r \in Records(created) : r = Loaded BY <2>2
  <2>4. /\ Marked(r, done) \in Records(created)
        /\ \A e \in Events : e \notin done => Marked(r, done)[e] = r[e]
      BY <1>6, MarkedLemma
  <2>5. SaveOr(Marked(r, done), Marked(r, done)) /\ Marked(r, done) \in Records(created')
      BY <1>6, <2>1, <2>3, <2>4
  <2>6. CacheOK' /\ (broken => broken') /\ (~broken' => Loaded' = Marked(r, done))
      BY <1>6, <2>5, SaveLemma DEF TypeInv
  <2>7. faults' \in 0..MaxFaults BY <2>1, SaveFaults DEF TypeInv
  <2> QED BY <1>1, <1>2, <1>4, <1>5, <2>3, <2>4, <2>6, <2>7
<1> QED BY <1>7, <1>8

LEMMA FinishType ==
    ASSUME TypeInv, NEW s \in Slots, Finish(s) PROVE TypeInv'
<1>1. /\ sync[s] # Idle /\ CacheOK' /\ faults' \in 0..MaxFaults
      /\ Synced(sync[s]) \subseteq 1..created /\ sync[s].batch \subseteq 1..created
    BY FinishLemma
<1>2. created \in Nat /\ created' = created /\ store' = store BY DEF TypeInv, ClientOK, Finish, server
<1>3. Unsynced' \subseteq 1..created
  <2>1. Loaded' \in Records(created) BY <1>1, <1>2 DEF CacheOK, Loaded
  <2> SUFFICES ASSUME NEW e \in Events, Loaded'[e] = "unsynced" PROVE e \in 1..created BY DEF Unsynced
  <2>2. ~(e > created) BY <2>1 DEF Records
  <2>3. e \in Nat /\ e >= 1 BY BoundsAssumption DEF Events
  <2> QED BY <1>2, <2>2, <2>3
<1>4. outbox' = Unsynced' \cup (sync[s].batch \ Synced(sync[s])) /\ synced' = synced \cup Synced(sync[s])
    BY DEF Finish, NextOutbox
<1>5. ClientOK' BY <1>1, <1>2, <1>3, <1>4 DEF ClientOK, TypeInv, Finish
<1>6. ServerOK' BY DEF ServerOK, TypeInv, Finish, server
<1>7. SyncsOK'
  <2>1. sync' = [sync EXCEPT ![s] = Idle] BY DEF Finish
  <2>2. SlotsOK' BY <2>1 DEF TypeInv, SyncsOK, SlotsOK, Attempts
  <2>3. ASSUME NEW t \in Slots, sync'[t] # Idle PROVE Carries(sync[t])'
    <3>1. t # s /\ sync'[t] = sync[t] BY <2>1, <2>3 DEF TypeInv, SyncsOK, SlotsOK
    <3>2. Carries(sync[t]) BY <2>3, <3>1 DEF TypeInv, SyncsOK
    <3> QED BY <1>2, <3>1, <3>2 DEF Carries
  <2> QED BY <2>2, <2>3 DEF SyncsOK
<1>8. StraysOK' BY <1>2, StraysGrow DEF Finish, TypeInv
<1>9. CountsOK' BY <1>1 DEF TypeInv, CountsOK, Finish
<1> QED BY <1>1, <1>5, <1>6, <1>7, <1>8, <1>9 DEF TypeInv

\* The server dies: nothing is being written any more.
LEMMA RestartLemma ==
    ASSUME SyncsOK, StraysOK, ServerOK, Restart
    PROVE  /\ SlotsOK'
           /\ \A s \in Slots : /\ sync'[s].step # "saving"
                               /\ sync'[s] = Idle <=> sync[s] = Idle
                               /\ sync'[s].step = "answered" => sync'[s] = sync[s]
                               /\ sync[s] # Idle => sync'[s].batch = sync[s].batch /\ sync'[s].new = sync[s].new
           /\ store' = kept' /\ kept \subseteq kept' /\ kept' \subseteq 1..created
           /\ strays' \subseteq strays /\ \A r \in strays' : r.step = "sent"
<1>1. sync' = [s \in Slots |-> IF s \in Serving THEN [sync[s] EXCEPT !.step = "gone"] ELSE sync[s]]
    BY DEF Restart
<1>2. ASSUME NEW s \in Slots
      PROVE  /\ sync'[s] \in Attempts /\ sync'[s].step # "saving"
             /\ sync'[s] = Idle <=> sync[s] = Idle
             /\ sync'[s].step = "answered" => sync'[s] = sync[s]
             /\ sync[s] # Idle => sync'[s].batch = sync[s].batch /\ sync'[s].new = sync[s].new
  <2>1. CASE sync[s].step # "saving"
    <3>1. sync'[s] = sync[s] BY <1>1, <2>1 DEF Serving
    <3> QED BY <2>1, <3>1 DEF SyncsOK, SlotsOK
  <2>2. CASE sync[s].step = "saving"
    <3>1. sync[s] # Idle /\ sync[s] \in Attempt BY <2>2, IdleLemma DEF SyncsOK
    <3>2. sync'[s] = [sync[s] EXCEPT !.step = "gone"] BY <1>1, <2>2 DEF Serving
    <3>3. sync'[s] \in Attempt /\ sync'[s].step = "gone" /\ sync'[s].batch = sync[s].batch /\ sync'[s].new = sync[s].new
        BY <3>1, <3>2 DEF Attempt
    <3>4. sync'[s] # Idle BY <3>3 DEF Idle
    <3> QED BY <3>1, <3>3, <3>4 DEF Attempts
  <2> QED BY <2>1, <2>2
<1>3. SlotsOK' BY <1>1, <1>2 DEF SlotsOK
<1>4. strays' \subseteq strays /\ \A r \in strays' : r.step = "sent" BY DEF Restart
<1>5. BeingSaved \subseteq 1..created
  <2> SUFFICES ASSUME NEW e \in BeingSaved PROVE e \in 1..created OBVIOUS
  <2>1. \/ \E s \in Serving : e \in sync[s].new
        \/ \E r \in strays : r.step = "saving" /\ e \in r.new
      BY DEF BeingSaved
  <2>2. ASSUME NEW s \in Serving PROVE sync[s].new \subseteq 1..created
    <3>1. s \in Slots /\ sync[s] # Idle BY IdleLemma DEF Serving, SyncsOK
    <3> QED BY <3>1 DEF SyncsOK, Carries
  <2>3. \A r \in strays : r.new \subseteq 1..created BY DEF StraysOK, Carries
  <2> QED BY <2>1, <2>2, <2>3
<1>6. kept \subseteq 1..created BY DEF ServerOK
<1>7. store' = kept' /\ kept \subseteq kept' /\ kept' \subseteq 1..created
  <2>1. store' = kept' BY DEF Restart
  <2>2. kept' = kept \/ kept' = kept \cup BeingSaved BY DEF Restart
  <2> QED BY <1>5, <1>6, <2>1, <2>2
<1> QED BY <1>2, <1>3, <1>4, <1>7

LEMMA RestartType ==
    ASSUME TypeInv, Restart PROVE TypeInv'
<1>1. /\ SlotsOK'
      /\ \A s \in Slots : /\ sync'[s].step # "saving" /\ (sync'[s] = Idle <=> sync[s] = Idle)
                          /\ sync[s] # Idle => sync'[s].batch = sync[s].batch /\ sync'[s].new = sync[s].new
      /\ store' = kept' /\ kept' \subseteq 1..created
      /\ strays' \subseteq strays /\ \A r \in strays' : r.step = "sent"
    BY RestartLemma DEF TypeInv
<1>2. created' = created BY DEF Restart, client
<1>3. CacheOK' BY CacheSame DEF TypeInv, Restart, client
<1>4. ClientOK' BY DEF ClientOK, TypeInv, Restart, client
<1>5. ServerOK' BY <1>1, <1>2 DEF ServerOK, TypeInv, Restart
<1>6. SyncsOK' BY <1>1, <1>2 DEF SyncsOK, Carries, TypeInv
<1>7. StraysOK' BY <1>1, <1>2 DEF StraysOK, Carries, TypeInv
<1>8. CountsOK' BY FaultLemma DEF TypeInv, CountsOK, Restart
<1> QED BY <1>3, <1>4, <1>5, <1>6, <1>7, <1>8 DEF TypeInv

LEMMA CloseType ==
    ASSUME TypeInv, Close PROVE TypeInv'
<1>1. created' = created /\ store' = store /\ created \in Nat BY DEF Close, server, TypeInv, ClientOK
<1>2. CacheOK'
  <2>1. [e \in Events |-> "none"] \in Records(created) BY DEF Records, Marks
  <2> QED BY <1>1, <2>1 DEF CacheOK, TypeInv, Close
<1>3. ClientOK' BY DEF ClientOK, TypeInv, Close
<1>4. ServerOK' BY DEF ServerOK, TypeInv, Close, server
<1>5. SyncsOK' BY DEF SyncsOK, SlotsOK, Attempts, Close
<1>6. Remains(Slots) \subseteq Request /\ \A r \in Remains(Slots) : Carries(r)
    BY RemainsLemma DEF TypeInv
<1>7. strays' = strays \cup Remains(Slots) BY DEF Close
<1>8. StraysOK' BY <1>1, <1>6, <1>7 DEF StraysOK, Carries, TypeInv
<1>9. CountsOK' BY FaultLemma DEF TypeInv, CountsOK, Close
<1> QED BY <1>2, <1>3, <1>4, <1>5, <1>8, <1>9 DEF TypeInv

\* Nothing happens at all.
LEMMA StutterType ==
    ASSUME TypeInv, UNCHANGED vars PROVE TypeInv'
<1> USE DEF vars, cache, client, server
<1>1. CacheOK' BY DEF CacheOK, TypeInv
<1>2. ClientOK' /\ ServerOK' /\ CountsOK' BY DEF ClientOK, ServerOK, CountsOK, TypeInv
<1>3. SyncsOK' BY DEF SyncsOK, SlotsOK, Carries, TypeInv
<1>4. StraysOK' BY DEF StraysOK, Carries, TypeInv
<1> QED BY <1>1, <1>2, <1>3, <1>4 DEF TypeInv

LEMMA TypeStep == TypeInv /\ [Next]_vars => TypeInv'
<1> SUFFICES ASSUME TypeInv, [Next]_vars PROVE TypeInv' OBVIOUS
<1>1. ASSUME NEW s \in Slots, Start(s) \/ Create(s) \/ SyncAll(s) PROVE TypeInv'
    BY <1>1, StartType, CreateType, SyncAllType
<1>2. ASSUME NEW s \in Slots, Receive(s) \/ Write(s) \/ WriteFails(s) PROVE TypeInv'
    BY <1>2, ReceiveType, WriteType, WriteFailsType
<1>3. ASSUME NEW s \in Slots, Timeout(s) \/ TooLarge(s) \/ Finish(s) PROVE TypeInv'
    BY <1>3, TimeoutType, TooLargeType, FinishType
<1>4. ASSUME NEW r \in strays, ReceiveStray(r) \/ WriteStray(r) PROVE TypeInv'
    BY <1>4, ReceiveStrayType, WriteStrayType
<1>5. CASE Show \/ Replay \/ Restart \/ Close BY <1>5, ShowType, ReplayType, RestartType, CloseType
<1>6. CASE UNCHANGED vars BY <1>6, StutterType
<1> QED BY <1>1, <1>2, <1>3, <1>4, <1>5, <1>6 DEF Next

\* Every variable keeps its type, whatever is pushed, pulled, lost or
\* restarted; what is on disk is in the memory of the server.
THEOREM TypeCorrect == Spec => []TypeOK
<1>1. Init => TypeInv BY InitType
<1>2. TypeInv /\ [Next]_vars => TypeInv' BY TypeStep
<1>3. TypeInv => TypeOK BY TypeInvTypes
<1> QED BY <1>1, <1>2, <1>3, PTL DEF Spec

-----------------------------------------------------------------------------
(* Nothing is lost. *)

\* What the server has in memory is written, being written, or a write of it
\* has failed; what it has answered is no longer being written.
ServedInv ==
    /\ \A e \in store : e \in kept \/ e \in failed \/ e \in BeingSaved
    /\ \A s \in Slots : sync[s].step = "saving" =>
          Confirmed(sync[s]) \subseteq kept \cup failed \cup sync[s].new
    /\ \A s \in Slots : sync[s].step = "answered" => Confirmed(sync[s]) \subseteq kept \cup failed

\* Where an event is: what NothingIsLost says, and what is only shown and has
\* come to no harm is not in the cache.
PlacesInv ==
    \A e \in 1..created :
       \/ broken \/ e \in failed \/ e \in hasty \/ e \in kept \/ Loaded[e] = "unsynced"
       \/ e \in onlyShown /\ Loaded[e] = "none"

LossInv == TypeInv /\ ServedInv /\ PlacesInv

LEMMA PlacesLemma == PlacesInv => NothingIsLost
<1> QED BY DEF PlacesInv, NothingIsLost

\* A new sync has nothing to do with what the server has.
LEMMA ServedBegin ==
    ASSUME TypeInv, ServedInv, UNCHANGED <<strays, store, kept, failed>>,
           NEW s \in Slots, NEW batch \in SUBSET Events, Begin(s, batch)
    PROVE  ServedInv'
<1>1. /\ sync[s] = Idle /\ sync'[s].new = {} /\ sync'[s].step = "sent"
      /\ \A t \in Slots \ {s} : sync'[t] = sync[t]
    BY BeginLemma DEF TypeInv, SyncsOK
<1>2. sync[s].step = "idle" BY <1>1 DEF Idle
<1>3. ASSUME NEW e \in BeingSaved PROVE e \in BeingSaved'
    BY <1>1, <1>2, <1>3 DEF BeingSaved, Serving
<1>4. \A t \in Slots : sync'[t].step \in {"saving", "answered"} => sync'[t] = sync[t]
    BY <1>1
<1> QED BY <1>3, <1>4 DEF ServedInv, Confirmed

\* As long as the cache is not touched, nothing is lost that was not.
LEMMA LostSame ==
    ASSUME TypeInv, PlacesInv, UNCHANGED <<cache, created, onlyShown>>,
           kept \subseteq kept', failed \subseteq failed', hasty \subseteq hasty'
    PROVE  PlacesInv'
<1>1. Loaded' = Loaded /\ broken' = broken BY CacheSame DEF TypeInv
<1> QED BY <1>1 DEF PlacesInv

\* A save that adds a batch of events to the cache as unsynced.
LEMMA LostAppended ==
    ASSUME TypeInv, PlacesInv, created' \in Nat, created <= created', created' <= MaxEvents,
           NEW records \in Records(created'), NEW full \in Records(created'),
           SaveOr(records, full), UNCHANGED <<kept, failed, hasty>>,
           \A e \in 1..created : ~disabled /\ Loaded[e] = "unsynced" => records[e] = "unsynced",
           \A e \in 1..created : ~disabled /\ e \in onlyShown /\ Loaded[e] = "none" =>
              records[e] = "unsynced" \/ (e \in onlyShown' /\ records[e] = "none"),
           \A e \in 1..created' : ~disabled /\ e > created => records[e] = "unsynced"
    PROVE  PlacesInv'
<1>1. created \in Nat BY DEF TypeInv, ClientOK
<1>2. (broken => broken') /\ (~broken' => Loaded' = records) BY <1>1, SaveLemma DEF TypeInv
<1>3. disabled => broken BY DEF TypeInv, CacheOK
<1> SUFFICES ASSUME NEW e \in 1..created', ~broken'
             PROVE  \/ e \in failed \/ e \in hasty \/ e \in kept \/ Loaded'[e] = "unsynced"
                    \/ e \in onlyShown' /\ Loaded'[e] = "none"
    BY DEF PlacesInv
<1>4. ~broken /\ ~disabled BY <1>2, <1>3
<1>5. CASE e > created BY <1>2, <1>4, <1>5
<1>6. CASE ~(e > created)
  <2>1. e \in 1..created BY <1>1, <1>6
  <2> QED BY <1>2, <1>4, <2>1 DEF PlacesInv
<1> QED BY <1>5, <1>6

LEMMA LossStart ==
    ASSUME LossInv, NEW s \in Slots, Start(s) \/ Create(s) PROVE LossInv'
<1> DEFINE new == created + 1
<1>1. /\ created \in Nat /\ created' = new /\ created' \in Nat /\ created <= created' /\ created' <= MaxEvents
      /\ new \in Events /\ {new} \subseteq 1..created' /\ {new} \in SUBSET Events
    BY BoundsAssumption DEF Start, Create, LossInv, TypeInv, ClientOK, Events
<1>2. SaveOr(Appended({new}), Appended({new})) BY DEF Start, Create, Save
<1>3. /\ Appended({new}) \in Records(created')
      /\ \A e \in Events : /\ e \notin {new} => Appended({new})[e] = Loaded[e]
                           /\ e \in {new} /\ Loaded[e] = "none" => Appended({new})[e] = "unsynced"
    BY <1>1, AppendedLemma DEF LossInv, TypeInv
<1>4. Loaded[new] = "none" BY <1>1, LoadedType DEF Records, LossInv, TypeInv
<1>5. /\ \A e \in 1..created : Loaded[e] = "unsynced" => Appended({new})[e] = "unsynced"
      /\ \A e \in 1..created : Appended({new})[e] = Loaded[e]
  <2>1. \A e \in 1..created : e \in Events /\ e \notin {new} BY <1>1, BoundsAssumption DEF Events
  <2> QED BY <1>3, <2>1
<1>6. \A e \in 1..created' : e > created => Appended({new})[e] = "unsynced"
  <2>1. \A e \in 1..created' : e > created => e = new BY <1>1
  <2> QED BY <1>1, <1>3, <1>4, <2>1
<1>7. UNCHANGED <<onlyShown, strays, store, kept, failed, hasty>> BY DEF Start, Create, server
<1>8. PICK records \in Records(created') : records = Appended({new}) BY <1>3
<1>9. PlacesInv' BY <1>1, <1>2, <1>5, <1>6, <1>7, <1>8, LostAppended DEF LossInv
<1>10. TypeInv' BY StartType, CreateType DEF LossInv
<1>11. \E batch \in SUBSET Events : Begin(s, batch)
  <2>1. CASE Create(s) BY <1>1, <2>1 DEF Create
  <2>2. CASE Start(s)
    <3>1. outbox' \in SUBSET Events BY <1>1, <1>10, BoundsAssumption DEF TypeInv, ClientOK, Events
    <3> QED BY <2>2, <3>1 DEF Start
  <2> QED BY <2>1, <2>2
<1>12. ServedInv' BY <1>7, <1>11, ServedBegin DEF LossInv
<1> QED BY <1>9, <1>10, <1>12 DEF LossInv

\* An event that is shown without being cached is not in the cache.
LEMMA LossShow ==
    ASSUME LossInv, Show PROVE LossInv'
<1>1. /\ created \in Nat /\ created' = created + 1 /\ created' <= MaxEvents
      /\ onlyShown' = onlyShown \cup {created'}
      /\ UNCHANGED <<stored, memory, disabled, broken, sync, strays, store, kept, failed, hasty>>
    BY BoundsAssumption DEF Show, LossInv, TypeInv, ClientOK, cache, server
<1>2. Loaded' = Loaded BY <1>1 DEF Loaded
<1>3. Loaded[created'] = "none"
  <2>1. created' \in Events /\ created' > created BY <1>1, BoundsAssumption DEF Events
  <2> QED BY <2>1, LoadedType DEF Records, LossInv, TypeInv
<1>4. PlacesInv'
  <2> SUFFICES ASSUME NEW e \in 1..created', ~broken'
               PROVE  \/ e \in failed' \/ e \in hasty' \/ e \in kept' \/ Loaded'[e] = "unsynced"
                      \/ e \in onlyShown' /\ Loaded'[e] = "none"
      BY DEF PlacesInv
  <2>1. CASE e = created' BY <1>1, <1>2, <1>3, <2>1
  <2>2. CASE e # created'
    <3>1. e \in 1..created BY <1>1, <2>2
    <3> QED BY <1>1, <1>2, <3>1 DEF LossInv, PlacesInv
  <2> QED BY <2>1, <2>2
<1>5. ServedInv' BY <1>1 DEF LossInv, ServedInv, BeingSaved, Serving, Confirmed
<1> QED BY <1>4, <1>5, ShowType DEF LossInv

LEMMA LossSyncAll ==
    ASSUME LossInv, NEW s \in Slots, SyncAll(s) PROVE LossInv'
<1>1. /\ created \in Nat /\ created \in 0..MaxEvents /\ created' = created /\ created <= created'
      /\ created' \in Nat /\ created' <= MaxEvents
      /\ UNCHANGED <<strays, store, kept, failed, hasty>>
    BY BoundsAssumption DEF LossInv, TypeInv, ClientOK, SyncAll, server
<1>2. Unsynced \subseteq 1..created BY <1>1, UnsyncedType DEF LossInv, TypeInv
<1>3. PICK batch \in SUBSET (1..created) : batch = outbox \cup Unsynced \cup (shown \ synced)
    BY <1>2 DEF LossInv, TypeInv, ClientOK
<1>4. batch \in SUBSET Events BY <1>1, BoundsAssumption DEF Events
<1>5. Begin(s, batch) /\ \E last \in batch : SaveOr(Overwritten(batch, last), Appended(batch))
    BY <1>3 DEF SyncAll
<1>6. PICK last \in batch : SaveOr(Overwritten(batch, last), Appended(batch)) BY <1>5
<1>7. Overwritten(batch, last) \in Records(created') /\ Appended(batch) \in Records(created')
    BY <1>1, OverwrittenLemma DEF LossInv, TypeInv
<1>8. \A e \in Events : /\ Loaded[e] # "none" => Appended(batch)[e] = Loaded[e]
                        /\ e \notin batch => Appended(batch)[e] = Loaded[e]
                        /\ e \in batch /\ Loaded[e] = "none" => Appended(batch)[e] = "unsynced"
    BY <1>1, <1>4, AppendedLemma DEF LossInv, TypeInv
<1>9. /\ \A e \in 1..created : ~disabled /\ Loaded[e] = "unsynced" => Overwritten(batch, last)[e] = "unsynced"
      /\ \A e \in 1..created : ~disabled /\ e \in onlyShown /\ Loaded[e] = "none" =>
            \/ Overwritten(batch, last)[e] = "unsynced"
            \/ e \in onlyShown' /\ Overwritten(batch, last)[e] = "none"
  <2>1. \A e \in 1..created : e \in Events BY <1>1, BoundsAssumption DEF Events
  <2>2. onlyShown' = onlyShown \ batch BY <1>3 DEF SyncAll
  <2>3. ~disabled => Overwritten(batch, last) = Appended(batch) BY DEF Overwritten
  <2>4. ASSUME NEW e \in 1..created, ~disabled, Loaded[e] = "unsynced"
        PROVE  Overwritten(batch, last)[e] = "unsynced"
    <3>1. Appended(batch)[e] = "unsynced" BY <1>8, <2>1, <2>4
    <3> QED BY <2>3, <2>4, <3>1
  <2>5. ASSUME NEW e \in 1..created, ~disabled, e \in onlyShown, Loaded[e] = "none"
        PROVE  \/ Overwritten(batch, last)[e] = "unsynced"
               \/ e \in onlyShown' /\ Overwritten(batch, last)[e] = "none"
    <3>1. e \in batch => Appended(batch)[e] = "unsynced" BY <1>8, <2>1, <2>5
    <3>2. e \notin batch => e \in onlyShown' /\ Appended(batch)[e] = "none" BY <1>8, <2>1, <2>2, <2>5
    <3> QED BY <2>3, <2>5, <3>1, <3>2
  <2> QED BY <2>4, <2>5
<1>10. \A e \in 1..created' : ~(e > created) BY <1>1
<1>11. PICK records \in Records(created') : records = Overwritten(batch, last) BY <1>7
<1>12. PICK full \in Records(created') : full = Appended(batch) BY <1>7
<1>13. PlacesInv' BY <1>1, <1>6, <1>9, <1>10, <1>11, <1>12, LostAppended DEF LossInv
<1>14. ServedInv' BY <1>1, <1>4, <1>5, ServedBegin DEF LossInv
<1>15. TypeInv' BY SyncAllType DEF LossInv
<1> QED BY <1>13, <1>14, <1>15 DEF LossInv

LEMMA LossReplay ==
    ASSUME LossInv, Replay PROVE LossInv'
<1> DEFINE pulled == {e \in store : Session[e] = Open}
<1>1. /\ created \in Nat /\ created \in 0..MaxEvents /\ created' = created /\ created' \in Nat /\ created <= created'
      /\ UNCHANGED <<onlyShown, sync, strays, store, kept, failed>>
    BY DEF LossInv, TypeInv, ClientOK, Replay
<1>2. pulled \in SUBSET (1..created) BY PulledType DEF LossInv
<1>3. /\ SaveOr(Marked(IF disabled THEN Loaded ELSE Appended(pulled), pulled), Marked(Appended(pulled), pulled))
      /\ hasty' = hasty \cup (pulled \ kept)
    BY DEF Replay
<1> HIDE DEF pulled
<1>4. PICK records \in Records(created') :
         /\ records = Marked(IF disabled THEN Loaded ELSE Appended(pulled), pulled)
         /\ \A e \in Events \ pulled : records[e] = Loaded[e]
    BY <1>1, <1>2, ReplayLemma DEF LossInv, TypeInv
<1>5. PICK full \in Records(created') : full = Marked(Appended(pulled), pulled)
    BY <1>1, <1>2, ReplayLemma DEF LossInv, TypeInv
<1>6. SaveOr(records, full) BY <1>3, <1>4, <1>5
<1>7. (broken => broken') /\ (~broken' => Loaded' = records)
    BY <1>1, <1>6, SaveLemma DEF LossInv, TypeInv
<1>8. PlacesInv'
  <2> SUFFICES ASSUME NEW e \in 1..created', ~broken'
               PROVE  \/ e \in failed' \/ e \in hasty' \/ e \in kept' \/ Loaded'[e] = "unsynced"
                      \/ e \in onlyShown' /\ Loaded'[e] = "none"
      BY DEF PlacesInv
  <2>1. CASE e \in pulled BY <1>1, <1>3, <2>1
  <2>2. CASE e \notin pulled
    <3>1. e \in 1..created /\ e \in Events BY <1>1, BoundsAssumption DEF Events
    <3>2. Loaded'[e] = Loaded[e] BY <1>4, <1>7, <2>2, <3>1
    <3> QED BY <1>1, <1>3, <1>7, <3>1, <3>2 DEF LossInv, PlacesInv
  <2> QED BY <2>1, <2>2
<1>9. ServedInv' BY <1>1 DEF LossInv, ServedInv, BeingSaved, Serving, Confirmed
<1>10. TypeInv' BY ReplayType DEF LossInv
<1> QED BY <1>8, <1>9, <1>10 DEF LossInv

\* As long as nobody writes, the memory of the server is its disk and what
\* failed writes have left.
LEMMA IdleServer ==
    ASSUME ServedInv, ~Busy PROVE store \subseteq kept \cup failed
<1>1. BeingSaved = {} BY DEF Busy, BeingSaved
<1> QED BY <1>1 DEF ServedInv

LEMMA LossReceive ==
    ASSUME LossInv, NEW s \in Slots, Receive(s) PROVE LossInv'
<1>1. /\ sync'[s].batch = sync[s].batch /\ sync'[s].session = sync[s].session
      /\ sync'[s].new = Confirmed(sync[s]) \ store
      /\ sync'[s].step = IF Confirmed(sync[s]) \ store = {} THEN "answered" ELSE "saving"
      /\ \A t \in Slots \ {s} : sync'[t] = sync[t]
      /\ store' = store \cup (Confirmed(sync[s]) \ store)
      /\ Confirmed(sync[s]) \subseteq sync[s].batch
    BY ReceiveLemma DEF LossInv, TypeInv, SyncsOK
<1>2. UNCHANGED <<cache, created, onlyShown, strays, kept, failed, hasty>> BY DEF Receive, client
<1>3. store \subseteq kept \cup failed BY IdleServer DEF LossInv, Receive
<1>4. TypeInv' BY ReceiveType DEF LossInv
<1>5. PlacesInv' BY <1>2, LostSame DEF LossInv
<1>6. Confirmed(sync[s])' = Confirmed(sync[s]) BY <1>1 DEF Confirmed
<1>7. \A e \in store' : e \in kept' \/ e \in failed' \/ e \in BeingSaved'
  <2> SUFFICES ASSUME NEW e \in store', e \notin store PROVE e \in BeingSaved' BY <1>2, <1>3
  <2>1. e \in sync'[s].new /\ sync'[s].step = "saving" BY <1>1
  <2>2. e \in Events BY <1>4, BoundsAssumption DEF TypeInv, ServerOK, ClientOK, Events
  <2> QED BY <2>1, <2>2 DEF BeingSaved, Serving
<1>8. ASSUME NEW t \in Slots
      PROVE  /\ sync'[t].step = "saving" => Confirmed(sync[t])' \subseteq kept' \cup failed' \cup sync'[t].new
             /\ sync'[t].step = "answered" => Confirmed(sync[t])' \subseteq kept' \cup failed'
  <2>1. CASE t = s BY <1>1, <1>2, <1>3, <1>6, <2>1
  <2>2. CASE t # s
    <3>1. sync'[t] = sync[t] BY <1>1, <2>2
    <3> QED BY <1>2, <3>1 DEF Confirmed, LossInv, ServedInv
  <2> QED BY <2>1, <2>2
<1>9. ServedInv' BY <1>7, <1>8 DEF ServedInv
<1> QED BY <1>4, <1>5, <1>9 DEF LossInv

LEMMA LossWrite ==
    ASSUME LossInv, NEW s \in Slots, Write(s) PROVE LossInv'
<1>1. /\ sync'[s].batch = sync[s].batch /\ sync'[s].session = sync[s].session
      /\ sync'[s].step = "answered"
      /\ \A t \in Slots \ {s} : sync'[t] = sync[t]
    BY WriteLemma DEF LossInv, TypeInv, SyncsOK
<1>2. UNCHANGED <<cache, created, onlyShown, strays, store, failed, hasty>> BY DEF Write, client
<1>3. sync[s].step = "saving" /\ kept' = kept \cup sync[s].new BY DEF Write
<1>4. TypeInv' BY WriteType DEF LossInv
<1>5. PlacesInv' BY <1>2, <1>3, LostSame DEF LossInv
<1>6. Confirmed(sync[s])' = Confirmed(sync[s]) BY <1>1 DEF Confirmed
<1>7. \A e \in BeingSaved : e \in sync[s].new \/ e \in BeingSaved'
    BY <1>1, <1>2 DEF BeingSaved, Serving
<1>8. \A e \in store' : e \in kept' \/ e \in failed' \/ e \in BeingSaved'
    BY <1>2, <1>3, <1>7 DEF LossInv, ServedInv
<1>9. ASSUME NEW t \in Slots
      PROVE  /\ sync'[t].step = "saving" => Confirmed(sync[t])' \subseteq kept' \cup failed' \cup sync'[t].new
             /\ sync'[t].step = "answered" => Confirmed(sync[t])' \subseteq kept' \cup failed'
  <2>1. CASE t = s BY <1>1, <1>2, <1>3, <1>6, <2>1 DEF LossInv, ServedInv
  <2>2. CASE t # s
    <3>1. sync'[t] = sync[t] BY <1>1, <2>2
    <3> QED BY <1>2, <1>3, <3>1 DEF Confirmed, LossInv, ServedInv
  <2> QED BY <2>1, <2>2
<1>10. ServedInv' BY <1>8, <1>9 DEF ServedInv
<1> QED BY <1>4, <1>5, <1>10 DEF LossInv

LEMMA LossReceiveStray ==
    ASSUME LossInv, NEW r \in strays, ReceiveStray(r) PROVE LossInv'
<1>1. /\ r \in Request
      /\ store' = store \cup (Confirmed(r) \ store)
      /\ Confirmed(r) \ store # {} => \E q \in strays' : q.step = "saving" /\ q.new = Confirmed(r) \ store
    BY ReceiveStrayLemma DEF LossInv, TypeInv
<1>2. UNCHANGED <<cache, created, onlyShown, sync, kept, failed, hasty>> BY DEF ReceiveStray, client
<1>3. store \subseteq kept \cup failed BY IdleServer DEF LossInv, ReceiveStray
<1>4. TypeInv' BY ReceiveStrayType DEF LossInv
<1>5. PlacesInv' BY <1>2, LostSame DEF LossInv
<1>6. \A e \in store' : e \in kept' \/ e \in failed' \/ e \in BeingSaved'
  <2> SUFFICES ASSUME NEW e \in store', e \notin store PROVE e \in BeingSaved' BY <1>2, <1>3
  <2>1. \E q \in strays' : q.step = "saving" /\ e \in q.new BY <1>1
  <2>2. e \in Events BY <1>4, BoundsAssumption DEF TypeInv, ServerOK, ClientOK, Events
  <2> QED BY <2>1, <2>2 DEF BeingSaved
<1>7. ServedInv' BY <1>2, <1>6 DEF LossInv, ServedInv, Confirmed
<1> QED BY <1>4, <1>5, <1>7 DEF LossInv

LEMMA LossWriteStray ==
    ASSUME LossInv, NEW r \in strays, WriteStray(r) PROVE LossInv'
<1>1. /\ UNCHANGED <<cache, created, onlyShown, sync, store, hasty>> /\ strays' = strays \ {r}
      /\ kept \subseteq kept' /\ failed \subseteq failed' /\ r.new \subseteq kept' \cup failed'
    BY DEF WriteStray, client
<1>2. TypeInv' BY WriteStrayType DEF LossInv
<1>3. PlacesInv' BY <1>1, LostSame DEF LossInv
<1>4. \A e \in BeingSaved : e \in r.new \/ e \in BeingSaved' BY <1>1 DEF BeingSaved, Serving
<1>5. \A e \in store' : e \in kept' \/ e \in failed' \/ e \in BeingSaved'
    BY <1>1, <1>4 DEF LossInv, ServedInv
<1>6. ServedInv' BY <1>1, <1>5 DEF LossInv, ServedInv, Confirmed
<1> QED BY <1>2, <1>3, <1>6 DEF LossInv

\* The steps in which the client gives up an attempt: what was being written
\* for it is written for nobody, or its write has failed.
LEMMA ServedNextUrl ==
    ASSUME LossInv, NEW s \in Slots, sync[s] # Idle, NextUrl(s),
           UNCHANGED <<store, kept>>, failed \subseteq failed', strays \subseteq strays',
           sync[s].step = "saving" =>
              \A e \in sync[s].new : e \in failed' \/ \E r \in strays' : r.step = "saving" /\ e \in r.new
    PROVE  ServedInv'
<1>1. /\ \A t \in Slots \ {s} : sync'[t] = sync[t]
      /\ sync'[s].step \in {"sent", "idle"}
    BY NextUrlLemma DEF LossInv, TypeInv, SyncsOK, Idle
<1>2. ASSUME NEW e \in BeingSaved PROVE e \in failed' \/ e \in BeingSaved'
  <2>1. CASE \E t \in Serving \ {s} : e \in sync[t].new
      BY <1>1, <1>2, <2>1 DEF BeingSaved, Serving
  <2>2. CASE s \in Serving /\ e \in sync[s].new BY <1>2, <2>2 DEF BeingSaved, Serving
  <2>3. CASE \E r \in strays : r.step = "saving" /\ e \in r.new BY <1>2, <2>3 DEF BeingSaved
  <2> QED BY <1>2, <2>1, <2>2, <2>3 DEF BeingSaved
<1>3. \A t \in Slots : sync'[t].step \in {"saving", "answered"} => sync'[t] = sync[t]
    BY <1>1
<1> QED BY <1>2, <1>3 DEF LossInv, ServedInv, Confirmed

LEMMA LossTimeout ==
    ASSUME LossInv, NEW s \in Slots, Timeout(s) PROVE LossInv'
<1>1. UNCHANGED <<created, onlyShown, store, kept, failed, hasty>> /\ strays' = strays \cup Remains({s})
      /\ sync[s] # Idle /\ NextUrl(s)
    BY DEF Timeout, server
<1>2. UNCHANGED cache BY <1>1, NextUrlLemma DEF LossInv, TypeInv, SyncsOK
<1>3. sync[s].step = "saving" => \E r \in Remains({s}) : r.new = sync[s].new /\ r.step = "saving"
    BY RemainsLemma DEF LossInv, TypeInv
<1>4. ServedInv' BY <1>1, <1>3, ServedNextUrl
<1>5. PlacesInv' BY <1>1, <1>2, LostSame DEF LossInv
<1> QED BY <1>4, <1>5, TimeoutType DEF LossInv

LEMMA LossTooLarge ==
    ASSUME LossInv, NEW s \in Slots, TooLarge(s) PROVE LossInv'
<1>1. UNCHANGED <<created, onlyShown, store, kept, failed, hasty, strays>> /\ sync[s].step = "sent" /\ NextUrl(s)
    BY DEF TooLarge, server
<1>2. sync[s] # Idle BY <1>1, IdleLemma DEF LossInv, TypeInv, SyncsOK
<1>3. UNCHANGED cache BY <1>1, <1>2, NextUrlLemma DEF LossInv, TypeInv, SyncsOK
<1>4. ServedInv' BY <1>1, <1>2, ServedNextUrl
<1>5. PlacesInv' BY <1>1, <1>3, LostSame DEF LossInv
<1> QED BY <1>4, <1>5, TooLargeType DEF LossInv

LEMMA LossWriteFails ==
    ASSUME LossInv, NEW s \in Slots, WriteFails(s) PROVE LossInv'
<1>1. /\ UNCHANGED <<created, onlyShown, store, kept, hasty, strays>> /\ sync[s].step = "saving" /\ NextUrl(s)
      /\ failed' = failed \cup sync[s].new
    BY DEF WriteFails
<1>2. sync[s] # Idle BY <1>1, IdleLemma DEF LossInv, TypeInv, SyncsOK
<1>3. UNCHANGED cache BY <1>1, <1>2, NextUrlLemma DEF LossInv, TypeInv, SyncsOK
<1>4. ServedInv' BY <1>1, <1>2, ServedNextUrl
<1>5. PlacesInv' BY <1>1, <1>3, LostSame DEF LossInv
<1> QED BY <1>4, <1>5, WriteFailsType DEF LossInv

LEMMA LossFinish ==
    ASSUME LossInv, NEW s \in Slots, Finish(s) PROVE LossInv'
<1>1. /\ sync[s].step = "answered" /\ (broken => broken')
      /\ ~broken' => \A e \in Events : e \notin Synced(sync[s]) => Loaded'[e] = Loaded[e]
    BY FinishLemma DEF LossInv
<1>2. UNCHANGED <<created, onlyShown, strays, store, kept, failed, hasty>> /\ sync' = [sync EXCEPT ![s] = Idle]
    BY DEF Finish, server
<1>3. Synced(sync[s]) \subseteq kept \cup failed BY <1>1 DEF LossInv, ServedInv, Synced
<1>4. PlacesInv'
  <2> SUFFICES ASSUME NEW e \in 1..created, ~broken'
               PROVE  \/ e \in failed \/ e \in hasty \/ e \in kept \/ Loaded'[e] = "unsynced"
                      \/ e \in onlyShown' /\ Loaded'[e] = "none"
      BY <1>2 DEF PlacesInv
  <2>1. e \in Events BY BoundsAssumption DEF LossInv, TypeInv, ClientOK, Events
  <2>2. \/ e \in failed \/ e \in hasty \/ e \in kept \/ Loaded[e] = "unsynced"
        \/ e \in onlyShown /\ Loaded[e] = "none"
      BY <1>1 DEF LossInv, PlacesInv
  <2> QED BY <1>1, <1>2, <1>3, <2>1, <2>2
<1>5. \A t \in Slots \ {s} : sync'[t] = sync[t] BY <1>2 DEF LossInv, TypeInv, SyncsOK, SlotsOK
<1>6. sync'[s].step = "idle" BY <1>2 DEF LossInv, TypeInv, SyncsOK, SlotsOK, Idle
<1>7. \A e \in BeingSaved : e \in BeingSaved' BY <1>1, <1>2, <1>5 DEF BeingSaved, Serving
<1>8. \A t \in Slots : sync'[t].step \in {"saving", "answered"} => sync'[t] = sync[t]
    BY <1>5, <1>6
<1>9. ServedInv' BY <1>2, <1>7, <1>8 DEF LossInv, ServedInv, Confirmed
<1> QED BY <1>4, <1>9, FinishType DEF LossInv

LEMMA LossRestart ==
    ASSUME LossInv, Restart PROVE LossInv'
<1>1. /\ \A s \in Slots : /\ sync'[s].step # "saving"
                          /\ sync'[s].step = "answered" => sync'[s] = sync[s]
      /\ store' = kept' /\ kept \subseteq kept'
    BY RestartLemma DEF LossInv, TypeInv
<1>2. UNCHANGED <<cache, created, onlyShown, failed, hasty>> BY DEF Restart, client
<1>3. PlacesInv' BY <1>1, <1>2, LostSame DEF LossInv
<1>4. ASSUME NEW s \in Slots, sync'[s].step = "answered"
      PROVE  Confirmed(sync[s])' \subseteq kept' \cup failed'
  <2>1. sync'[s] = sync[s] BY <1>1, <1>4
  <2>2. Confirmed(sync[s]) \subseteq kept \cup failed BY <1>4, <2>1 DEF LossInv, ServedInv
  <2> QED BY <1>1, <1>2, <2>1, <2>2 DEF Confirmed
<1>5. ServedInv' BY <1>1, <1>4 DEF ServedInv
<1> QED BY <1>3, <1>5, RestartType DEF LossInv

\* A closed client finds what localStorage holds when it starts again.
LEMMA LossClose ==
    ASSUME LossInv, Close PROVE LossInv'
<1>1. /\ UNCHANGED <<stored, broken, created, onlyShown, store, kept, failed, hasty>> /\ disabled' = FALSE
      /\ strays' = strays \cup Remains(Slots) /\ sync' = [s \in Slots |-> Idle]
    BY DEF Close, server
<1>2. PlacesInv'
  <2> SUFFICES ASSUME NEW e \in 1..created, ~broken
               PROVE  \/ e \in failed \/ e \in hasty \/ e \in kept \/ Loaded'[e] = "unsynced"
                      \/ e \in onlyShown' /\ Loaded'[e] = "none"
      BY <1>1 DEF PlacesInv
  <2>1. ~disabled BY DEF LossInv, TypeInv, CacheOK
  <2>2. Loaded' = Loaded BY <1>1, <2>1 DEF Loaded
  <2> QED BY <1>1, <2>2 DEF LossInv, PlacesInv
<1>3. ASSUME NEW e \in BeingSaved PROVE e \in BeingSaved'
  <2>1. CASE \E s \in Serving : e \in sync[s].new
    <3>1. PICK s \in Slots : sync[s].step = "saving" /\ e \in sync[s].new BY <2>1 DEF Serving
    <3>2. \E r \in Remains(Slots) : r.new = sync[s].new /\ r.step = "saving"
        BY <3>1, RemainsLemma DEF LossInv, TypeInv
    <3> QED BY <1>1, <1>3, <3>1, <3>2 DEF BeingSaved
  <2>2. CASE \E r \in strays : r.step = "saving" /\ e \in r.new BY <1>1, <1>3, <2>2 DEF BeingSaved
  <2> QED BY <1>3, <2>1, <2>2 DEF BeingSaved
<1>4. \A s \in Slots : sync'[s].step = "idle" BY <1>1 DEF Idle
<1>5. ServedInv' BY <1>1, <1>3, <1>4 DEF LossInv, ServedInv
<1> QED BY <1>2, <1>5, CloseType DEF LossInv

LEMMA LossStutter ==
    ASSUME LossInv, UNCHANGED vars PROVE LossInv'
<1>1. TypeInv' BY StutterType DEF LossInv
<1>2. PlacesInv' BY DEF LossInv, PlacesInv, Loaded, vars, cache, client, server
<1>3. ServedInv' BY DEF LossInv, ServedInv, BeingSaved, Serving, Confirmed, vars, server
<1> QED BY <1>1, <1>2, <1>3 DEF LossInv

LEMMA InitLoss == Init => LossInv
<1> SUFFICES ASSUME Init PROVE LossInv OBVIOUS
<1>1. created = 0 /\ store = {} /\ \A s \in Slots : sync[s].step = "idle" BY DEF Init, Idle
<1>2. PlacesInv BY <1>1 DEF PlacesInv
<1>3. ServedInv BY <1>1 DEF ServedInv
<1> QED BY <1>2, <1>3, InitType DEF LossInv

LEMMA LossStep == LossInv /\ [Next]_vars => LossInv'
<1> SUFFICES ASSUME LossInv, [Next]_vars PROVE LossInv' OBVIOUS
<1>1. ASSUME NEW s \in Slots, Start(s) \/ Create(s) \/ SyncAll(s) PROVE LossInv'
    BY <1>1, LossStart, LossSyncAll
<1>2. ASSUME NEW s \in Slots, Receive(s) \/ Write(s) \/ WriteFails(s) PROVE LossInv'
    BY <1>2, LossReceive, LossWrite, LossWriteFails
<1>3. ASSUME NEW s \in Slots, Timeout(s) \/ TooLarge(s) \/ Finish(s) PROVE LossInv'
    BY <1>3, LossTimeout, LossTooLarge, LossFinish
<1>4. ASSUME NEW r \in strays, ReceiveStray(r) \/ WriteStray(r) PROVE LossInv'
    BY <1>4, LossReceiveStray, LossWriteStray
<1>5. CASE Show \/ Replay \/ Restart \/ Close BY <1>5, LossShow, LossReplay, LossRestart, LossClose
<1>6. CASE UNCHANGED vars BY <1>6, LossStutter
<1> QED BY <1>1, <1>2, <1>3, <1>4, <1>5, <1>6 DEF Next

\* An event a client has cached or sent is on the disk of the server or still
\* counts as unsynced, through timeouts, retries over several urls, late
\* requests, restarts and reloads, unless localStorage or a write failed, or it
\* was pulled before it was written.  An event of an autonomous run comes under
\* this when a sync of everything takes it, not before.
THEOREM EventsAreNotLost == Spec => []NothingIsLost
<1>1. Init => LossInv BY InitLoss
<1>2. LossInv /\ [Next]_vars => LossInv' BY LossStep
<1>3. LossInv => NothingIsLost BY PlacesLemma DEF LossInv
<1> QED BY <1>1, <1>2, <1>3, PTL DEF Spec

-----------------------------------------------------------------------------
(* What waits is shown. *)

\* What the syncs that run are sending.
Sending == {e \in Events : \E s \in Slots : sync[s] # Idle /\ e \in sync[s].batch}

\* WaitingIsShown, event by event.
WaitingInv == running => \A e \in Unsynced : e \in outbox \/ e \in Sending

LEMMA WaitingLemma == WaitingIsShown <=> WaitingInv
<1>1. ASSUME NEW e \in Unsynced
      PROVE  e \in UNION {sync[s].batch : s \in {t \in Slots : sync[t] # Idle}} <=> e \in Sending
  <2>1. e \in Events BY DEF Unsynced
  <2> QED BY <2>1 DEF Sending
<1> QED BY <1>1 DEF WaitingIsShown, WaitingInv

\* A sync that begins sends its batch, and the others go on.
LEMMA WaitingBegin ==
    ASSUME TypeInv, NEW s \in Slots, NEW batch \in SUBSET Events, Begin(s, batch)
    PROVE  batch \subseteq Sending' /\ Sending \subseteq Sending'
<1>1. /\ sync[s] = Idle /\ sync'[s] # Idle /\ sync'[s].batch = batch
      /\ \A t \in Slots \ {s} : sync'[t] = sync[t]
    BY BeginLemma DEF TypeInv, SyncsOK
<1> QED BY <1>1 DEF Sending

\* The cache after a save has no unsynced event that was not there or added.
LEMMA WaitingSave ==
    ASSUME TypeInv, created' \in Nat, created <= created', NEW records \in Records(created'),
           NEW full \in Records(created'), SaveOr(records, full), NEW added,
           \A e \in Events : records[e] = "unsynced" => Loaded[e] = "unsynced" \/ e \in added,
           \A e \in Events : full[e] = "unsynced" => Loaded[e] = "unsynced" \/ e \in added
    PROVE  Unsynced' \subseteq Unsynced \cup added
<1>1. created \in Nat BY DEF TypeInv, ClientOK
<1>2. Loaded' \in {records, full, Loaded} BY <1>1, SaveLemma DEF TypeInv
<1> QED BY <1>2 DEF Unsynced

LEMMA WaitingStart ==
    ASSUME TypeInv, WaitingInv, NEW s \in Slots, Start(s) \/ Create(s) PROVE WaitingInv'
<1> DEFINE new == created + 1
<1>1. /\ created \in Nat /\ created' = new /\ created' \in Nat /\ created <= created' /\ created' <= MaxEvents
      /\ new \in Events /\ {new} \subseteq 1..created' /\ {new} \in SUBSET Events
    BY BoundsAssumption DEF Start, Create, TypeInv, ClientOK, Events
<1>2. SaveOr(Appended({new}), Appended({new})) BY DEF Start, Create, Save
<1>3. /\ Appended({new}) \in Records(created')
      /\ \A e \in Events : e \notin {new} => Appended({new})[e] = Loaded[e]
    BY <1>1, AppendedLemma DEF TypeInv
<1>4. PICK records \in Records(created') : records = Appended({new}) BY <1>3
<1>5. Unsynced' \subseteq Unsynced \cup {new}
  <2>1. \A e \in Events : records[e] = "unsynced" => Loaded[e] = "unsynced" \/ e \in {new} BY <1>3, <1>4
  <2>2. SaveOr(records, records) BY <1>2, <1>4
  <2> QED BY <1>1, <2>1, <2>2, WaitingSave
<1>6. CASE Start(s)
  <2>1. outbox' = Unsynced \cup {new} BY <1>6 DEF Start
  <2> QED BY <1>5, <2>1 DEF WaitingInv
<1>7. CASE Create(s)
  <2>1. Begin(s, {new}) /\ running /\ outbox' = outbox BY <1>7 DEF Create
  <2>2. {new} \subseteq Sending' /\ Sending \subseteq Sending' BY <1>1, <2>1, WaitingBegin
  <2> QED BY <1>5, <2>1, <2>2 DEF WaitingInv
<1> QED BY <1>6, <1>7

LEMMA WaitingSyncAll ==
    ASSUME TypeInv, WaitingInv, NEW s \in Slots, SyncAll(s) PROVE WaitingInv'
<1>1. /\ created \in Nat /\ created \in 0..MaxEvents /\ created' = created /\ created <= created' /\ created' \in Nat
    BY DEF TypeInv, ClientOK, SyncAll
<1>2. Unsynced \subseteq 1..created BY <1>1, UnsyncedType DEF TypeInv
<1>3. PICK batch \in SUBSET (1..created) : batch = outbox \cup Unsynced \cup (shown \ synced)
    BY <1>2 DEF TypeInv, ClientOK
<1>4. batch \in SUBSET Events BY <1>1, BoundsAssumption DEF Events
<1>5. Begin(s, batch) /\ \E last \in batch : SaveOr(Overwritten(batch, last), Appended(batch))
    BY <1>3 DEF SyncAll
<1>6. PICK last \in batch : SaveOr(Overwritten(batch, last), Appended(batch)) BY <1>5
<1>7. \A e \in Events : e \notin batch => Appended(batch)[e] = Loaded[e]
    BY <1>1, <1>4, AppendedLemma DEF TypeInv
<1>8. \A e \in Events : e \notin {last} => Appended({last})[e] = Loaded[e]
    BY <1>1, <1>4, AppendedLemma DEF TypeInv
<1>9. PICK records \in Records(created') : records = Overwritten(batch, last)
    BY <1>1, OverwrittenLemma DEF TypeInv
<1>10. PICK full \in Records(created') : full = Appended(batch)
    BY <1>1, OverwrittenLemma DEF TypeInv
<1>11. \A e \in Events : records[e] = "unsynced" => Loaded[e] = "unsynced" \/ e \in batch
    BY <1>7, <1>8, <1>9 DEF Overwritten
<1>12. \A e \in Events : full[e] = "unsynced" => Loaded[e] = "unsynced" \/ e \in batch
    BY <1>7, <1>10
<1>13. Unsynced' \subseteq Unsynced \cup batch
    BY <1>1, <1>6, <1>9, <1>10, <1>11, <1>12, WaitingSave
<1>14. batch \subseteq Sending' BY <1>4, <1>5, WaitingBegin
<1>15. Unsynced' \subseteq batch BY <1>3, <1>13
<1> QED BY <1>14, <1>15 DEF WaitingInv

\* What is only shown is not cached, so it is not waiting.
LEMMA WaitingShow ==
    ASSUME TypeInv, WaitingInv, Show PROVE WaitingInv'
<1>1. UNCHANGED <<stored, memory, disabled, running, outbox, sync>> BY DEF Show, cache
<1>2. Unsynced' = Unsynced BY <1>1 DEF Unsynced, Loaded
<1> QED BY <1>1, <1>2 DEF WaitingInv, Sending

LEMMA WaitingReplay ==
    ASSUME TypeInv, WaitingInv, Replay PROVE WaitingInv'
<1> DEFINE pulled == {e \in store : Session[e] = Open}
<1>1. /\ created \in Nat /\ created \in 0..MaxEvents /\ created' = created /\ created' \in Nat /\ created <= created'
      /\ UNCHANGED <<running, outbox, sync>>
    BY DEF TypeInv, ClientOK, Replay
<1>2. pulled \in SUBSET (1..created) BY PulledType
<1>3. SaveOr(Marked(IF disabled THEN Loaded ELSE Appended(pulled), pulled), Marked(Appended(pulled), pulled))
    BY DEF Replay
<1> HIDE DEF pulled
<1>4. PICK records \in Records(created') :
         /\ records = Marked(IF disabled THEN Loaded ELSE Appended(pulled), pulled)
         /\ \A e \in Events : e \notin pulled => records[e] = Loaded[e]
         /\ \A e \in pulled : records[e] # "unsynced"
    BY <1>1, <1>2, ReplayLemma DEF TypeInv
<1>5. PICK full \in Records(created') :
         /\ full = Marked(Appended(pulled), pulled)
         /\ \A e \in Events : e \notin pulled => full[e] = Loaded[e]
         /\ \A e \in pulled : full[e] # "unsynced"
    BY <1>1, <1>2, ReplayLemma DEF TypeInv
<1>6. SaveOr(records, full) BY <1>3, <1>4, <1>5
<1>7. Unsynced' \subseteq Unsynced \cup {}
  <2>1. \A e \in Events : records[e] = "unsynced" => Loaded[e] = "unsynced" \/ e \in {} BY <1>4
  <2>2. \A e \in Events : full[e] = "unsynced" => Loaded[e] = "unsynced" \/ e \in {} BY <1>5
  <2> QED BY <1>1, <1>6, <2>1, <2>2, WaitingSave
<1> QED BY <1>1, <1>7 DEF WaitingInv, Sending

\* As long as a sync keeps its batch, it goes on sending it.
LEMMA WaitingServed ==
    ASSUME TypeInv, WaitingInv, UNCHANGED <<cache, created, running, outbox>>,
           \A s \in Slots : sync[s] # Idle => sync'[s] # Idle /\ sync'[s].batch = sync[s].batch
    PROVE  WaitingInv'
<1>1. Unsynced' = Unsynced BY CacheSame DEF TypeInv
<1>2. Sending \subseteq Sending' BY DEF Sending
<1> QED BY <1>1, <1>2 DEF WaitingInv

LEMMA WaitingNextUrl ==
    ASSUME TypeInv, WaitingInv, NEW s \in Slots, sync[s] # Idle, NextUrl(s), UNCHANGED <<running, created>>
    PROVE  WaitingInv'
<1>1. CASE /\ sync'[s] # Idle /\ sync'[s].batch = sync[s].batch /\ UNCHANGED <<cache, outbox>>
           /\ \A t \in Slots \ {s} : sync'[t] = sync[t]
    BY <1>1, WaitingServed
<1>2. CASE outbox' = Unsynced' \cup sync[s].batch BY <1>2 DEF WaitingInv
<1> QED BY <1>1, <1>2, NextUrlLemma DEF TypeInv, SyncsOK

LEMMA WaitingStep == TypeInv /\ WaitingInv /\ [Next]_vars => WaitingInv'
<1> SUFFICES ASSUME TypeInv, WaitingInv, [Next]_vars PROVE WaitingInv' OBVIOUS
<1>1. ASSUME NEW s \in Slots, Start(s) \/ Create(s) \/ SyncAll(s) PROVE WaitingInv'
    BY <1>1, WaitingStart, WaitingSyncAll
<1>2. ASSUME NEW s \in Slots, Receive(s) PROVE WaitingInv'
  <2>1. \A t \in Slots : sync[t] # Idle => sync'[t] # Idle /\ sync'[t].batch = sync[t].batch
      BY <1>2, ReceiveLemma DEF TypeInv, SyncsOK
  <2> QED BY <1>2, <2>1, WaitingServed DEF Receive, client
<1>3. ASSUME NEW s \in Slots, Write(s) PROVE WaitingInv'
  <2>1. \A t \in Slots : sync[t] # Idle => sync'[t] # Idle /\ sync'[t].batch = sync[t].batch
      BY <1>3, WriteLemma DEF TypeInv, SyncsOK
  <2> QED BY <1>3, <2>1, WaitingServed DEF Write, client
<1>4. ASSUME NEW s \in Slots, Timeout(s) \/ TooLarge(s) \/ WriteFails(s) PROVE WaitingInv'
  <2>1. sync[s] # Idle BY <1>4, IdleLemma DEF Timeout, TooLarge, WriteFails, TypeInv, SyncsOK
  <2>2. NextUrl(s) /\ UNCHANGED <<running, created>> BY <1>4 DEF Timeout, TooLarge, WriteFails
  <2> QED BY <2>1, <2>2, WaitingNextUrl
<1>5. ASSUME NEW s \in Slots, Finish(s) PROVE WaitingInv'
  <2>1. outbox' = Unsynced' \cup (sync[s].batch \ Synced(sync[s])) BY <1>5 DEF Finish, NextOutbox
  <2> QED BY <2>1 DEF WaitingInv
<1>6. ASSUME NEW r \in strays, ReceiveStray(r) \/ WriteStray(r) PROVE WaitingInv'
  <2>1. UNCHANGED <<cache, created, running, outbox, sync>> BY <1>6 DEF ReceiveStray, WriteStray, client
  <2> QED BY <2>1, WaitingServed
<1>7. CASE Show \/ Replay BY <1>7, WaitingShow, WaitingReplay
<1>8. CASE Restart
  <2>1. \A t \in Slots : sync[t] # Idle => sync'[t] # Idle /\ sync'[t].batch = sync[t].batch
      BY <1>8, RestartLemma DEF TypeInv
  <2> QED BY <1>8, <2>1, WaitingServed DEF Restart, client
<1>9. CASE Close BY <1>9 DEF Close, WaitingInv
<1>10. CASE UNCHANGED vars
  <2>1. UNCHANGED <<cache, created, running, outbox, sync>> BY <1>10 DEF vars, client
  <2> QED BY <2>1, WaitingServed
<1> QED BY <1>1, <1>2, <1>3, <1>4, <1>5, <1>6, <1>7, <1>8, <1>9, <1>10 DEF Next

\* As long as the client runs, every event that counts as unsynced is shown as
\* waiting or is being sent, however many syncs overlap.
THEOREM WaitingStaysShown == Spec => []WaitingIsShown
<1>1. Init => TypeInv /\ WaitingInv BY InitType DEF Init, WaitingInv
<1>2. TypeInv /\ [Next]_vars => TypeInv' BY TypeStep
<1>3. TypeInv /\ WaitingInv /\ [Next]_vars => WaitingInv' BY WaitingStep
<1>4. WaitingInv => WaitingIsShown BY WaitingLemma
<1> QED BY <1>1, <1>2, <1>3, <1>4, PTL DEF Spec
=============================================================================

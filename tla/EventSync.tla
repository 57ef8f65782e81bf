----------------------------- MODULE EventSync ------------------------------
(***************************************************************************)
(* A desktop client keeps the events it creates in a cache, and sends them *)
(* to the event storage of the server.  What the server has confirmed is   *)
(* marked as projected; the rest is shown to the user as the outbox.  A    *)
(* sync sends a batch to one base url after the other until one answers;   *)
(* several syncs may run at once.  Composed with what the storage does     *)
(* with a push: EventStorage has the details, here an event is in the      *)
(* memory of the server and, once it is written, on its disk.              *)
(*                                                                         *)
(* Abstractions.  Events are numbered in the order of createdAt.  A client *)
(* never changes an event, so the server finds it new or a duplicate.      *)
(* What a client does between two of its calls is one step: it only        *)
(* awaits its own cache there, whose operations run at once.  The appends  *)
(* of a batch to the cache are one save.  The user has one session open.   *)
(***************************************************************************)
EXTENDS Integers, FiniteSets

CONSTANTS
    Slots,          \* bound: the syncs that may run at once
    NumUrls,        \* the base urls of the server
    Sessions, Session,  \* the sessions; the session of each event
    Open,           \* the session the user has open
    Secret,         \* events the server refuses: they look like a secret
    RunEvents,      \* events that may be those of an autonomous run
    BodyLimit,      \* the events that fit into a request body
    Faults,         \* the failures the environment may inject
    MaxEvents, MaxFaults, MaxSyncs   \* bounds of a run

Events == 1..MaxEvents

ASSUME BoundsAssumption == {MaxEvents, MaxFaults, MaxSyncs, BodyLimit} \subseteq Nat
ASSUME UrlsAssumption == NumUrls \in Nat \ {0}
ASSUME SessionsAssumption == Session \in [Events -> Sessions] /\ Open \in Sessions
ASSUME SecretAssumption == Secret \subseteq Events
ASSUME RunEventsAssumption == RunEvents \subseteq Events
ASSUME FaultsAssumption == Faults \subseteq {"timeout", "write", "restart", "quota", "reload"}

VARIABLES
    running,    \* the client is running
    created,    \* the events 1..created exist
    stored,     \* localStorage: event -> none, unsynced or projected
    memory,     \* memoryRecords, used once localStorage has failed
    disabled,   \* storageDisabled
    outbox,     \* eventOutbox: what the user is shown as waiting
    shown,      \* eventLog: the events the user sees
    synced,     \* syncedEventIds
    sync,       \* the syncs that run
    strays,     \* requests at the server that no client waits for any more
    store,      \* the events in the memory of the server
    kept,       \* the events in its log on disk
    failed,     \* history: events that a failed write did not keep
    hasty,      \* history: events that were pulled before they were kept
    broken,     \* history: localStorage has failed
    onlyShown,  \* history: events that were shown, and never cached or sent
    faults, syncs

cache == <<stored, memory, disabled, broken>>
client == <<running, created, outbox, shown, synced, onlyShown>>
server == <<store, kept, failed, hasty>>
vars == <<cache, client, sync, strays, server, faults, syncs>>

Marks == {"none", "unsynced", "projected"}
Idle == [step |-> "idle"]
Request == [batch : SUBSET Events, session : Sessions, step : {"sent", "saving"}, new : SUBSET Events]
Attempt == [batch : SUBSET Events, session : Sessions, url : 1..NumUrls,
            step : {"sent", "saving", "answered", "gone"}, new : SUBSET Events]

\* load
Loaded == IF disabled THEN memory ELSE stored
\* listUnsynced
Unsynced == {e \in Events : Loaded[e] = "unsynced"}

\* append of a batch: an event that is there keeps its mark (dedupeRecords).
Appended(batch) ==
    [e \in Events |-> IF e \in batch /\ Loaded[e] = "none" THEN "unsynced" ELSE Loaded[e]]
\* The same one after the other, when what is written is not read again: each
\* writes the stale records and its own event, so the last one counts.
Overwritten(batch, last) == IF disabled THEN Appended({last}) ELSE Appended(batch)
\* markProjected; a record that is not there is not marked.
Marked(records, done) ==
    [e \in Events |-> IF e \in done /\ records[e] # "none" THEN "projected" ELSE records[e]]

Fault(kind) == kind \in Faults /\ faults < MaxFaults /\ faults' = faults + 1

\* save: setItem is tried every time, but what it writes is not read again
\* once it has failed.  full is what a fallback to memory holds.
SaveOr(records, full) ==
    \/ /\ stored' = records
       /\ UNCHANGED <<memory, disabled, broken, faults>>
    \/ /\ Fault("quota")
       /\ memory' = full /\ disabled' = TRUE /\ broken' = TRUE
       /\ UNCHANGED stored
Save(records) == SaveOr(records, records)

\* The events of an attempt that the server accepts, or has already: of one
\* session, and none that looks like a secret.
Confirmed(a) == {e \in a.batch : Session[e] = a.session /\ e \notin Secret}
\* Mutant of Synced: all that was sent counts as synced once it is answered.
EverythingSent(a) == a.batch
\* getSyncedEventIds.
Synced(a) == Confirmed(a)

-----------------------------------------------------------------------------
Init ==
    /\ running = FALSE /\ created = 0
    /\ stored = [e \in Events |-> "none"] /\ memory = stored
    /\ disabled = FALSE /\ broken = FALSE
    /\ outbox = {} /\ shown = {} /\ synced = {} /\ onlyShown = {}
    /\ sync = [s \in Slots |-> Idle] /\ strays = {}
    /\ store = {} /\ kept = {} /\ failed = {} /\ hasty = {}
    /\ faults = 0 /\ syncs = 0

\* pushEventsToDgxEventStorage takes the session of the first event, which is
\* the newest one.
Begin(s, batch) ==
    /\ sync[s] = Idle /\ syncs < MaxSyncs
    /\ \E newest \in batch :
          /\ \A e \in batch : e <= newest
          /\ sync' = [sync EXCEPT ![s] = [batch |-> batch, session |-> Session[newest],
                                          url |-> 1, step |-> "sent", new |-> {}]]
    /\ syncs' = syncs + 1

\* bootstrapLocalEventStorage, when the client starts: the seed events are
\* made anew every time, here one of them; all that is unsynced is sent.
Start(s) ==
    /\ ~running /\ running' = TRUE
    /\ created < MaxEvents /\ created' = created + 1
    /\ LET new == created + 1 IN
       /\ Save(Appended({new}))
       /\ outbox' = Unsynced \cup {new}
       /\ Begin(s, outbox')
       /\ shown' = {e \in Events : Session[e] = Open /\ Appended({new})[e] # "none"}
    /\ UNCHANGED <<synced, onlyShown, strays, server>>

\* appendEvent, queueEventForSync: a new event is cached and sent on its own.
Create(s) ==
    /\ running /\ created < MaxEvents
    /\ created' = created + 1
    /\ LET new == created + 1 IN
       /\ Save(Appended({new})) /\ Begin(s, {new})
       /\ shown' = IF Session[new] = Open THEN shown \cup {new} ELSE shown
    /\ UNCHANGED <<running, outbox, synced, onlyShown, strays, server>>

\* onRunEvents: the events of an autonomous run, one at a time, are added to
\* what the user sees, whatever its session; they are not cached, nor sent.
Show ==
    /\ running /\ created < MaxEvents
    /\ created' = created + 1 /\ created' \in RunEvents
    /\ shown' = shown \cup {created'} /\ onlyShown' = onlyShown \cup {created'}
    /\ UNCHANGED <<cache, running, outbox, synced, sync, strays, server, faults, syncs>>

\* handleSyncEventStorage: the user asks for a sync of everything that is not
\* known to be synced, which caches what was only shown.
SyncAll(s) ==
    /\ running
    /\ LET batch == outbox \cup Unsynced \cup (shown \ synced) IN
       /\ Begin(s, batch)
       /\ \E last \in batch : /\ \A e \in batch : last <= e
                             /\ SaveOr(Overwritten(batch, last), Appended(batch))
       /\ onlyShown' = onlyShown \ batch
    /\ UNCHANGED <<running, created, outbox, shown, synced, strays, server>>

\* handleReplayEventStorage: the events the server has in memory, saved or not,
\* are cached as projected.
Replay ==
    /\ running
    /\ LET pulled == {e \in store : Session[e] = Open} IN
       /\ pulled # {}
       /\ SaveOr(Marked(IF disabled THEN Loaded ELSE Appended(pulled), pulled),
                 Marked(Appended(pulled), pulled))
       /\ hasty' = hasty \cup (pulled \ kept)
       /\ synced' = synced \cup pulled
       /\ shown' = shown \cup pulled \cup {e \in Events : Session[e] = Open /\ Loaded[e] # "none"}
    /\ UNCHANGED <<running, created, outbox, onlyShown, sync, strays, store, kept, failed, syncs>>

-----------------------------------------------------------------------------
(* The server: its storage serves one request at a time. *)

Serving == {s \in Slots : sync[s].step = "saving"}
Busy == Serving # {} \/ \E r \in strays : r.step = "saving"
BeingSaved == {e \in Events : \/ \E s \in Serving : e \in sync[s].new
                              \/ \E r \in strays : r.step = "saving" /\ e \in r.new}

\* The verdicts: new events enter the memory of the server before they are
\* written.  A request of duplicates only has nothing to write.
Receive(s) ==
    /\ sync[s].step = "sent" /\ ~Busy /\ Cardinality(sync[s].batch) <= BodyLimit
    /\ LET new == Confirmed(sync[s]) \ store IN
       /\ store' = store \cup new
       /\ sync' = [sync EXCEPT ![s].step = IF new = {} THEN "answered" ELSE "saving",
                               ![s].new = new]
    /\ UNCHANGED <<cache, client, strays, kept, failed, hasty, faults, syncs>>

\* The new events are in the log, and the request is answered.
Write(s) ==
    /\ sync[s].step = "saving"
    /\ kept' = kept \cup sync[s].new
    /\ sync' = [sync EXCEPT ![s].step = "answered"]
    /\ UNCHANGED <<cache, client, strays, store, failed, hasty, faults, syncs>>

\* A request that its client has given up is served all the same; it may have
\* been given up more than once.
ReceiveStray(r) ==
    /\ r \in strays /\ r.step = "sent" /\ ~Busy /\ Cardinality(r.batch) <= BodyLimit
    /\ LET new == Confirmed(r) \ store IN
       /\ store' = store \cup new
       /\ \E others \in {strays, strays \ {r}} :
             strays' = others \cup (IF new = {} THEN {} ELSE {[r EXCEPT !.step = "saving", !.new = new]})
    /\ UNCHANGED <<cache, client, sync, kept, failed, hasty, faults, syncs>>
WriteStray(r) ==
    /\ r \in strays /\ r.step = "saving" /\ strays' = strays \ {r}
    /\ \/ kept' = kept \cup r.new /\ UNCHANGED <<failed, faults>>
       \/ Fault("write") /\ failed' = failed \cup r.new /\ UNCHANGED kept
    /\ UNCHANGED <<cache, client, sync, store, hasty, syncs>>

-----------------------------------------------------------------------------
(* The client waits for an answer. *)

\* Mutant of NextOutbox: only what this sync has left over is waiting.
OnlyLeftOver(left) == left
\* What the user is shown as waiting after a sync.
NextOutbox(left) == Unsynced' \cup left

\* Mutant of MoreUrls: one url too many.
OneUrlMore(s) == sync[s].url <= NumUrls
\* The loop over the urls goes on.
MoreUrls(s) == sync[s].url < NumUrls

\* Mutant of NextUrl: the urls are tried until one answers.
NextUrlAgain(s) ==
    /\ sync' = [sync EXCEPT ![s].url = IF @ < NumUrls THEN @ + 1 ELSE 1,
                            ![s].step = "sent", ![s].new = {}]
    /\ UNCHANGED <<cache, outbox>>
\* An attempt fails; after the last url the whole batch is queued.
NextUrl(s) ==
    IF MoreUrls(s)
    THEN /\ sync' = [sync EXCEPT ![s].url = @ + 1, ![s].step = "sent", ![s].new = {}]
         /\ UNCHANGED <<cache, outbox>>
    ELSE /\ sync' = [sync EXCEPT ![s] = Idle]
         /\ UNCHANGED cache /\ outbox' = NextOutbox(sync[s].batch)

\* The request stays with the server, if it ever gets there.
Abandoned(s) == [batch |-> sync[s].batch, session |-> sync[s].session,
                 step |-> sync[s].step, new |-> sync[s].new]
Remains(slots) == {Abandoned(s) : s \in {t \in slots : sync[t].step \in {"sent", "saving"}}}

\* No answer within timeoutMs, or none that can be read.
Timeout(s) ==
    /\ sync[s] # Idle
    /\ strays' = strays \cup Remains({s})
    /\ NextUrl(s)
    /\ UNCHANGED <<running, created, shown, synced, onlyShown, server, faults, syncs>>

\* 413: the body is too large at every url.
TooLarge(s) ==
    /\ sync[s].step = "sent" /\ Cardinality(sync[s].batch) > BodyLimit
    /\ NextUrl(s)
    /\ UNCHANGED <<running, created, shown, synced, onlyShown, strays, server, faults, syncs>>

\* 500: the events are not in the log, but stay in the memory of the server.
WriteFails(s) ==
    /\ Fault("write") /\ sync[s].step = "saving"
    /\ failed' = failed \cup sync[s].new
    /\ NextUrl(s)
    /\ UNCHANGED <<running, created, shown, synced, onlyShown, strays, store, kept, hasty, syncs>>

\* An answer: what it confirms is marked, the rest goes on waiting.
Finish(s) ==
    /\ sync[s].step = "answered" /\ sync' = [sync EXCEPT ![s] = Idle]
    /\ LET done == Synced(sync[s]) IN
       /\ IF done = {} THEN UNCHANGED <<cache, faults>> ELSE Save(Marked(Loaded, done))
       /\ outbox' = NextOutbox(sync[s].batch \ done)
       /\ synced' = synced \cup done
    /\ UNCHANGED <<running, created, shown, onlyShown, strays, server, syncs>>

-----------------------------------------------------------------------------
\* The server dies and starts again with what its log holds; the request it
\* was saving is never answered, and may have been written.
Restart ==
    /\ Fault("restart")
    /\ \/ kept' = kept
       \/ Busy /\ kept' = kept \cup BeingSaved
    /\ store' = kept'
    /\ sync' = [s \in Slots |-> IF s \in Serving THEN [sync[s] EXCEPT !.step = "gone"] ELSE sync[s]]
    /\ strays' = {r \in strays : r.step = "sent"}
    /\ UNCHANGED <<cache, client, failed, hasty, syncs>>

\* The client is closed, with requests on their way.
Close ==
    /\ Fault("reload") /\ running /\ running' = FALSE
    /\ memory' = [e \in Events |-> "none"] /\ disabled' = FALSE
    /\ outbox' = {} /\ shown' = {} /\ synced' = {}
    /\ strays' = strays \cup Remains(Slots) /\ sync' = [s \in Slots |-> Idle]
    /\ UNCHANGED <<stored, broken, created, onlyShown, server, syncs>>

Next ==
    \/ \E s \in Slots : \/ Start(s) \/ Create(s) \/ SyncAll(s)
                        \/ Receive(s) \/ Write(s) \/ WriteFails(s)
                        \/ Timeout(s) \/ TooLarge(s) \/ Finish(s)
    \/ \E r \in strays : ReceiveStray(r) \/ WriteStray(r)
    \/ Show \/ Replay \/ Restart \/ Close

\* The timer of an attempt fires, whatever the server does.
Fairness == \A s \in Slots : WF_vars(Timeout(s))

Spec == Init /\ [][Next]_vars
FairSpec == Spec /\ Fairness

-----------------------------------------------------------------------------
(* Properties *)

\* Every variable has its type.
TypeOK ==
    /\ running \in BOOLEAN /\ created \in 0..MaxEvents
    /\ {stored, memory} \subseteq [Events -> Marks] /\ {disabled, broken} \subseteq BOOLEAN
    /\ {outbox, shown, synced, onlyShown, store, kept, failed, hasty} \subseteq SUBSET (1..created)
    /\ kept \subseteq store
    /\ DOMAIN sync = Slots
    /\ \A s \in Slots : sync[s] = Idle \/ sync[s] \in Attempt
    /\ strays \subseteq Request
    /\ faults \in 0..MaxFaults /\ syncs \in 0..MaxSyncs

\* An event that a client has cached or sent is on the disk of the server, or
\* still counts as unsynced in the cache of the client, whatever is lost, late,
\* repeated or restarted.  Three ways around this are known, and no others: the
\* browser refused to store the cache, the log refused a write, the event was
\* pulled before it was saved.  Nothing of the kind holds of the events of
\* autonomous runs that were only shown, until a sync of everything takes them.
NothingIsLost ==
    \A e \in (1..created) \ onlyShown :
       broken \/ e \in failed \/ e \in hasty \/ e \in kept \/ Loaded[e] = "unsynced"

\* As long as the client runs, every event it counts as unsynced is shown to
\* the user as waiting, or is being sent.
WaitingIsShown ==
    running => Unsynced \subseteq outbox \cup UNION {sync[s].batch : s \in {t \in Slots : sync[t] # Idle}}

\* A sync ends, answered or not: whatever happens, it is over at some later time.
SyncsEnd == \A s \in Slots : []<>(sync[s] = Idle)
=============================================================================

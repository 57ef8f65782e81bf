---------------------------- MODULE EventStorage ----------------------------
(***************************************************************************)
(* The event storage of apps/server: an in-memory index of events and its  *)
(* JSONL log on disk.  A push is one task of a serial queue; the task      *)
(* first commits the batch to memory and only then writes it to the log,   *)
(* rotating and pruning log files on the way.  The process may die between *)
(* any two steps, and rebuilds its memory from whatever the log holds.     *)
(*                                                                         *)
(* Abstractions.  An event is its id, its session and a body that stands   *)
(* for the rest of the envelope (equal bodies = equal fingerprints).  File *)
(* sizes are counted in lines.  The log files are one sequence of lines,   *)
(* oldest first, cut into files: segs are the lengths of the rotated       *)
(* segments and activeLen that of events.jsonl.  The clock that names the  *)
(* segments does not go backwards.                                         *)
(***************************************************************************)
EXTENDS Integers, Sequences, FiniteSets

CONSTANTS
    Ids, Sessions, Bodies,  \* what an event envelope is made of
    SecretBodies,           \* the bodies containsSecretLikeText refuses
    NoEvent, Torn,          \* no event under an id; a line nobody can read
    Requests,               \* the pushes clients send: [session, events]
    MaxLines,               \* EVENT_LOG_MAX_BYTES, in lines; 0 = no rotation
    KeepSegments,           \* EVENT_LOG_KEEP_SEGMENTS
    Faults,                 \* the failures the environment may inject
    MaxPushes, MaxRestarts  \* bounds of a run

Event == [id : Ids, session : Sessions, body : Bodies]
Record == [rev : Nat, event : Event]
Line == Record \cup {Torn}
FaultKinds == {"stat", "rename", "unlink", "write", "tear", "crash"}

ASSUME IdsAssumption == NoEvent \notin Event
ASSUME TornAssumption == Torn \notin Record
ASSUME RequestsAssumption == Requests \subseteq [session : Sessions, events : Seq(Event)]
ASSUME PolicyAssumption == MaxLines \in Nat /\ KeepSegments \in Nat
ASSUME FaultsAssumption == Faults \subseteq FaultKinds
ASSUME BoundsAssumption == MaxPushes \in Nat /\ MaxRestarts \in Nat

VARIABLES
    up,                  \* the process runs and has loaded the log
    revision,            \* ServerEventStorageState.revision
    eventsById,          \* ServerEventStorageState.eventsById
    eventRevisionsById,  \* ServerEventStorageState.eventRevisionsById
    queue,               \* pushes that wait for the serial queue
    task,                \* the push whose task is between two awaits
    log,                 \* the lines of every log file, oldest first
    segs,                \* the lengths of the rotated segments, oldest first
    activeLen,           \* the length of events.jsonl
    openTail,            \* events.jsonl does not end with a newline
    acked,               \* history: what clients were answered
    pruned,              \* history: ids whose records were unlinked
    pushes, restarts     \* how much of the bounds is used

memory == <<revision, eventsById, eventRevisionsById>>
disk == <<log, segs, activeLen, openTail>>
vars == <<up, memory, queue, task, disk, acked, pruned, pushes, restarts>>

NoTask == [step |-> "idle"]
Answer == [event : Event, rev : Nat, status : {"accepted", "duplicate"}, epoch : Nat]
Task == [step : {"rotate", "prune", "append"}, ticket : Nat,
         records : Seq(Record), answers : SUBSET Answer]
Waiting == [ticket : Nat, req : Requests]

-----------------------------------------------------------------------------
(* pushEventsToServerStorage: the verdict on every event of a batch.       *)

Stored(id) == eventsById[id] # NoEvent

Refused(req, i) == \/ req.events[i].session # req.session
                   \/ req.events[i].body \in SecretBodies

\* Mutant of Accepted: an id that is stored already is accepted again.
AcceptedAgain(req) == {i \in DOMAIN req.events : ~Refused(req, i)}

\* Event i of the batch is new: nothing stored, and no earlier event of the
\* same batch was stored, under its id.
Accepted(req) ==
    {i \in DOMAIN req.events :
        /\ ~Refused(req, i)
        /\ ~Stored(req.events[i].id)
        /\ \A j \in 1..(i - 1) : req.events[j].id = req.events[i].id => Refused(req, j)}

Rank(S, i) == Cardinality({j \in S : j <= i})

\* The accepted events in batch order: the k-th takes revision + k.
NewEvents(req) ==
    [k \in 1..Cardinality(Accepted(req)) |->
        req.events[CHOOSE i \in Accepted(req) : Rank(Accepted(req), i) = k]]

IsNew(req, id) == \E k \in DOMAIN NewEvents(req) : NewEvents(req)[k].id = id
NewIndex(req, id) == CHOOSE k \in DOMAIN NewEvents(req) : NewEvents(req)[k].id = id

EventAfter(req, id) ==
    IF IsNew(req, id) THEN NewEvents(req)[NewIndex(req, id)] ELSE eventsById[id]
RevisionAfter(req, id) ==
    IF IsNew(req, id) THEN revision + NewIndex(req, id) ELSE eventRevisionsById[id]

\* The positive verdicts: "accepted", or "duplicate" for an equal event.
Answers(req) ==
    {[event |-> req.events[i], rev |-> RevisionAfter(req, req.events[i].id),
      status |-> IF i \in Accepted(req) THEN "accepted" ELSE "duplicate", epoch |-> restarts] :
        i \in {j \in DOMAIN req.events : /\ ~Refused(req, j)
                                         /\ EventAfter(req, req.events[j].id) = req.events[j]}}

(* appendAcceptedEventsToJsonl looks the accepted ids up in the request    *)
(* again, and takes the first event of that id.                            *)
FindById(req, id) ==
    req.events[CHOOSE i \in DOMAIN req.events :
                 /\ req.events[i].id = id
                 /\ \A j \in 1..(i - 1) : req.events[j].id # id]
\* Mutant of Records: the revision is read before it is incremented.
RecordsOffByOne(req) ==
    [k \in DOMAIN NewEvents(req) |->
        [rev |-> revision + k - 1, event |-> FindById(req, NewEvents(req)[k].id)]]
Records(req) ==
    [k \in DOMAIN NewEvents(req) |->
        [rev |-> revision + k, event |-> FindById(req, NewEvents(req)[k].id)]]

-----------------------------------------------------------------------------
(* The log on disk.                                                        *)

ShouldRotate == MaxLines > 0 /\ activeLen >= MaxLines

\* Text appended to a file whose last line is open continues that line, and
\* the line the two make together is unreadable.
Glue(text) ==
    IF text = << >> THEN log
    ELSE IF openTail THEN SubSeq(log, 1, Len(log) - 1) \o <<Torn>> \o Tail(text)
    ELSE log \o text

\* What k whole lines of a write leave behind, followed by nothing, by a torn
\* piece of the next record, or by that record without its newline.
Tails == {"none", "torn", "whole"}
Written(records, k, tail) ==
    SubSeq(records, 1, k) \o CASE tail = "none" -> << >>
                               [] tail = "torn" -> <<Torn>>
                               [] tail = "whole" -> <<records[k + 1]>>
Write(records, k, tail) ==
    LET text == Written(records, k, tail) IN
    /\ tail # "none" => k < Len(records)
    /\ log' = Glue(text)
    /\ openTail' = IF text = << >> THEN openTail ELSE tail # "none"
    /\ activeLen' = IF text = << >> THEN activeLen
                    ELSE activeLen + Len(text) - (IF openTail THEN 1 ELSE 0)

\* streamEventRecordsIntoState over orderLogFilesOldestFirst: unreadable lines
\* and ids seen before are skipped.
Positions(lines, id) == {i \in DOMAIN lines : lines[i] # Torn /\ lines[i].event.id = id}
FirstAt(lines, id) == CHOOSE i \in Positions(lines, id) : \A j \in Positions(lines, id) : i <= j
LoadedEvents(lines) ==
    [id \in Ids |-> IF Positions(lines, id) = {} THEN NoEvent ELSE lines[FirstAt(lines, id)].event]
LoadedRevisions(lines) ==
    [id \in Ids |-> IF Positions(lines, id) = {} THEN 0 ELSE lines[FirstAt(lines, id)].rev]
\* Mutant of LoadedRevision: the number of events read, not the highest revision.
LoadedCount(lines) == Cardinality({id \in Ids : Positions(lines, id) # {}})
LoadedRevision(lines) ==
    LET revs == {0} \cup {LoadedRevisions(lines)[id] : id \in Ids}
    IN  CHOOSE r \in revs : \A s \in revs : s <= r

-----------------------------------------------------------------------------
Init ==
    /\ up = TRUE
    /\ revision = 0
    /\ eventsById = [id \in Ids |-> NoEvent]
    /\ eventRevisionsById = [id \in Ids |-> 0]
    /\ queue = << >>
    /\ task = NoTask
    /\ log = << >> /\ segs = << >> /\ activeLen = 0 /\ openTail = FALSE
    /\ acked = {} /\ pruned = {}
    /\ pushes = 0 /\ restarts = 0

\* POST /events/sync: the push enters the serial queue.
Submit(req) ==
    /\ up
    /\ pushes < MaxPushes
    /\ pushes' = pushes + 1
    /\ queue' = Append(queue, [ticket |-> pushes + 1, req |-> req])
    /\ UNCHANGED <<up, memory, task, disk, acked, pruned, restarts>>

\* The head of the queue becomes the running task: the batch is committed to
\* memory.  A batch with nothing new touches no file and is answered at once.
Push ==
    /\ up /\ task = NoTask /\ queue # << >>
    /\ LET req == Head(queue).req IN
       /\ revision' = revision + Len(NewEvents(req))
       /\ eventsById' = [id \in Ids |-> EventAfter(req, id)]
       /\ eventRevisionsById' = [id \in Ids |-> RevisionAfter(req, id)]
       /\ IF Records(req) = << >>
          THEN acked' = acked \cup Answers(req) /\ task' = NoTask
          ELSE /\ task' = [step |-> "rotate", ticket |-> Head(queue).ticket,
                            records |-> Records(req), answers |-> Answers(req)]
               /\ acked' = acked
    /\ queue' = Tail(queue)
    /\ UNCHANGED <<up, disk, pruned, pushes, restarts>>

\* Mutants of Fail: the rejected task stays at the head of the queue; the
\* failure of the append is swallowed and the client gets its answer.
FailStuck == task' = [task EXCEPT !.step = "idle"] /\ acked' = acked
FailSwallowed == task' = NoTask /\ acked' = acked \cup task.answers

\* The task ends in an error: the client gets a 500, the queue goes on.
Fail == task' = NoTask /\ acked' = acked

\* rotateEventLogIfNeeded up to the rename.
Rotate ==
    /\ up /\ task.step = "rotate"
    /\ \/ /\ ~ShouldRotate
          /\ task' = [task EXCEPT !.step = "append"]
          /\ UNCHANGED <<segs, activeLen, openTail>>
       \/ /\ ShouldRotate
          /\ segs' = Append(segs, activeLen)
          /\ activeLen' = 0
          /\ openTail' = FALSE
          /\ task' = [task EXCEPT !.step = "prune"]
    /\ UNCHANGED <<up, memory, queue, log, acked, pruned, pushes, restarts>>

\* A failed rename is logged and the append goes on in the same file.
RenameFails ==
    /\ up /\ task.step = "rotate" /\ "rename" \in Faults
    /\ ShouldRotate
    /\ task' = [task EXCEPT !.step = "append"]
    /\ UNCHANGED <<up, memory, queue, disk, acked, pruned, pushes, restarts>>

\* A stat error other than ENOENT escapes and ends the task.
StatFails ==
    /\ up /\ task.step = "rotate" /\ "stat" \in Faults
    /\ Fail
    /\ UNCHANGED <<up, memory, queue, disk, pruned, pushes, restarts>>

\* The oldest segment over the limit is unlinked, one at a time.
Prune ==
    /\ up /\ task.step = "prune"
    /\ IF Len(segs) > KeepSegments
       THEN /\ pruned' = pruned \cup {log[i].event.id : i \in {j \in 1..Len(log) :
                                         j <= segs[1] /\ log[j] # Torn}}
            /\ log' = SubSeq(log, segs[1] + 1, Len(log))
            /\ segs' = Tail(segs)
            /\ task' = task
       ELSE /\ task' = [task EXCEPT !.step = "append"]
            /\ UNCHANGED <<pruned, log, segs>>
    /\ UNCHANGED <<up, memory, queue, activeLen, openTail, acked, pushes, restarts>>

\* A failed readdir or unlink is logged and leaves the remaining segments.
PruneFails ==
    /\ up /\ task.step = "prune" /\ "unlink" \in Faults
    /\ task' = [task EXCEPT !.step = "append"]
    /\ UNCHANGED <<up, memory, queue, disk, acked, pruned, pushes, restarts>>

\* The records are appended and the client is answered.
AppendFile ==
    /\ up /\ task.step = "append"
    /\ Write(task.records, Len(task.records), "none")
    /\ acked' = acked \cup task.answers
    /\ task' = NoTask
    /\ UNCHANGED <<up, memory, queue, segs, pruned, pushes, restarts>>

\* appendFile fails: nothing was written, or ("tear") a part of it was.
AppendFails ==
    /\ up /\ task.step = "append" /\ "write" \in Faults
    /\ \E k \in 0..Len(task.records), tail \in Tails :
          /\ "tear" \in Faults \/ (k = 0 /\ tail = "none")
          /\ k < Len(task.records)
          /\ Write(task.records, k, tail)
    /\ Fail
    /\ UNCHANGED <<up, memory, queue, segs, pruned, pushes, restarts>>

\* The process dies.  A write in flight may have reached the disk in part.
Crash ==
    /\ up /\ "crash" \in Faults /\ restarts < MaxRestarts
    /\ up' = FALSE
    /\ revision' = 0
    /\ eventsById' = [id \in Ids |-> NoEvent]
    /\ eventRevisionsById' = [id \in Ids |-> 0]
    /\ queue' = << >>
    /\ task' = NoTask
    /\ \/ UNCHANGED <<log, activeLen, openTail>>
       \/ /\ task.step = "append"
          /\ \E k \in 0..Len(task.records), tail \in Tails :
                /\ "tear" \in Faults \/ (k = Len(task.records) /\ tail = "none")
                /\ Write(task.records, k, tail)
    /\ UNCHANGED <<segs, acked, pruned, pushes, restarts>>

\* loadServerEventStorageStateFromDir.
Restart ==
    /\ ~up
    /\ up' = TRUE
    /\ restarts' = restarts + 1
    /\ eventsById' = LoadedEvents(log)
    /\ eventRevisionsById' = LoadedRevisions(log)
    /\ revision' = LoadedRevision(log)
    /\ UNCHANGED <<queue, task, disk, acked, pruned, pushes>>

Next ==
    \/ \E req \in Requests : Submit(req)
    \/ Push
    \/ Rotate \/ RenameFails \/ StatFails
    \/ Prune \/ PruneFails
    \/ AppendFile \/ AppendFails
    \/ Crash \/ Restart

\* The event loop runs the head of the queue, and every file operation of a
\* task comes back, with a result or with an error.
Fairness ==
    /\ WF_vars(Push)
    /\ WF_vars(Rotate \/ RenameFails \/ StatFails)
    /\ WF_vars(Prune \/ PruneFails)
    /\ WF_vars(AppendFile \/ AppendFails)

Spec == Init /\ [][Next]_vars
FairSpec == Spec /\ Fairness

-----------------------------------------------------------------------------
(* Properties.                                                             *)

\* The type of every variable.
TypeOK ==
    /\ up \in BOOLEAN
    /\ revision \in Nat
    /\ eventsById \in [Ids -> Event \cup {NoEvent}]
    /\ eventRevisionsById \in [Ids -> Nat]
    /\ queue \in Seq(Waiting)
    /\ task \in Task \cup {NoTask}
    /\ log \in Seq(Line) /\ segs \in Seq(Nat) /\ activeLen \in Nat /\ openTail \in BOOLEAN
    /\ acked \subseteq Answer /\ pruned \subseteq Ids
    /\ pushes \in 0..MaxPushes /\ restarts \in 0..MaxRestarts

\* Revisions number the stored events: no two share one and none lies beyond
\* the server revision, after any number of failed writes and restarts.
RevisionsAreUnique ==
    /\ \A id \in Ids : Stored(id) => eventRevisionsById[id] \in 1..revision
    /\ \A a, b \in Ids :
          Stored(a) /\ Stored(b) /\ eventRevisionsById[a] = eventRevisionsById[b] => a = b

\* The log never contradicts memory: whatever record it still holds intact is
\* the event and the revision the running server has under that id.
DiskWithinMemory ==
    up => \A i \in DOMAIN log : log[i] # Torn =>
             /\ eventsById[log[i].event.id] = log[i].event
             /\ eventRevisionsById[log[i].event.id] = log[i].rev

\* No id is written twice, so that "the first record of an id wins" at boot
\* never has to choose.
OneRecordPerId ==
    \A i, j \in {k \in DOMAIN log : log[k] # Torn} :
        log[i].event.id = log[j].event.id => i = j

\* Idempotent pushes: as long as the process lives, all positive answers for
\* an id name one event and one revision, and a revision belongs to one id.
AnswersAgree ==
    \A a, b \in acked : a.epoch = b.epoch =>
        /\ a.event.id = b.event.id => a.event = b.event /\ a.rev = b.rev
        /\ a.rev = b.rev => a.event.id = b.event.id

\* An event answered "accepted" is in the log under its revision until its
\* segment is pruned.
AcceptedIsDurable ==
    \A a \in acked : \/ a.status = "duplicate" \/ a.event.id \in pruned
                     \/ \E i \in DOMAIN log : log[i] = [rev |-> a.rev, event |-> a.event]

\* Every push that entered the queue leaves it: a failed task does not hold
\* up its successors.
Pending == {queue[i].ticket : i \in DOMAIN queue}
           \cup (IF task = NoTask THEN {} ELSE {task.ticket})
EveryPushEnds == \A n \in 1..MaxPushes : n \in Pending ~> n \notin Pending

-----------------------------------------------------------------------------
(* The inductive invariant behind them.                                    *)

Intact == {i \in DOMAIN log : log[i] # Torn}

MemoryInv ==
    /\ RevisionsAreUnique
    /\ \A id \in Ids : Stored(id) => eventsById[id].id = id
    /\ ~up => queue = << >> /\ task = NoTask /\ restarts < MaxRestarts

DiskInv ==
    /\ OneRecordPerId
    /\ DiskWithinMemory
    /\ \A i, j \in Intact : log[i].rev = log[j].rev => i = j
    /\ \A i \in Intact : log[i].rev >= 1

\* The records a task is about to write are in memory, once each, and not yet
\* in the log.
TaskInv ==
    task # NoTask => \A k \in DOMAIN task.records :
        LET rec == task.records[k] IN
        /\ rec.rev >= 1
        /\ eventsById[rec.event.id] = rec.event
        /\ eventRevisionsById[rec.event.id] = rec.rev
        /\ \A l \in DOMAIN task.records : task.records[l].event.id = rec.event.id => k = l
        /\ \A i \in Intact : log[i].event.id # rec.event.id

\* An answer given or about to be given by the running process is what it has
\* in memory.
TaskAnswers == IF task = NoTask THEN {} ELSE task.answers
AnswerInv ==
    /\ AnswersAgree
    /\ \A a \in TaskAnswers : a.epoch = restarts
    /\ \A a \in acked \cup TaskAnswers :
          /\ a.epoch <= restarts
          /\ up /\ a.epoch = restarts => /\ eventsById[a.event.id] = a.event
                                        /\ eventRevisionsById[a.event.id] = a.rev

StorageInv == TypeOK /\ MemoryInv /\ DiskInv /\ TaskInv /\ AnswerInv

\* The log is in the order of its revisions, and so is what a task is about to
\* write behind it.
OrderInv ==
    /\ \A i, j \in Intact : i < j => log[i].rev < log[j].rev
    /\ task # NoTask => \A k \in DOMAIN task.records :
          /\ \A i \in Intact : log[i].rev < task.records[k].rev
          /\ \A l \in DOMAIN task.records : l < k => task.records[l].rev < task.records[k].rev
    /\ openTail => "tear" \in Faults

\* Without torn writes, what was answered "accepted" is in the log, and what
\* is about to be is among the records to write.
DurableInv ==
    /\ ~openTail
    /\ AcceptedIsDurable
    /\ \A a \in TaskAnswers : a.status = "accepted" =>
          \E k \in DOMAIN task.records : task.records[k] = [rev |-> a.rev, event |-> a.event]

\* Hypotheses of the theorems.
DistinctIds ==
    \A req \in Requests : \A i, j \in DOMAIN req.events :
        req.events[i].id = req.events[j].id => i = j
NoTear == "tear" \notin Faults

-----------------------------------------------------------------------------
(* The abstraction.  A server that is down stands for the one that will    *)
(* load its log.                                                           *)
KnownEvents == IF up THEN eventsById ELSE LoadedEvents(log)
KnownRevisions == IF up THEN eventRevisionsById ELSE LoadedRevisions(log)
KnownTop == IF up THEN revision ELSE LoadedRevision(log)
KeptIds == {id \in Ids : Positions(log, id) # {}}
Abstract == INSTANCE EventLog WITH
    store <- KnownEvents, number <- KnownRevisions, top <- KnownTop,
    kept <- KeptIds, Damage <- "tear" \in Faults

\* The storage implements the event log other components rely on.
ImplementsEventLog == Abstract!LogSpec
=============================================================================

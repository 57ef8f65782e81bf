------------------------------ MODULE RmasView ------------------------------
(***************************************************************************)
(* What a desktop shows of a run of the RMAS loop.  The run lives on the   *)
(* server; a view attaches to it, reads a stream of its trace, and polls   *)
(* its record while it goes on.  A view starts and stops runs, and when it *)
(* is opened it attaches to a run that is still going on.  Composed with   *)
(* what RmasRuns and EventStorage do: a run is its events, which are in    *)
(* memory before they are on disk, and are published after that.           *)
(*                                                                         *)
(* Abstractions.  Events are numbered in the order of createdAt; all that  *)
(* lies between the first and the last one of a run is a step.  A loop may *)
(* end at any time (RmasRuns says when), so a stop only reads the record.  *)
(* Two equal requests that wait for an answer count as one.  What React    *)
(* does after a change of state is part of the step that changes it.  The  *)
(* view is opened once: a later opening is like one that finds the runs of *)
(* other clients.  Past the gate a run is created in the same step: the    *)
(* race of two requests between the two is in RmasRuns.                    *)
(***************************************************************************)
EXTENDS Integers, FiniteSets, Sequences, Functions

CONSTANTS
    Runs, NoRun,
    MaxConcurrent,      \* the loops the server runs at a time
    MaxSteps,           \* bound: the steps that are in memory
    Faults,             \* the failures the environment may inject
    MaxPolls, MaxClicks, MaxFaults   \* bounds of a run

ASSUME NoRunAssumption == NoRun \notin Runs
ASSUME FaultsAssumption == Faults \subseteq {"write", "net", "restart"}
ASSUME BoundsAssumption ==
    {MaxConcurrent, MaxSteps, MaxPolls, MaxClicks, MaxFaults} \subseteq Nat

VARIABLES
    log, saved,     \* the events in the memory of the server, and on its disk
    task,           \* the event that is being written
    handles,        \* the runs that have a loop
    boot,           \* the runs that the boot has still to end
    used, fresh,    \* the run ids and the event numbers in use
    runId,          \* the run the view is attached to
    record,         \* the record it shows
    trace,          \* the feed it shows
    stream,         \* its stream, with the frames that are on their way
    reads,          \* its requests that are answered with a record
    listing, starting,  \* its requests for the list and for a new run
    odd,            \* history: why the record may be of another run
    clicks, faults

store == <<log, saved, task, fresh>>
server == <<store, handles, boot, used>>
shown == <<runId, record, trace, odd>>
view == <<shown, stream, reads, listing, starting>>
bounds == <<clicks, faults>>
vars == <<server, view, bounds>>

Event == [n : Nat, run : Runs, kind : {"created", "step", "end"}]
NoTask == [kind |-> "none"]
Record == [run : Runs, ended : BOOLEAN]
NoRecord == [run |-> NoRun, ended |-> TRUE]
Idle == [step |-> "idle", run |-> NoRun]
NoStream == [state |-> "none", run |-> NoRun, frames |-> << >>]
Request == [by : {"get", "poll", "stop"}, run : Runs, step : {"asked", "answered"},
            ended : BOOLEAN, live : BOOLEAN]

-----------------------------------------------------------------------------
(* What is derived from the events in memory. *)

Of(r) == {e \in log : e.run = r}
\* deriveRmasRun, as far as the view depends on it.
Ended(r) == \E e \in Of(r) : e.kind = "end"
\* deriveRmasTrace: the events of a run by createdAt.
Earlier(r, e) == {f \in Of(r) : f.n <= e.n}
TraceOf(r) == [k \in 1..Cardinality(Of(r)) |-> CHOOSE e \in Of(r) : Cardinality(Earlier(r, e)) = k]
\* The run that pickReattachRun takes from the list: the newest of those that
\* have not ended.
Reattachable ==
    LET going == {e \in log : e.kind = "created" /\ ~Ended(e.run)} IN
    IF going = {} THEN NoRun ELSE (CHOOSE e \in going : \A f \in going : f.n <= e.n).run

-----------------------------------------------------------------------------
(* The feed. *)

\* The elements of a list at some positions, sorted by createdAt; sort is
\* stable.
UpTo(list, some, i) ==
    {j \in some : list[j].n < list[i].n \/ (list[j].n = list[i].n /\ j <= i)}
SortedAt(list, some) ==
    [k \in 1..Cardinality(some) |-> list[CHOOSE i \in some : Cardinality(UpTo(list, some, i)) = k]]

\* Mutant of MergeTraceEvent: an event that is there already is added again.
MergeTwice(list, e) == SortedAt(Append(list, e), DOMAIN Append(list, e))
\* mergeTraceEvent: what is there under the id of the event is left out, and
\* the event is added.
Others(list, e) == {i \in DOMAIN list : list[i].n # e.n}
MergeTraceEvent(list, e) == SortedAt(Append(list, e), Others(list, e) \cup {Len(list) + 1})

SnapshotFrame(r) == [type |-> "rmas.trace.snapshot", events |-> TraceOf(r)]
EventFrame(e) == [type |-> "rmas.trace", events |-> <<e>>]
\* dispatchRmasFrame.
Dispatched(list, frame) ==
    IF frame.type = "rmas.trace.snapshot" THEN frame.events
    ELSE MergeTraceEvent(list, frame.events[1])

Connecting(r) == [state |-> "connecting", run |-> r, frames |-> << >>]

\* RmasTraceBus.publish.
Published(e) ==
    IF stream.state = "open" /\ stream.run = e.run
    THEN [stream EXCEPT !.frames = Append(@, EventFrame(e))] ELSE stream

-----------------------------------------------------------------------------
Init ==
    /\ log = {} /\ saved = {} /\ task = NoTask /\ fresh = 1
    /\ handles = {} /\ boot = {} /\ used = {}
    /\ runId = NoRun /\ record = NoRecord /\ trace = << >> /\ odd = "no"
    /\ stream = NoStream /\ reads = {}
    /\ listing = [step |-> "asked", run |-> NoRun] /\ starting = Idle
    /\ clicks = [button \in {"start", "stop"} |-> 0] /\ faults = 0

Fault(kind) == kind \in Faults /\ faults < MaxFaults /\ faults' = faults + 1

(* The server. *)

\* The storage takes up an event: it is in memory, and being written.
Emit(r, kind) ==
    /\ task = NoTask
    /\ task' = [n |-> fresh, run |-> r, kind |-> kind]
    /\ log' = log \cup {task'} /\ fresh' = fresh + 1
    /\ UNCHANGED saved

\* Mutant of HasRoom: off by one.
HasRoomForOneMore == Cardinality(handles) <= MaxConcurrent
HasRoom == Cardinality(handles) < MaxConcurrent

\* POST /rmas/runs, of the view or of another client: past the gate the run is
\* created.
NewRun == CHOOSE r \in Runs : r \notin used
Create == HasRoom /\ used # Runs /\ used' = used \cup {NewRun} /\ Emit(NewRun, "created")
CreateForOther ==
    /\ Create
    /\ UNCHANGED <<handles, boot, view, bounds>>
CreateForView ==
    /\ starting.step = "asked" /\ Create
    /\ starting' = [step |-> "creating", run |-> NewRun]
    /\ UNCHANGED <<handles, boot, shown, stream, reads, listing, bounds>>
\* 429; an answer that refuses leaves nothing but a message.
Refuse ==
    /\ starting.step = "asked" /\ ~HasRoom
    /\ starting' = Idle
    /\ UNCHANGED <<server, shown, stream, reads, listing, bounds>>

\* A loop goes on until an event of its run could not be saved.
Step(r) ==
    /\ r \in handles /\ ~Ended(r) /\ Of(r) \subseteq saved
    /\ Cardinality({e \in log : e.kind = "step"}) < MaxSteps
    /\ Emit(r, "step")
    /\ UNCHANGED <<handles, boot, used, view, bounds>>
End(r) ==
    /\ r \in handles \cup boot /\ ~Ended(r) /\ Emit(r, "end")
    /\ UNCHANGED <<handles, boot, used, view, bounds>>

IsOfView == task.kind = "created" /\ task.run = starting.run

\* The event is on disk and is published; a run that was created is started.
Write ==
    /\ task # NoTask /\ task' = NoTask
    /\ saved' = saved \cup {task}
    /\ stream' = Published(task)
    /\ handles' = CASE task.kind = "created" -> handles \cup {task.run}
                    [] task.kind = "step" -> handles
                    [] task.kind = "end" -> handles \ {task.run}
    /\ boot' = IF task.kind = "end" THEN boot \ {task.run} ELSE boot
    /\ starting' = IF IsOfView THEN [starting EXCEPT !.step = "answered"] ELSE starting
    /\ UNCHANGED <<log, fresh, used, shown, reads, listing, bounds>>

\* The event stays in memory, but is not published.  A run is not started, a
\* loop that could not save its end is over, and the boot gives up.
WriteFails ==
    /\ Fault("write") /\ task # NoTask /\ task' = NoTask
    /\ handles' = IF task.kind = "end" THEN handles \ {task.run} ELSE handles
    /\ boot' = IF task.run \in boot THEN {} ELSE boot
    /\ starting' = IF IsOfView THEN Idle ELSE starting
    /\ UNCHANGED <<log, saved, fresh, used, shown, stream, reads, listing,
                   clicks>>

\* The stream of a run: a snapshot, and then what is published.
Connect ==
    /\ stream.state = "connecting"
    /\ stream' = IF Of(stream.run) = {} THEN NoStream
                 ELSE [stream EXCEPT !.state = "open", !.frames = <<SnapshotFrame(stream.run)>>]
    /\ UNCHANGED <<server, shown, reads, listing, starting, bounds>>

\* GET /rmas/runs.
ServeList ==
    /\ listing.step = "asked"
    /\ listing' = IF Reattachable = NoRun THEN Idle
                  ELSE [step |-> "answered", run |-> Reattachable]
    /\ UNCHANGED <<server, shown, stream, reads, starting, bounds>>

-----------------------------------------------------------------------------
(* The view. *)

\* The effect that polls depends on the run and on whether it is running: its
\* requests are cancelled when one of them changes.
Rendered(next) ==
    IF runId' = runId /\ record'.ended = record.ended THEN next
    ELSE {q \in next : q.by # "poll"}

Answered(q) == [q EXCEPT !.step = "answered", !.ended = Ended(q.run)]
Ask(by, r) == [by |-> by, run |-> r, step |-> "asked", ended |-> FALSE, live |-> TRUE]

\* activeRunRef.current = r
IsActive(r, active) == r = active

\* attach: the stream before is aborted, though a frame that has been read
\* already may still be dispatched.
Attach(r) ==
    /\ runId' = r
    /\ \/ trace' = << >>
       \/ /\ stream.frames # << >> /\ IsActive(stream.run, r)
          /\ trace' = Dispatched(<< >>, Head(stream.frames))
Aborted(q) == IF q.by = "get" THEN [q EXCEPT !.live = FALSE] ELSE q

\* attach with the record that a start has answered.
AttachSeeded(r) ==
    /\ Attach(r)
    /\ record' = [run |-> r, ended |-> FALSE] /\ odd' = "no"
    /\ stream' = Connecting(r)
    /\ reads' = Rendered({Aborted(q) : q \in reads})
\* attach without one: it is asked for first.
AttachUnread(r) ==
    /\ Attach(r)
    /\ UNCHANGED <<record, odd>>
    /\ stream' = NoStream
    /\ reads' = Rendered({Aborted(q) : q \in reads} \cup {Ask("get", r)})

\* The list that was asked for when the view was opened.
DeliverList ==
    /\ listing.step = "answered" /\ listing' = Idle
    /\ AttachUnread(listing.run)
    /\ UNCHANGED <<server, starting, bounds>>

\* The buttons: a run can be started unless one is running, and be stopped if
\* it is.
Running == ~record.ended
Click(button) == clicks[button] < MaxClicks /\ clicks' = [clicks EXCEPT ![button] = @ + 1]
ClickStart ==
    /\ ~Running /\ starting = Idle /\ Click("start")
    /\ starting' = [step |-> "asked", run |-> NoRun]
    /\ UNCHANGED <<server, shown, stream, reads, listing, faults>>
ClickStop ==
    /\ Running /\ runId # NoRun /\ Click("stop")
    /\ reads' = reads \cup {Ask("stop", runId)}
    /\ UNCHANGED <<server, shown, stream, listing, starting, faults>>

DeliverStart ==
    /\ starting.step = "answered" /\ starting' = Idle
    /\ AttachSeeded(starting.run)
    /\ UNCHANGED <<server, listing, bounds>>

Requests(by) == {q \in reads : q.by = by}

\* Mutant of Polling: a view that has a stream does not poll.
PollingWithoutStream == Running /\ stream = NoStream
Polling == Running
\* A poll is asked and read in one step: while it is on its way it can only be
\* cancelled.
Poll ==
    /\ Polling /\ runId # NoRun /\ Cardinality(Requests("poll")) < MaxPolls
    /\ Of(runId) # {}
    /\ reads' = reads \cup {Answered(Ask("poll", runId))}
    /\ UNCHANGED <<server, shown, stream, listing, starting, bounds>>

\* A request fails, or there is no such run: the view goes on as it was, but
\* attach ends there.
Dropped(q) ==
    /\ reads' = reads \ {q}
    /\ odd' = IF q.by = "get" /\ IsActive(q.run, runId) THEN "unread" ELSE odd
    /\ UNCHANGED <<runId, record, trace>>

\* GET /rmas/runs/:id and POST /rmas/runs/:id/stop read the record.
Serve(q) ==
    /\ q \in reads /\ q.step = "asked"
    /\ IF Of(q.run) = {} THEN Dropped(q)
       ELSE /\ reads' = (reads \ {q}) \cup {Answered(q)}
            /\ UNCHANGED shown
    /\ UNCHANGED <<server, stream, listing, starting, bounds>>

\* setRecord; the answer to a stop is taken whatever the view shows by then.
SetRecord(q) ==
    /\ record' = [run |-> q.run, ended |-> q.ended]
    /\ odd' = IF q.by = "stop" /\ q.run # runId THEN "late" ELSE "no"
    /\ UNCHANGED <<runId, trace>>
    /\ reads' = Rendered(reads \ {q})
\* Mutant of IsTaken: an answer is shown even if another run is by then.
TakenAnyway(q) == TRUE
IsTaken(q) == q.by = "stop" \/ IsActive(q.run, runId)
Deliver(q) ==
    /\ q \in reads /\ q.step = "answered"
    /\ IF IsTaken(q) THEN SetRecord(q)
       ELSE reads' = reads \ {q} /\ UNCHANGED shown
    /\ stream' = IF q.by = "get" /\ q.live /\ IsActive(q.run, runId) THEN Connecting(q.run)
                 ELSE stream
    /\ UNCHANGED <<server, listing, starting, bounds>>

\* A frame of the stream.
Receive ==
    /\ stream.frames # << >>
    /\ stream' = [stream EXCEPT !.frames = Tail(@)]
    /\ trace' = IF IsActive(stream.run, runId) THEN Dispatched(trace, Head(stream.frames)) ELSE trace
    /\ UNCHANGED <<server, runId, record, odd, reads, listing, starting, bounds>>

-----------------------------------------------------------------------------
(* Faults.  A stream that breaks or ends is not opened again. *)

RequestFails(q) ==
    /\ Fault("net") /\ q \in reads /\ Dropped(q)
    /\ UNCHANGED <<server, stream, listing, starting, clicks>>
ListFails ==
    /\ Fault("net") /\ listing # Idle /\ listing' = Idle
    /\ UNCHANGED <<server, shown, stream, reads, starting, clicks>>
StartFails ==
    /\ Fault("net") /\ starting # Idle /\ starting' = Idle
    /\ UNCHANGED <<server, shown, stream, reads, listing, clicks>>
Break ==
    /\ Fault("net") /\ stream # NoStream /\ stream' = NoStream
    /\ UNCHANGED <<server, shown, reads, listing, starting, clicks>>

\* The server dies and starts again with what its log holds, perhaps with the
\* event it was writing; the requests it had not answered fail.
Restart ==
    /\ Fault("restart")
    /\ saved' \in {saved, IF task = NoTask THEN saved ELSE saved \cup {task}}
    /\ log' = saved' /\ task' = NoTask
    /\ handles' = {}
    /\ boot' = {e.run : e \in log'} \ {e.run : e \in {f \in log' : f.kind = "end"}}
    /\ stream' = NoStream
    /\ reads' = {q \in reads : q.step = "answered"}
    /\ odd' = IF \E q \in reads \ reads' : q.by = "get" /\ IsActive(q.run, runId) THEN "unread" ELSE odd
    /\ listing' = IF listing.step = "asked" THEN Idle ELSE listing
    /\ starting' = IF starting.step \in {"asked", "creating"} THEN Idle ELSE starting
    /\ UNCHANGED <<used, fresh, runId, record, trace, clicks>>

Next ==
    \/ \E r \in Runs : Step(r) \/ End(r)
    \/ CreateForOther \/ CreateForView \/ Refuse \/ Write \/ WriteFails \/ Connect \/ ServeList
    \/ ClickStart \/ ClickStop \/ DeliverList \/ DeliverStart
    \/ Poll \/ Receive
    \/ \E q \in reads : Serve(q) \/ Deliver(q) \/ RequestFails(q)
    \/ ListFails \/ StartFails \/ Break \/ Restart

\* The timer of the polls ticks every four seconds; requests are answered; the
\* storage writes what it has taken up, and the boot ends what it has found.
Fairness ==
    /\ WF_vars(Poll \/ \E q \in Requests("poll") : Deliver(q))
    /\ WF_vars(\E q \in Requests("get") : Serve(q) \/ Deliver(q))
    /\ WF_vars(Write \/ \E r \in boot : End(r))

Spec == Init /\ [][Next]_vars
FairSpec == Spec /\ Fairness

-----------------------------------------------------------------------------
(* Properties *)

\* Every variable has its type; the server runs no more loops than it may.
TypeOK ==
    /\ saved \subseteq log /\ log \subseteq Event
    /\ task \in log \cup {NoTask}
    /\ {handles, boot, used} \subseteq SUBSET Runs
    /\ Cardinality(handles) <= MaxConcurrent
    /\ fresh \in Nat
    /\ runId \in Runs \cup {NoRun}
    /\ record \in Record \cup {NoRecord}
    /\ trace \in Seq(Event)
    /\ stream.state \in {"none", "connecting", "open"} /\ stream.run \in Runs \cup {NoRun}
    /\ reads \subseteq Request /\ Cardinality(Requests("poll")) <= MaxPolls
    /\ listing.step \in {"idle", "asked", "answered"}
    /\ starting.step \in {"idle", "asked", "creating", "answered"}
    /\ odd \in {"no", "late", "unread"}

\* The feed belongs to the run that is shown, in its order and without
\* repetition, though the snapshot and the events after it overlap; and as long
\* as the stream is open every event of the run that was saved is in the feed
\* or on its way.
Carried(frames) == UNION {Range(frames[i].events) : i \in DOMAIN frames}
OnItsWay == Carried(stream.frames)
FeedIsFaithful ==
    /\ \A i \in DOMAIN trace : trace[i].run = runId
    /\ \A i, j \in DOMAIN trace : i < j => trace[i].n < trace[j].n
    /\ stream.state = "open" => Of(runId) \cap saved \subseteq Range(trace) \cup OnItsWay

\* The record is that of the run whose feed is shown, except while it is being
\* fetched, if it could not be fetched, or after the late answer to a stop of
\* another run.
RecordIsOfRun ==
    record.run \in {runId, NoRun} \/ odd # "no" \/ \E q \in Requests("get") : q.run = runId

\* If the run that is shown has ended, its end will be shown, whatever becomes
\* of its stream, unless the record shown is not its own.
EndIsShown ==
    runId # NoRun /\ Ended(runId) ~> \/ ~Ended(runId) \/ odd # "no"
                                     \/ record = [run |-> runId, ended |-> TRUE]

-----------------------------------------------------------------------------
(* The inductive invariants behind them. *)

Frame == [type : {"rmas.trace.snapshot", "rmas.trace"}, events : Seq(Event)]
Stream == [state : {"none", "connecting", "open"}, run : Runs \cup {NoRun}, frames : Seq(Frame)]

\* An event that will start a loop has its place kept.
ServerTypes ==
    /\ saved \subseteq log /\ log \subseteq Event /\ IsFiniteSet(log)
    /\ task \in log \cup {NoTask}
    /\ handles \subseteq Runs /\ boot \subseteq Runs /\ used \subseteq Runs
    /\ IsFiniteSet(handles) /\ Cardinality(handles) <= MaxConcurrent
    /\ task.kind = "created" => Cardinality(handles) < MaxConcurrent
    /\ fresh \in Nat

ShownTypes ==
    /\ runId \in Runs \cup {NoRun}
    /\ record \in Record \cup {NoRecord}
    /\ trace \in Seq(Event)
    /\ odd \in {"no", "late", "unread"}

\* A poll is answered when it is asked.
ReadsTypes ==
    /\ reads \subseteq Request /\ IsFiniteSet(reads)
    /\ Cardinality(Requests("poll")) <= MaxPolls
    /\ \A q \in Requests("poll") : q.step = "answered"

\* An answer names a run.
AskedTypes ==
    /\ listing \in [step : {"idle", "asked", "answered"}, run : Runs \cup {NoRun}]
    /\ starting \in [step : {"idle", "asked", "creating", "answered"}, run : Runs \cup {NoRun}]
    /\ listing.step = "answered" => listing.run # NoRun
    /\ starting.step \in {"creating", "answered"} => starting.run # NoRun

TypeInv == ServerTypes /\ ShownTypes /\ stream \in Stream /\ ReadsTypes /\ AskedTypes

\* An event that was ever in memory keeps its number, also if a restart has
\* lost it: the feed and the frames that are on their way agree with the log.
Seen == log \cup Range(trace) \cup OnItsWay
NumbersAreUnique ==
    /\ \A e \in Seen : e.n < fresh
    /\ \A e, f \in Seen : e.n = f.n => e = f

\* A frame of a run: a snapshot in order, or one event.
IsSnapshot(frame) == frame.type = "rmas.trace.snapshot"
IsOf(list, r) == \A k \in DOMAIN list : list[k].run = r
Ascending(list) == \A i, j \in DOMAIN list : i < j => list[i].n < list[j].n
IsFrameOf(frame, r) ==
    IsOf(frame.events, r) /\ Ascending(frame.events) /\ (~IsSnapshot(frame) => Len(frame.events) = 1)

\* The stream is that of the run that is shown.  Only its first frame is a
\* snapshot, and until that is read the frames alone carry all that was saved.
StreamInv ==
    /\ stream.state # "none" => stream.run = runId
    /\ stream.state # "open" => stream.frames = << >>
    /\ \A i \in DOMAIN stream.frames :
          /\ IsFrameOf(stream.frames[i], runId)
          /\ IsSnapshot(stream.frames[i]) => i = 1 /\ Of(runId) \cap saved \subseteq OnItsWay

FeedInv == NumbersAreUnique /\ StreamInv /\ FeedIsFaithful
ViewInv == TypeInv /\ FeedInv /\ RecordIsOfRun
=============================================================================

# A TLA+ model of the orchestrator

The repository is a multi-agent workbench: a desktop and a mobile client talk to
an HTTP server (`apps/server`), which keeps an event log, runs missions and
autonomous goal loops against model providers, lets agents type into tmux panes
and write to GitHub once a human has approved it. All durable state is one
append-only event log, and nearly every other "state" of the server - a mission, a
run, an approval - is derived from its events each time it is needed. The
interesting behaviour is in how events get into memory and onto disk, in the
concurrent activities that use that log while writes fail and the process dies, in
the clients that send events to it and show what it holds, and in writes to GitHub,
whose state is somebody else's.

The model follows the code under `apps/server/src`, the desktop's runtime that
talks to it, and the parts of `packages/protocol` and `packages/agents` they call.
`PROJECT.json` names, for every definition, the lines it translates.

Contents: [the system](#the-system), [plan](#plan), [modules](#modules),
[runs](#runs), [bounds](#bounds), [fairness](#fairness), [proofs](#proofs),
[findings](#findings), [observations](#observations), [not modelled](#what-is-not-modelled).

## The system

Line numbers refer to `apps/server/src` unless a path says otherwise.

### Event storage (`index.ts` 5470-5680, 7490-7560; `eventLogRotation.ts`)

*State.* In memory: `revision`, `eventsById`, `eventRevisionsById`,
`eventsBySession`; one promise chain per storage that serialises tasks. On disk:
`events.jsonl` and rotated segments.
*Operations.* Push a batch (evaluate, commit to memory, rotate, prune, append,
answer); pull; load the log at boot.
*Interactions.* Every other component pushes through
`pushEventsToPersistentServerStorage` and reads the memory index, mostly without
going through the queue.
*Hard.* Memory is changed before the disk. A write can fail, or be cut short by a
crash. Rotation makes three file operations that fail one by one. Clients retry.
*Correct if.* A revision names one event; the log on disk never contradicts
memory; no id has two records; answers for an id agree; what was answered
"accepted" is in the log until pruned; the queue is never stuck.

### Missions (`missions/missionStore.ts`, `missionIndex.ts`, `missionPolicy.ts`)

*State.* None of its own except a nonce counter; a mission is folded from events.
*Operations.* Create, append (worker, artifact, report, merge item, closing),
verify (checkpoint, commands, report, error card, self-correction), merge (gate,
checkpoint, git, result, closing, skill candidates).
*Hard.* Each operation reads the mission, awaits something long, and then builds
event ids by counting what it had read. Other requests run meanwhile.
*Correct if.* Answered operations are stored and visible; verdicts do not flip; git
merges only behind an observed pass; the server calls nothing merged that is not; the
number of automatic retries is bounded.

### RMAS goal-loop runs (`rmas/rmasRunController.ts`, `rmasRunStore.ts`, `routes/rmas.ts`; `packages/agents/src/rmas/goalLoop.ts`, `judge.ts`)

*State.* A map of live handles with an abort controller and a wall-clock timer;
everything else is derived from `rmas.*` events.
*Operations.* Start (two capacity checks around a write), loop (guards, iteration,
judge, ending), stop, timer, reconcile at boot.
*Hard.* Stop, timer, deadline, ending and exceptions race; every emit can fail; a
restart leaves runs without a loop.
*Correct if.* The number of live loops stays within the limit; "completed" is always
preceded by an accepting verdict; an ending is final; no accepted run is forgotten;
every loop ends.

### Approvals and tmux dispatch (`index.ts` 2500-3170, 4230-4300; `routes/approvals.ts`, `routes/tmux.ts`)

*State.* None; approvals are derived from `approval.*` events.
*Operations.* Dispatch (ask for an approval, or claim one and send), grant, reject,
replay; expiry by clock.
*Hard.* The verdict of the gate is read from memory outside the queue, while
decisions are still being written; two operators may decide at once.
*Correct if.* One decision per approval; what was stored and answered holds; a command
sent was approved, and the log shows it; nothing is sent after a rejection that was
stored and answered.

### GitHub writes (`routes/github.ts`; `integrations/*PlanStore.ts`, `githubMultiFileCommit.ts`, `githubReadonlyClient.ts`)

*State.* Per kind of write a store in memory: plans with an expiry, the claims of
running executions, the results that were observed. The repository itself is at
GitHub, and others work in it.
*Operations.* Plan (read, keep for ten minutes), approve (see above), execute (read
again, claim, write, observe or release). A commit of several files has no plan; it
carries the head its client saw.
*Hard.* The checks of an execution and its write are separate calls; two executions
of a plan overlap; an answer is lost or a write arrives late; plans expire under
their execution; a restart forgets everything.
*Correct if.* A plan whose answers arrive is written once; a write replaces only
what the plan has seen, where GitHub can refuse it; nothing is called observed that
was not applied; claims end.

### The client's outbox (`apps/desktop/src/runtime/stage14EventSync.ts`, `stage29LocalEventStore.ts`; `hooks/useDgxEventSyncController.ts`; `App.tsx` 1344-1512)

*State.* A cache in `localStorage` with a fallback to memory, the outbox the user
sees, the events shown, the events known to be synced.
*Operations.* Start, create an event, show the events of an autonomous run, sync all, replay from the server, finish a
sync, close. A sync tries several base URLs, each with a timeout.
*Hard.* Several syncs at once; requests that were given up are still served; the
server may have an event in memory and not on disk; the browser may refuse to store.
*Correct if.* An event that was cached or sent is on the server's disk or still counts
as unsynced; what is unsynced is shown as waiting; a sync ends.

### The live view of a run (`apps/desktop/src/components/rmas/useRmasRun.ts`, `runtime/stage48RmasStream.ts`; `rmas/rmasTraceBus.ts`, `events/sseSession.ts`)

*State.* The run attached to, its record, its feed, an open stream, a poll timer,
requests on their way. On the server: the sessions subscribed to a run.
*Operations.* List and attach when opened, start, stop, poll, receive frames.
*Hard.* Snapshot and live events overlap; answers arrive after the view has moved to
another run; streams break for good; a run may end without being published.
*Correct if.* The feed is that of the run, complete, ordered and without repetition;
the record is that of the run; its end is shown.

### Components that are not modelled yet, or not at all

| Component | State and operations | Hard part |
| --- | --- | --- |
| Storage lock (`storage/storageLock.ts`) | lock file with pid and heartbeat | read-decide-write by two servers, the log read before the lock is held |
| Authentication rate limiter (`security/authRateLimiter.ts`) | bounded map of sliding windows | eviction when full |
| Learning failures (`learning/`) | idempotency records | repeated failures |
| Autorun safety, verify packets | none | pure functions |
| Ingress, permission gate, delegation | none besides events | - |
| Provider proxy, memory, debate engine, sandbox/checkpoint/preview runners | process or request local | I/O |
| Desktop and mobile UI, MCP server, scripts, personas, docs | view state | - |

## Plan

Done, in this order:

1. `EventLog` (abstract) and `EventStorage` (detailed), with proofs.
2. `MissionStore`, over what `EventLog` promises.
3. `RmasRuns`, over the same promise.
4. `Approvals`, over the same promise, with its proofs in `ApprovalsProofs`.
5. `GithubWrites`, which an approval precedes, with proofs of all its safety.
6. `EventSync`: the client's outbox against a server that restarts, with proofs.
7. `RmasView`: a desktop that starts, stops and watches the runs of `RmasRuns`.
8. `RmasRunsProofs`: every safety property of `RmasRuns`.
9. `MissionStoreProofs`: every safety property of `MissionStore`; `SequenceLemmas`,
   the facts about sequences it shares with the other proofs.
10. `EventStorageProofs` extended: `EventStorage` implements `EventLog`.
11. `RmasViewProofs`: every safety property of `RmasView`.

Next:

12. `StorageLock`: two servers and one log directory; one writer at a time, and no
   record written after a successor loaded the log. Then `AuthRateLimiter`.
13. A git worktree shared by two merges; provider completions and agent delegation
    as further kinds of approval; learning idempotency; previews.
14. Proofs: what `ClosedShowsMerge` is true of, as long as no merge is tried twice
    (finding 3), in the way of `VerifiesAreShown` (finding 2) and `AcceptedStaysDurable`
    (finding 1); then the proofs about 12 and 13.

Modules that are to be proved about have no RECURSIVE operators, name every
assumption on their constants, have one action per operation, and state their
inductive invariant as a conjunction of named parts.

## Modules

### EventLog

What other components may rely on: events enter the store under free ids with
consecutive revisions (`Commit`); some later are kept (`Keep`); the oldest may be
given up (`GiveUp`); a restart knows exactly what was kept, under the revisions it
had, and goes on from the highest of them, or from 0 (`Reload`). `Damage` says whether a
write may spoil a record that was kept; if so, only the newest. `LogTypeOK` says that what is kept
is in the store.

### EventStorage (with MCEventStorage, EventStorageProofs)

| Model | Code |
| --- | --- |
| `revision`, `eventsById`, `eventRevisionsById` | `ServerEventStorageState` |
| `queue`, `task` | the promise chain of `enqueueStorageTask`, and the task between two awaits |
| `log`, `segs`, `activeLen`, `openTail` | the bytes of all log files, oldest first, and where they are cut |
| `Submit`, `Push` | `POST /events/sync`; `pushEventsToServerStorage` |
| `Rotate`, `RenameFails`, `StatFails`, `Prune`, `PruneFails` | `rotateEventLogIfNeeded` and its error paths |
| `AppendFile`, `AppendFails` | `appendAcceptedEventsToJsonl` |
| `Crash`, `Restart` | process death; `loadServerEventStorageStateFromDir` |
| `acked`, `pruned` | history variables |

An event is its id, session and body; file sizes are counted in lines; bodies
containing secret-like text are a subset of the bodies. A torn line, and the line
that a later append glues to it, is `Torn`. The clock that names segments does not
go backwards. `Abstract` maps a server that is down to the one that will load its
log, and `ImplementsEventLog` is the refinement: checked in `storage_safety` and
proved as `StorageImplementsLog`.

### MissionStore (with MCMissionStore, MissionStoreProofs)

One mission. `log` holds its events in memory, `unsaved` the ids that did not reach
the disk, `queue` the pushes, `ops` what each request is doing, including how much
of the log it had read (`seen`), `nonce` the nonce counter and `merges` what git has
really merged. The fold (`Firsts`, `Latest`, `Reports`, `MergeItems`, `ClosedAs`) is
`buildMissionIndexFromEvents`; `VerifyBegin`, `VerifyRun`, `React` and `Correct` are
`verify` between its awaits; `MergeBegin`, `MergeRun` and `Skills` are `merge`;
`Store` is the storage's answer to one push, with `Fresh`/`Complete` for the ids that
are taken and the exception this raises. An event that is refused, or that a crash
takes, leaves a `Gap` in `log`, which no definition looks at: it keeps the positions
of the others. Reports and cards carry a time `at`, their `createdAt`: the server
stamps its own with `clock`, which may stand still between two events and does not go
back; clients stamp theirs with any time and give them any id, also that of a verify.
`PriorCards` compares those times, as the code does. A client's queue item has the
state the client gives it (`AppendQueued`). `by` tells the properties whether the server
or a client made a report or an item; the code does not know. Git and the sandbox are choices of a result. Mission events that a
client could push through `/events/sync`, around the mission routes, are not
modelled.

### RmasRuns (with RmasRunsProofs)

`log` and `queue` as above, `handles`/`aborted`/`timers` the controller's map, `pc`
where each loop is, `boot` what `reconcileInterrupted` has still to look at. The
patterns of agents inside an iteration are one step (`Work`) that uses tokens, or
throws (`Throw`); emits other than those that carry a status appear only as `Throw`,
because the loop does nothing with them but fail. `AfterFailure` is the exception a
failed emit raises inside the loop, and its being swallowed in the catch block.
An event that a crash takes leaves a gap in `log` (`OnDisk`), which no definition
looks at: it keeps the positions of the others, and nothing else.

### Approvals (with ApprovalsProofs)

`requested` and `decisions` are the `approval.*` events in memory, `savedRequests`
and `savedDecisions` those on disk; `queue` and `stage` are the storage's serial
queue and the write its head waits for; `op` is what each client's request is doing.
`Matches` is `evaluateServerTmuxDispatchPermission`, `Pending` the check inside the
queued decision, `Evaluated`/`AfterPush` the order verdict - recorded intent -
send. `judged`, `told` and `failed` are history variables. `RefuseDecide` answers 404 or 409;
`DropDecision` is the decision whose reason looks like a secret: the storage refuses its
event, and the operator is answered 200 all the same, so `told` says of each answer
whether its decision was `stored`. Execution on tmux is
enabled: without it nothing is ever sent. `sent` is a set: the code makes no promise
of single use.

### GithubWrites (with MCGithubWrites, GithubWritesProofs)

One issue, branch, file and pull request that all plans are about, so that any two
plans collide; `gh` is the repository, `plan` what an id stands for, `records`,
`inFlight` and `observed` the stores. `Plan` is the seven plan routes, `Execute`,
`Verify`, `Check`, `Build`, `Receive`, `Confirm` and `Refuse` an execution between
its awaits; the checks per kind are `BranchCheck` to `CommitCheck` (a comment has none that matters:
its execution lists issues), what GitHub
takes and leaves is `CommentTaken`/`CommentWrite` to `CommitTaken`/`CommitWrite`.
`Claimed` has the claim and the sending in one step, as the code has no await between
them. `Pruned` drops expired plans, whoever executes them. `Fail`, `Lose`, `Arrive`
and `Restart` are failed calls, lost answers, late writes, and a new process; `Others`
is anybody else at work. Files, texts and label sets are version numbers, and a plan writes
one nobody had before, the first one, or one of another plan, but not the one that is there
(`Contents`, `FilePlan` and the like): plans may restore. `count`, `lost`, `told` and
`standing` are history variables; a plan is `standing` from its write until others change
the repository or the write of another plan restores the version it was made from
(`Restores`). Hashes,
allowlists and the secret scan only refuse a request, and are left out.

### EventSync (with MCEventSync, EventSyncProofs)

| Model | Code |
| --- | --- |
| `stored`, `memory`, `disabled` | the cache of `stage29LocalEventStore` and its fallback |
| `outbox`, `shown`, `synced` | the React state of `useDgxEventSyncController` and `App` |
| `sync`, `strays` | running syncs; requests nobody waits for any more |
| `store`, `kept` | the events in the server's memory and on its disk |
| `Show` | `onRunEvents` of `AutonomyRunContainer.tsx`, `App.tsx` 5408: shown, not cached, not sent |
| `Start`, `Create`, `SyncAll`, `Replay`, `Finish`, `Close` | bootstrap, `appendEvent`, the two buttons, the end of a sync, closing |
| `Timeout`, `TooLarge`, `WriteFails`, `NextUrl` | an attempt fails, the next base URL is tried |
| `Receive`, `Write`, `ReceiveStray`, `WriteStray`, `Restart` | the storage, which has one task at a time |

`failed`, `hasty` and `broken` are history: an event the log refused, one that was
pulled before it was saved, a cache that was refused; and `onlyShown`, the events of
autonomous runs until a sync of everything takes them. They name the four ways in
which an event can be lost, and `NothingIsLost` says that there is no fifth. The first
three are of events that were cached or sent; an event that was only shown is lost
with the page.

### RmasView (with RmasViewProofs)

`log`, `saved` and `task` are what the view can see of the storage, `handles` and
`boot` what it can see of the controller; `runId`, `record` and `trace` are the state
of the hook, `stream` its stream with the frames on their way, `reads`, `listing` and
`starting` its requests. `Attach...` is `attach`; `Rendered` is React's cancelling of
the polling effect; `Connect` is the stream route, which sends a snapshot and
subscribes without an await in between. `odd` is history: why the record shown may
not be that of the run. A sorted list is given by the place of each element in it
(`UpTo`, `SortedAt`) instead of by a sorting procedure; `MergeTraceEvent` leaves out
what is there under the event's id (`Others`), adds the event and sorts. The goal loop is any sequence of steps with an end, since
`RmasRuns` has its details.

## Runs

| Run | Configuration | What it shows |
| --- | --- | --- |
| `storage_safety` | every fault, torn writes included; 5 pushes, 1 restart | memory and log agree, revisions unique, one record per id, answers agree, refinement of `EventLog` |
| `storage_durable` | no torn writes; 3 pushes, 2 restarts, rotation at every push | accepted events are durable (`AcceptedIsDurable`), every push ends |
| `storage_torn` | torn write | finding 1 |
| `missions` | 3 requests, 2 at a time, failing writes, one crash, client reports, items and closings | answered events stay stored, git merges only behind a pass, what the server stores as merged is real, retries bounded, verdicts are final |
| `missions_restart` | one crash | finding 2 |
| `missions_merge_retry` | no faults, a conflict and then a merge | finding 3 |
| `rmas` | 2 runs, 1 place, every fault, one restart | capacity, completed is judged, no zombies, endings final, stop obeyed, loops and boots end |
| `approvals` | 2 clients, 5 requests, 1 id, 2 commands, every fault, one crash | nobody is told another decision than the one in memory, stored answers kept, what was sent is on record, nothing after a stored rejection, every request is answered |
| `approvals_orphan` | the same | finding 4 |
| `github` | 2 callers, 2 plans of kinds that share something, 3 executions, 1 change by others, failing calls, 1 lost answer or restart | a plan is written once, repeats need an undoing, observed is written, claims end, nothing is overwritten |
| `sync` | 3 events, 2 concurrent syncs of 3, 2 URLs, 1 fault | what was cached or sent is not lost, what waits is shown, syncs end |
| `view` | 2 runs, 1 place, 1 step, 1 click per button, 1 fault | the feed is faithful, the record is that of the run, the end is shown |

Every property of a passing run has a mutant of the code in `PROJECT.json` that
violates it. Deadlock is not checked: the number of requests of a run is bounded,
and when they are used up the system rests.

## Bounds

* Storage: three ids, two sessions and two bodies plus a secret one. A batch of
  three meets a batch of one under the same id with equal and with different
  payload, so accepted, duplicate, conflict and refused occur together, in one push
  and across pushes. `MaxLines` of 1 or 2 rotates during a run, `KeepSegments = 1`
  prunes. Five pushes allow a failed write, its retry, a rotation, a prune and one
  more push after a restart (about 500 000 states).
* Missions: two concurrent requests, since every property relates two. Three
  operations reach verify/verify/merge and append/verify/merge sequences around a
  crash; client reports are a pass of today and one of before under the id of the first
  verify, so that a client's report hides a verify, comes after the cards it is older than,
  or resets them; client items are queued or already merged; the clock has two values, so
  that cards and passes are of one time or of two; one retry is allowed, so a second one
  would break the bound (about 655 000 states). The runs of the findings add a failure and a
  pass without evidence. Symmetry
  between the two requests is used, as the run has no liveness.
* RMAS: two runs for one place, two iterations and one token, so both budgets end a
  run in either order; one restart.
* Approvals: one id, since nothing relates two approvals; two commands under it; two
  clients; five requests, the length of ask - grant - claim plus two others in
  between; one restart.
* GitHub: two plans of one kind or of two kinds that read or write the same thing
  (`Groups`: title and body with labels; branch with pull request; file, pull request and
  commit): plans of other pairs share neither a store nor a part of the repository. Two
  callers in one plan or in two; a third execution is the retry of one that failed;
  one change by others falls anywhere in between. What is written is new, the first version
  or that of the other plan, which is enough for a plan to undo the other. Callers and plans
  are symmetric (about 600 000 states).
* Outbox: three events, two of the open session and the third one between them of
  another, one of them refused as a secret; the second one may be that of an autonomous run
  (`RunEvents`); a body holds two, so a batch of three is
  too large; two URLs, so that a timeout has both a next and a last; three syncs, two
  at a time (about 555 000 states).
* View: two runs, the view's own and another's, or two of its own around a stop; one
  step between the first and the last event of a run, so the snapshot can hold any
  part of a run; one fault of any kind (about 560 000 states).

`MaxPushes`, `MaxOps`, `MaxRequests`, `MaxCalls`, `MaxChanges`, `MaxSyncs`,
`MaxEvents`, `MaxSteps`, `MaxClicks`, `MaxPolls`, `MaxFaults`, `MaxClock`, `MaxRestarts` and `Groups` bound
a run of the model and exist in guards only. The theorems hold for all of their
values.

## Fairness

`FairSpec` is used only where liveness is checked.

* The serial queue is a promise chain that continues on rejection
  (`storage.queue.catch(...).then(task)`), so its head runs eventually: weak fairness of `Push`,
  `Store`, `Task`.
* A file operation comes back with a result or an error: weak fairness of each
  success together with its failures (in `RmasView`, of `Write`; its failure is a
  bounded fault).
* A loop of a run goes on, because each completion has a timeout (120 s, or that of
  the CLI adapter) after which it is a failed answer: weak fairness of `LoopStep`.
* `tmux` scripts have a timeout: weak fairness of `Send`.
* An attempt of a sync has a timer (`stage14EventSync.ts` 159-173): weak fairness of
  `Timeout` only, so `SyncsEnd` does not lean on the server. The timer is cleared when
  the headers have arrived; that the body then arrives or fails is assumed.
* The view's poll timer ticks every four seconds until its effect is cleaned up, and a
  request that is not cancelled is answered: weak fairness of polls, of first reads,
  and of the server's writes and boot. Nothing is assumed of its stream.

Nothing is assumed of users, other clients, stops, crashes or faults, nor in
`EventSync` of the server.

## Proofs

TLAPS proves, for every value of the constants:

* `EventStorageProofs`: `StorageIsSafe`, that `IndInv = StorageInv /\ Bounded` is
  inductive, from which `StorageTypes`, `RevisionsStayUnique`,
  `LogAgreesWithMemory` and `PushesAreIdempotent` follow. Hypothesis: `DistinctIds`, no batch repeats an id.
  (The code looks an accepted id up again in the batch and takes the first event
  with it; the client never repeats one.) Every fault is allowed.
  None of the three is inductive alone. Uniqueness after a restart needs that the
  records of the log have distinct ids and revisions (`DiskInv`); that a write keeps
  this needs that the records of the running task are in memory, once each, and not
  in the log (`TaskInv`); that answers agree needs that they agree with memory while
  the process lives (`AnswerInv`); and `Bounded`, that the revision a restart
  computes covers the records it read.
  The lemmas follow the code: `NewEventsFacts`/`RecordsFacts` about a batch,
  `WriteFacts` about a write cut short anywhere, `LoadFacts` about the fold at boot,
  then one lemma per kind of step.
  `AcceptedStaysDurable` holds under `NoTear` as well; finding 1 is the counterexample
  without it.
  The refinement. `StorageImplementsLog` needs one more invariant, `OrderInv` (proved as
  `LogStaysOrdered`): the records of the log are in the order of their revisions, and those
  of the running task come after all of them. Then what a torn line can destroy is the
  newest kept event, and what pruning takes with the oldest segment are the oldest, as
  `Keep` and `GiveUp` demand. Each step is one of the abstract one or a stutter: `Push` is
  `Commit` if it accepts something, a write is `Keep`, `Prune` is `GiveUp`; a crash is
  `Reload`, because a server that is down stands for the one that will load its log
  (`LoadFacts` says what that is), and the restart itself is a stutter. `KeptIsKnown`
  proves the type invariant of the abstract log through the mapping.
* `ApprovalsProofs`: `ApprovalsAreSafe`, that `ApprovalsInv` is inductive, from which
  `ApprovalsTypes`, `DecisionsAreKept`, `SendsAreOnRecord` and the action properties
  `OneOperatorDecides` and `RejectionsHold` follow; no hypothesis besides the assumptions on the constants,
  every fault allowed. A decision that was stored when it was answered is saved, what is saved
  is in memory (`DiskInv`), and memory takes one decision per approval (`DecidedOnce`); a
  refused decision is answered only while there is none. For a
  command that is sent the argument runs through the queue: its verdict was read from
  memory, perhaps while the grant was being written; but its own record is behind that
  write in the queue, so when the record is saved the write is over (`DiskInv` says
  that only the head's event may be unsaved without a failure, `VerdictInv` that the
  verdict still holds). `GrantInv` keeps a grant and the request it was given for
  together through a crash; finding 4 is what happens to ids it has to except.
* `GithubWritesProofs`: `TypeCorrect`, `PlansWriteOnce`, `RepeatsAreUndone`,
  `ObservedWritten`, `ClaimsAreReleased` and `NothingIsOverwritten`, for any number of
  callers, plans, changes and faults; the only hypotheses are the assumptions on the
  constants. That a plan is written once needs, besides the claim, an account of every
  write that may still arrive: those being sent and those that were given up, each of
  which was counted as lost. That repeats need an undoing rests on what a write leaves
  behind - a branch, a pull request, a version of the file, a commit - and that it
  stays until somebody else removes it or another plan gives the file back the version that
  this one saw, which both end its `standing`.
* `EventSyncProofs`: `TypeCorrect`, `EventsAreNotLost` and `WaitingStaysShown`, for any
  number of syncs, URLs, sessions and faults. What a running or an abandoned request
  has made the server save (`new`) lies between its memory and its disk; an answer
  confirms only what is on disk, or was there already - and whatever is in memory is on
  disk, being saved, or one of the exceptions. That is the invariant (`PlacesInv`: an event
  that was not only shown is in one of those places).
* `RmasRunsProofs`: `Inductive`, that `IInv` is inductive, from which `RunsHaveTypes`,
  `CapacityHolds`, `CompletedRunsAreJudged`, `NoZombies`, `EndingsAreFinal` and
  `StopsAreObeyed` follow, for any number of runs, places, budgets, faults and restarts.
  Whoever pushes waits for its push: a run has one push in the queue at a time, and the
  boot has one (`QueueInv`), so that the storage answers a loop that is still there. What
  the loop may rely on is what was saved: `RunInv` ties every place of the loop, of the
  request and of the boot to what the log must and must not have of the run, and a run
  with a saved ending is left alone by all three (`LeftAlone`). The status is the last of
  several events; that in an ordered log (`Ordered`) it is an ending as soon as there is
  one is `TerminalLemma`, which lets everything else speak of sets of events. A crash
  turns "has" into "has saved" (`CrashLog`), and the boot finds exactly the runs that
  this leaves without an ending.
* `MissionStoreProofs`: `Inductive`, that `IInv` is inductive, from which `TypeCorrect`,
  `AnswersAreStored`, `MergesAreOnlyOfPassed`, `NoFalseMerge` and the action property
  `VerdictsStayFinal` follow, for any clients, agents, teams, reports and faults. Two
  facts carry it. What a request has read is the beginning of what is there now
  (`OpInv`, `BeginningLemma`), and a longer log shows at least the reports of its
  beginning (`PrefixLemma`): the report a merge relied on when it read the mission is
  visible when git merges. And a request's event is kept or waits in its one push
  (`Kept`, `Waits`), so an answer, given when the last push was complete and saved,
  leaves nothing behind. `PushStep` and `OpStep` are the two things a request can do;
  every action is one of them, `Store` or `Crash`. Ids of one push differ (`Distinct`),
  without which a push could refuse its own event.
  `RetriesStayBounded` counts. A retry is stored only for a request that had read a
  mission with fewer than `MaxAttempts` cards younger than the last pass; once it is stored that request is over.
  So the retries, together with the requests that may still retry (`MayRetry`), never
  exceed `MaxAttempts + Cardinality(Clients) - 1` (`CountInv`). For the count to go up only with a
  correction that is stored, the card a correction answers has to be in memory and on disk
  before it (`CorrectionInv`, `SuggestInv`): no old correction begins to count because its
  card arrives later, or is the first under its key after a crash.
  `VerifiesAreShown` is what is left of the comment that finding 2 refutes: until the first
  restart every verify that was answered is visible, or a client has recorded a report under
  its id (`VerifyIsShown`). The reports of
  verifies have ids below the nonce and differ, in memory, in the queue, and between the two
  (`NumberInv`, `ComingInv`), and none is pushed to a mission that is not there, whose
  index would skip it.
* `RmasViewProofs`: `ViewStaysSound`, that `ViewInv` is inductive, from which `ViewTypes`,
  `FeedStaysFaithful` and `RecordStaysOfRun` follow, for any number of runs, events,
  requests and faults. The feed is compared with what was saved by numbers that no two
  events share (`NumbersAreUnique`). What the feed lacks is on its way: in a frame, or in
  the task of the storage, which will publish it; and a snapshot can replace the feed
  because it is the first frame of its stream and all that was saved before is in the frames
  (`StreamInv`). That a merged feed has each event once and in order is a fact about ranks:
  `SortedAtLemma`, from `PlaceLemma` (the number of elements up to an element is its
  place in the order). The record is that of the run shown, or is being fetched, or `odd`
  says why not: whoever changes the run shown cancels the requests of the one before
  (`AbortedLemma`, `RenderedLemma`), except a stop, whose late answer is the "late" of
  `odd`; "unread" is a first read that failed.
* `SequenceLemmas`: what `Append`, `Tail`, `\o` and `SubSeq` do to the elements of a
  sequence, and `GreatestLemma` and `PlaceLemma` about finite sets of numbers, for the modules of
  storage, missions, runs and view.

So every invariant and every action property of a passing run is a theorem, and so is
the refinement. Only model-checked: liveness (`EveryPushEnds`, `RunsEnd`, `RequestsEnd`,
`SyncsEnd`, `EndIsShown`), which the installed provers do not handle. What is proved of
`EventStorage` has the hypothesis `DistinctIds`, and `AcceptedStaysDurable` that of `NoTear`
besides; every other theorem has only the assumptions on the constants.

## Findings

1. `storage_torn` - a line torn by a crash swallows the first record accepted
   afterwards (`eventLogRotation.ts:9-11` claims no loss).
2. `missions_restart` - the report nonce restarts with the process
   (`missionStore.ts:71` calls it monotonic); the first verify after a restart can be
   answered 2xx and never be visible.
3. `missions_merge_retry` - a merge that succeeds on its second try reuses the event
   id of the first: the mission is closed as merged while its item shows the conflict
   (`missionStore.ts:727-728`).
4. `approvals_orphan` - a saved grant whose request was lost approves whatever is
   requested next under its id (README.md:194: send-keys only behind an approval).

## Observations

Behaviour that the models have, that no property forbids, and that a reader of the
code may want to know. Where a property excepts it, the exception is named.

* *Storage.* A push that fails to be written stays in memory; its retry is answered
  "duplicate" with nothing on disk, and is gone after a restart, where README.md:244
  promises that verdicts survive. `AcceptedIsDurable` therefore speaks of "accepted"
  only, and `NothingIsLost` excepts `failed` events: the outbox takes the "duplicate"
  for a confirmation.
* *Missions.* A client may append a queue item that is already "merged"
  (`missionStore.ts:577-600` asks only for an observed pass and stores its status): the
  mission then shows a merge that git never made, and a request to merge the item is
  answered without one. `MergedIsReal` speaks of what the server stores itself. The age of
  a report is the string its client gave it: an observed pass of the year 9999 hides every
  later failure, and self-correction retries without a bound (`RetriesAreBounded` counts
  as the code does); one of the past resets nothing. A client's report under the id of a
  verify to come hides that verify (`VerifiesAreShown` names it).
* *Approvals.* The free text of a decision's reason may look like a secret; the storage
  then refuses the event, and `index.ts:3061-3074` does not look: the operator is answered
  200 with `status` "approved" or "rejected" while the approval stays "required". Another
  operator may decide the opposite, and a command may be sent that somebody was told is
  rejected. `OneDecision` allows it before the stored decision only; `ToldIsKept` and
  `RejectedIsNotSent` leave such answers out.
* *RMAS.* The abort signal does not reach the adapters of the provider
  (`index.ts:6155-6156` says it cancels calls in flight): a stopped run goes on with
  the answer of a call in flight, and may be judged and completed by it.
  A run whose creation could not be saved, or that lost the race for its place, stays
  queued until a restart interrupts it; a view that is opened attaches to it, and its
  start button is disabled until then.
* *RMAS view.* The answer to a stop is taken if the component is mounted, whatever it
  shows by then (`useRmasRun.ts:220-221`; polls and reads compare the run first). After a
  new start it replaces the record of the new run by the old one, and if that one has
  ended, polling stops for good. `RecordIsOfRun` and `EndIsShown` except this
  (`odd = "late"`). Likewise a list that is answered after a start attaches to what it
  found. A stream that breaks is never opened again; an event whose write failed is in
  later snapshots but never published. Polls, lists, starts and stops have no timeout.
* *GitHub.* PATCH of title and body and PUT of labels are unconditional: the window
  between check and write is narrowed, not closed. A pull request is created from the
  names of its branches, so it merges what they have by then. The answer to a comment
  that is lost makes its retry post twice. A file whose answer was lost is written again by
  the retry if another plan has meanwhile restored the version the first one was made from,
  with nobody outside at work (`RepeatsNeedUndoing` names it). A commit of several files moves a branch
  that was reset to an ancestor meanwhile, and so brings the dropped commits back.
  Comments and branches whose plan expires during the write stay claimed for good
  (`ClaimsEnd` excepts pruned plans). Observed answers and plans are lost at a restart.
  The approval a caller names is not compared with the plan. Calls have no timeout.
* *Outbox.* The events of an autonomous run are only shown (`App.tsx` 5408): until the user
  asks for a sync of everything, a reload loses them, though `autonomyRunEvents.ts:7-8` has
  them pushed "through the existing event-sync path" (`NothingIsLost` excepts `onlyShown`).
  A replay marks as projected what the server had in memory
  (`NothingIsLost` excepts `hasty`). After one refused `setItem` later saves are written
  and not read, and a reload goes back to what they left (excepted as `broken`;
  `stage29LocalEventStore.ts:28-29` expects a degradation without loss). Projected
  events of the open session enter a later batch again unless this client synced them
  itself (docs/27:59 expects otherwise), there is no automatic retry (docs/27:212), a
  batch of several sessions takes the session of its newest event, so the others are
  refused and wait, and a batch above the body limit of the server never drains.
  `afterRevision`, the cursor of a pull, is not passed by the shipped client.

## What is not modelled

* `eventsBySession` and the order and paging of pulls; the reads of the memory
  index have no effect on it.
* A batch that repeats an id: allowed by the definitions, not by the requests of the
  runs; see `DistinctIds`.
* Missions: workspaces, blueprints, visual QA, scaffolds, curating of skills,
  checkpoints as data and rollback.
* Approvals: provider completions and agent delegation share the record/decide/replay
  path and execute something else. A push all of whose events are refused writes
  nothing; in `Approvals` it may still fail.
* GitHub: the read-only routes, and what a plan shows its approver.
* The runner of a verify throwing after it took a nonce: it leaves a gap and nothing
  else.
* Pure input/output (provider adapters, subprocess runners), text heuristics
  (memory), rendering (desktop, mobile).

The map covers the code whose state several actors share, which is a small part of
the repository's lines. Most of the rest is not a state machine that a model could be
checked against: React components that render what the server answers
(`apps/desktop/src/components`, about half of the lines), view models and formatting,
schemas and types (`packages/protocol`), prompts and personas, provider adapters and
subprocess runners, whose behaviour is that of the programs they call, and keyword and
scoring heuristics over text. A TLA+ module of those would repeat the source without
a property that could fail.

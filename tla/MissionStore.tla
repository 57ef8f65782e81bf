---------------------------- MODULE MissionStore ----------------------------
(***************************************************************************)
(* One mission of missions/missionStore.ts.  A mission is nothing but the  *)
(* events stored for it: every request reads the mission from the events   *)
(* in memory, computes new events from what it read, and pushes them.      *)
(* Between the read and the moment its events are stored other requests    *)
(* run, and the event ids are counted from what was read.                  *)
(*                                                                         *)
(* Abstractions.  The event storage is used as EventLog promises: a push   *)
(* is an element of a serial queue, every event of it is stored unless its *)
(* id is taken, and what is stored outlives the process only if it is also *)
(* saved.  Two requests never build equal events (they differ in           *)
(* createdAt), so a taken id is always a "conflict".  Events of one        *)
(* mission are created in the order in which they are pushed.  An event    *)
(* that is refused, or that a crash takes, leaves a gap in the log, so     *)
(* that the others keep their places.  Time stands for the createdAt       *)
(* strings that are compared: the server stamps its reports and cards with *)
(* its clock, clients stamp theirs as they like.  "by" tells the           *)
(* properties who made a report or an item; nothing in the code knows.     *)
(***************************************************************************)
EXTENDS Integers, Sequences, FiniteSets

CONSTANTS
    Clients,            \* concurrent requests
    Agents,             \* who may be a worker of the mission
    Verifiers,          \* agents with capability mode sandbox_verify
    Correctors,         \* agents with a role in policy.allowedRoles
    NoAgent,
    Teams,              \* the workers of a POST /missions: sequences of agents
    Artifacts, Items,   \* ids of artifacts and of merge queue items
    NoItem,
    ClientReports,      \* reports clients append, with or without exit codes,
                        \* under any id and with any time
    ClientStatuses,     \* the states of the items that clients append
    ClientClosings,     \* the closings clients append
    Signatures, NoError,\* error signatures of failing verifications; none
    MaxAttempts,        \* policy.maxAttempts
    RunResults,         \* what the runner may report: <<status, signature>>
    GitResults,         \* what executeMerge may report
    Faults,             \* the failures the environment may inject
    MaxOps, MaxRestarts,\* bounds of a run: requests, crashes ...
    MaxClock            \* ... and the server's time

ReportIds == {"verify", "client"} \X Nat
Statuses == {"pending", "passed", "failed", "blocked"}
MergeResults == {"merged", "conflict", "blocked", "failed", "dry_run"}
ItemStatuses == MergeResults \cup {"queued", "waiting_approval", "merging", "rejected"}
Closings == {"merged", "failed", "cancelled"}

ASSUME ClientsAssumption == IsFiniteSet(Clients) /\ Clients # {}
ASSUME AgentsAssumption == /\ Verifiers \subseteq Agents /\ Correctors \subseteq Agents
                           /\ NoAgent \notin Agents /\ Teams \subseteq Seq(Agents)
ASSUME ItemsAssumption == NoItem \notin Items
ASSUME ReportsAssumption ==
    ClientReports \subseteq [id : ReportIds, status : Statuses, observed : BOOLEAN,
                             sig : Signatures \cup {NoError}, evidence : BOOLEAN, at : Nat]
ASSUME ResultsAssumption ==
    RunResults \subseteq ({"passed", "pending"} \X {NoError}) \cup ({"failed", "blocked"} \X Signatures)
ASSUME ClosingsAssumption == /\ ClientClosings \subseteq Closings /\ GitResults \subseteq MergeResults
                             /\ ClientStatuses \subseteq ItemStatuses
ASSUME FaultsAssumption == Faults \subseteq {"write", "crash"}
ASSUME BoundsAssumption == MaxAttempts \in Nat /\ MaxOps \in Nat /\ MaxRestarts \in Nat
                           /\ MaxClock \in Nat

VARIABLES
    log,        \* the events in memory, in the order they were stored
    unsaved,    \* the ids of those that did not reach the disk
    queue,      \* pushes that wait for the event storage
    ops,        \* what every client's request is doing
    nonce,      \* nonceCounter
    clock,      \* the server's time, which may stand still between two events
    merges,     \* what git has really merged: [item, report, epoch]
    answered,   \* history: the events of requests that were answered 2xx
    passLost,   \* history: an observed pass was lost in a crash
    started, restarts

vars == <<log, unsaved, queue, ops, nonce, clock, merges, answered, passLost, started, restarts>>

Idle == [step |-> "idle"]

\* An event: its id is <<type, key>>, data is its payload.
Ev(type, key, data) == [type |-> type, key |-> key, data |-> data]
EventId(e) == <<e.type, e.key>>
Gap == Ev("gap", 0, [id |-> 0])
Present == {i \in DOMAIN log : log[i].type # "gap"}
StoredIds == {EventId(log[i]) : i \in Present}

-----------------------------------------------------------------------------
(* buildMissionIndexFromEvents: the mission as the events l tell it.       *)

\* Events of the type that follow mission.created; earlier ones are skipped.
At(l, type) ==
    {i \in DOMAIN l : l[i].type = type /\ \E j \in 1..(i - 1) : l[j].type = "created"}
\* Mutant of Firsts: a later event of the same id replaces the first.
Lasts(l, type) == {i \in At(l, type) : \A j \in At(l, type) : l[j].data.id = l[i].data.id => j <= i}
\* Workers, artifacts and reports: the first of an id counts.
Firsts(l, type) == {i \in At(l, type) : \A j \in At(l, type) : l[j].data.id = l[i].data.id => i <= j}
\* Merge queue items: the last of an id counts.
Latest(l, type) == {i \in At(l, type) : \A j \in At(l, type) : l[j].data.id = l[i].data.id => j <= i}

Exists(l) == \E i \in DOMAIN l : l[i].type = "created"
Workers(l) == {l[i].data.id : i \in Firsts(l, "worker")}
Reports(l) == {l[i].data : i \in Firsts(l, "report")}
MergeItems(l) == {l[i].data : i \in Latest(l, "queued")}
IsLastClosing(l, i) == i \in At(l, "closed") /\ \A j \in At(l, "closed") : j <= i
ClosedAs(l, status) == \E i \in At(l, "closed") : IsLastClosing(l, i) /\ l[i].data.status = status

ObservedPass(r) == r.status = "passed" /\ r.observed

\* workers + artifacts + verificationReports + 1: the key of the next event.
NextSeq(l) == Cardinality(Firsts(l, "worker")) + Cardinality(Firsts(l, "artifact"))
              + Cardinality(Firsts(l, "report")) + 1

\* normalizeVerificationReport: no observation without exit codes.
Normalized(r) ==
    [id |-> r.id, status |-> r.status, observed |-> r.observed /\ r.evidence, sig |-> r.sig,
     at |-> r.at, by |-> "client"]

\* sandbox_verify worker of a verify: the one asked for, or any.
VerifierOf(l, agent) ==
    IF agent \in Workers(l) THEN agent
    ELSE IF Workers(l) \cap Verifiers # {} THEN CHOOSE a \in Workers(l) \cap Verifiers : TRUE
    ELSE NoAgent

\* The cards younger than every observed pass (reset on pass), by what their
\* createdAt says.
PriorCards(l) ==
    LET passes == {j \in Firsts(l, "report") : ObservedPass(l[j].data)}
    IN  {i \in At(l, "card") : \A j \in passes : l[j].data.at < l[i].data.at}

\* Mutant of Decide: the attempts are not counted.
DecideForever(l, sig, agent) ==
    IF agent \in Correctors THEN "retry" ELSE "require_human"
\* decideSelfCorrection.
Decide(l, sig, agent) ==
    IF Cardinality(PriorCards(l)) >= MaxAttempts THEN "require_human"
    ELSE IF \E i \in PriorCards(l) : l[i].data.sig = sig THEN "stop_same_error"
    ELSE IF agent \notin Correctors THEN "require_human"
    ELSE "retry"

\* deriveSkillCandidatesFromMission: keys 0 (the merge) and 1 (the fix).
SkillKeys(l) ==
    IF ~(ClosedAs(l, "merged") \/ \E m \in MergeItems(l) : m.status = "merged") THEN << >>
    ELSE IF /\ \E r \in Reports(l) : r.status = "failed"
            /\ \E r \in Reports(l) : ObservedPass(r)
         THEN <<0, 1>> ELSE <<0>>
-----------------------------------------------------------------------------
(* Requests and pushes.                                                    *)

\* The events of POST /missions for a team of workers.
CreateEvents(team) ==
    <<Ev("created", 0, [id |-> 0])>> \o [i \in DOMAIN team |-> Ev("worker", i, [id |-> team[i]])]

\* The process starts with a log that has no events of the mission, or those of
\* its creation.
Init ==
    /\ log \in {<< >>} \cup {CreateEvents(team) : team \in Teams}
    /\ unsaved = {} /\ queue = << >>
    /\ ops = [c \in Clients |-> Idle]
    /\ nonce = 0 /\ clock = 1 /\ merges = {} /\ answered = {} /\ passLost = FALSE
    /\ started = 0 /\ restarts = 0

\* A request begins.
Start(c) == /\ ops[c] = Idle
            /\ started < MaxOps
            /\ started' = started + 1

\* commit: the request waits for its push; then says what follows.  The ids of
\* the events it has made so far stay with it.
PushEvents(c, op, events, then) ==
    /\ queue' = Append(queue, [client |-> c, events |-> events, then |-> then])
    /\ ops' = [ops EXCEPT ![c] =
                 [op EXCEPT !.step = "store", !.made = @ \cup {events[i] : i \in DOMAIN events}]]

NewOp(kind, agent, item) ==
    [kind |-> kind, step |-> "run", seen |-> Len(log), made |-> {}, agent |-> agent, item |-> item]
Made(c, type) == CHOOSE e \in ops[c].made : e.type = type

\* What the request has read: a prefix of the events that are there now.
Seen(c) == SubSeq(log, 1, ops[c].seen)

\* Mutant of Fresh: the storage does not look for the id.
FreshAll(events) == events
\* The events of a push whose ids are free.
Fresh(events) ==
    [i \in DOMAIN events |-> IF EventId(events[i]) \in StoredIds THEN Gap ELSE events[i]]

\* Mutant of Complete: the rejections of the storage are not looked at.
CompleteAnyway(events) == TRUE
\* createServerMissionStore: one rejected event fails the request, although
\* the others are stored.
Complete(events) == Fresh(events) = events

\* The client is answered 2xx.
Answer(c) ==
    /\ answered' = answered \cup {[epoch |-> restarts, kind |-> ops[c].kind, events |-> ops[c].made]}
    /\ ops' = [ops EXCEPT ![c] = Idle]

\* The storage processes the head of its queue and saves it, or fails to.
Store ==
    /\ queue # << >>
    /\ LET p == Head(queue)  new == Fresh(p.events) IN
       /\ log' = log \o new
       /\ \E saved \in BOOLEAN :
             /\ ~saved => "write" \in Faults /\ \E i \in DOMAIN new : new[i].type # "gap"
             /\ unsaved' = IF saved THEN unsaved ELSE unsaved \cup (StoredIds' \ StoredIds)
             /\ IF ~saved \/ ~Complete(p.events)
                THEN ops' = [ops EXCEPT ![p.client] = Idle] /\ UNCHANGED answered
                ELSE IF p.then = "answer" THEN Answer(p.client)
                ELSE ops' = [ops EXCEPT ![p.client].step = p.then] /\ UNCHANGED answered
    /\ queue' = Tail(queue)
    /\ UNCHANGED <<nonce, clock, merges, passLost, started, restarts>>

\* POST /missions.
Create(c, team) ==
    /\ Start(c)
    /\ PushEvents(c, NewOp("create", NoAgent, NoItem), CreateEvents(team), "answer")
    /\ UNCHANGED <<log, unsaved, nonce, clock, merges, answered, passLost, restarts>>

\* POST /missions/:id/events: read the mission and push one event.
AppendEvent(c, type, data) ==
    /\ Start(c)
    /\ Exists(log)
    /\ PushEvents(c, NewOp("append", NoAgent, NoItem), <<Ev(type, NextSeq(log), data)>>, "answer")
    /\ UNCHANGED <<log, unsaved, nonce, clock, merges, answered, passLost, restarts>>

AppendWorker(c, agent) == AppendEvent(c, "worker", [id |-> agent])
AppendArtifact(c, artifact) == AppendEvent(c, "artifact", [id |-> artifact])
AppendReport(c, report) == AppendEvent(c, "report", Normalized(report))
AppendClosed(c, status) == AppendEvent(c, "closed", [status |-> status, item |-> NoItem])

\* A merge queue item needs an observed passed report to join the queue; it is
\* stored in the state the client gives it, even if that is "merged".
AppendQueued(c, item, status, report) ==
    /\ report \in Reports(log) /\ ObservedPass(report)
    /\ AppendEvent(c, "queued",
                   [id |-> item, status |-> status, report |-> report.id, by |-> "client"])

-----------------------------------------------------------------------------
(* verify.                                                                 *)

\* The mission is read and a verifier chosen; then the checkpoint and the
\* verification commands are awaited.
VerifyBegin(c, agent) ==
    /\ Start(c)
    /\ Exists(log)
    /\ VerifierOf(log, agent) # NoAgent
    /\ ops' = [ops EXCEPT ![c] = NewOp("verify", VerifierOf(log, agent), NoItem)]
    /\ UNCHANGED <<log, unsaved, queue, nonce, clock, merges, answered, passLost, restarts>>

NextNonce == nonce' = nonce + 1
\* now()
Now == clock' \in {clock, clock + 1} /\ clock' <= MaxClock

\* The runner reports; a blocked run observed nothing.  The key of the event is
\* counted from what was read before the run.
VerifyRun(c, status, sig) ==
    /\ ops[c].step = "run" /\ ops[c].kind = "verify"
    /\ NextNonce
    /\ Now
    /\ PushEvents(c, ops[c],
                  <<Ev("report", NextSeq(Seen(c)),
                       [id |-> <<"verify", nonce>>, status |-> status,
                        observed |-> status \in {"passed", "failed"}, sig |-> sig,
                        at |-> clock', by |-> "server"])>>,
                  IF status \in {"failed", "blocked"} THEN "react" ELSE "answer")
    /\ UNCHANGED <<log, unsaved, merges, answered, passLost, started, restarts>>

\* reactToVerification: the error card, named after the report ...
React(c) ==
    /\ ops[c].step = "react"
    /\ Now
    /\ LET report == Made(c, "report").data IN
       PushEvents(c, ops[c],
                  <<Ev("card", report.id[2],
                       [id |-> report.id, sig |-> report.sig, at |-> clock'])>>, "correct")
    /\ UNCHANGED <<log, unsaved, nonce, merges, answered, passLost, started, restarts>>

\* ... and the suggestion, decided from what was read before the run.
Correct(c) ==
    /\ ops[c].step = "correct"
    /\ LET card == Made(c, "card") IN
       PushEvents(c, ops[c],
                  <<Ev("correction", card.key,
                       [id |-> card.data.id, action |-> Decide(Seen(c), card.data.sig, ops[c].agent)])>>,
                  "answer")
    /\ UNCHANGED <<log, unsaved, nonce, clock, merges, answered, passLost, started, restarts>>

-----------------------------------------------------------------------------
(* merge.                                                                  *)

ItemSeen(c) == CHOOSE m \in MergeItems(Seen(c)) : m.id = ops[c].item

\* Mutant of MayMerge: the report of the item is not looked at again.
MayMergeQueued(l, m) == m.status # "merged"
\* The report the item requires must be there, observed and passed; an item
\* that is merged already is answered as it is.
MayMerge(l, m) ==
    /\ \E r \in Reports(l) : r.id = m.report /\ ObservedPass(r)
    /\ m.status # "merged"

MergeBegin(c, item) ==
    /\ Start(c)
    /\ \E m \in MergeItems(log) : m.id = item /\ MayMerge(log, m)
    /\ ops' = [ops EXCEPT ![c] = NewOp("merge", NoAgent, item)]
    /\ UNCHANGED <<log, unsaved, queue, nonce, clock, merges, answered, passLost, restarts>>

\* Mutant of Closing: the mission is closed whatever git said.
AlwaysClosing(seq, item, result) ==
    <<Ev("closed", seq, [status |-> "merged", item |-> item])>>
Closing(seq, item, result) ==
    IF result = "merged" THEN <<Ev("closed", seq, [status |-> "merged", item |-> item])>> ELSE << >>

\* executeMerge has run; the item is stored with its result.
MergeRun(c, result) ==
    /\ ops[c].step = "run" /\ ops[c].kind = "merge"
    /\ LET m == ItemSeen(c)
           seq == NextSeq(Seen(c)) + Cardinality(MergeItems(Seen(c)))
       IN
       /\ merges' = IF result # "merged" THEN merges
                    ELSE merges \cup {[item |-> m.id, report |-> m.report, epoch |-> restarts]}
       /\ PushEvents(c, ops[c],
                     <<Ev("queued", seq, [id |-> m.id, status |-> result, report |-> m.report,
                                         by |-> "server"])>>
                     \o Closing(seq + 1, m.id, result),
                     IF result = "merged" THEN "skills" ELSE "answer")
    /\ UNCHANGED <<log, unsaved, nonce, clock, answered, passLost, started, restarts>>

\* After a merge the skill candidates are derived from the mission as it is now.
Skills(c) ==
    /\ ops[c].step = "skills"
    /\ LET keys == SkillKeys(log) IN
       IF keys = << >> THEN Answer(c) /\ UNCHANGED queue
       ELSE /\ PushEvents(c, ops[c], [i \in DOMAIN keys |-> Ev("skill", keys[i], [id |-> keys[i]])],
                          "answer")
            /\ UNCHANGED answered
    /\ UNCHANGED <<log, unsaved, nonce, clock, merges, passLost, started, restarts>>

\* The checkpoint before a run could not be created (which ends a merge) or not
\* be stored (which ends a verify as well).
CheckpointFails(c) ==
    /\ ops[c].step = "run"
    /\ ops[c].kind = "merge" \/ "write" \in Faults
    /\ ops' = [ops EXCEPT ![c] = Idle]
    /\ UNCHANGED <<log, unsaved, queue, nonce, clock, merges, answered, passLost, started, restarts>>

\* The process dies and comes back with the events that were saved.
Crash ==
    /\ "crash" \in Faults /\ restarts < MaxRestarts
    /\ log' = [i \in DOMAIN log |-> IF EventId(log[i]) \in unsaved THEN Gap ELSE log[i]]
    /\ passLost' = (passLost \/ \E i \in At(log, "report") :
                      EventId(log[i]) \in unsaved /\ ObservedPass(log[i].data))
    /\ unsaved' = {} /\ queue' = << >>
    /\ ops' = [c \in Clients |-> Idle]
    /\ nonce' = 0
    /\ restarts' = restarts + 1
    /\ UNCHANGED <<clock, merges, answered, started>>

AppendOne(c) ==
    \/ \E agent \in Agents : AppendWorker(c, agent)
    \/ \E artifact \in Artifacts : AppendArtifact(c, artifact)
    \/ \E report \in ClientReports : AppendReport(c, report)
    \/ \E item \in Items, status \in ClientStatuses, report \in Reports(log) :
          AppendQueued(c, item, status, report)
    \/ \E status \in ClientClosings : AppendClosed(c, status)

Verify(c) ==
    \/ \E agent \in Agents \cup {NoAgent} : VerifyBegin(c, agent)
    \/ \E result \in RunResults : VerifyRun(c, result[1], result[2])
    \/ React(c) \/ Correct(c)

Merge(c) ==
    \/ \E item \in Items : MergeBegin(c, item)
    \/ \E result \in GitResults : MergeRun(c, result)
    \/ Skills(c)

Next ==
    \/ \E c \in Clients : \/ \E team \in Teams : Create(c, team)
                           \/ AppendOne(c) \/ Verify(c) \/ Merge(c) \/ CheckpointFails(c)
    \/ Store
    \/ Crash

Spec == Init /\ [][Next]_vars

-----------------------------------------------------------------------------
(* Properties.                                                             *)

Makers == {"server", "client"}
Report == [id : ReportIds, status : Statuses, observed : BOOLEAN, sig : Signatures \cup {NoError},
           at : Nat, by : Makers]
Data ==
    [created |-> [id : {0}], worker |-> [id : Agents], artifact |-> [id : Artifacts],
     report |-> Report, card |-> [id : ReportIds, sig : Signatures, at : Nat],
     correction |-> [id : ReportIds, action : {"retry", "stop_same_error", "require_human"}],
     queued |-> [id : Items, status : ItemStatuses, report : ReportIds, by : Makers],
     closed |-> [status : Closings, item : Items \cup {NoItem}], skill |-> [id : {0, 1}]]
IsEvent(e) == e.type \in DOMAIN Data /\ e.key \in Nat /\ e.data \in Data[e.type]
IsOp(op) == /\ op.kind \in {"create", "append", "verify", "merge"} /\ op.seen \in 0..Len(log)
            /\ op.step \in {"run", "store", "react", "correct", "skills"}
            /\ op.agent \in Agents \cup {NoAgent} /\ op.item \in Items \cup {NoItem}
            /\ \A e \in op.made : IsEvent(e)

\* The type of every variable; ids in the log are unique, and a request waits
\* for at most one push.
TypeOK ==
    /\ \A i \in Present : IsEvent(log[i])
    /\ \A i, j \in Present : EventId(log[i]) = EventId(log[j]) => i = j
    /\ unsaved \subseteq StoredIds
    /\ \A i \in DOMAIN queue : /\ queue[i].client \in Clients
                               /\ ops[queue[i].client].step = "store"
                               /\ queue[i].then \in {"answer", "react", "correct", "skills"}
                               /\ \A k \in DOMAIN queue[i].events : IsEvent(queue[i].events[k])
    /\ \A i, j \in DOMAIN queue : queue[i].client = queue[j].client => i = j
    /\ \A c \in Clients : ops[c] = Idle \/ IsOp(ops[c])
    /\ nonce \in Nat /\ clock \in Nat /\ passLost \in BOOLEAN
    /\ \A m \in merges : m.item \in Items /\ m.report \in ReportIds /\ m.epoch \in 0..restarts
    /\ \A a \in answered : a.epoch \in 0..restarts /\ \A e \in a.events : IsEvent(e)
    /\ started \in 0..MaxOps /\ restarts \in 0..MaxRestarts

\* A request is answered 2xx only if every event it made is stored, and then
\* they stay stored, through crashes too.
AnsweredIsStored ==
    \A a \in answered : \A e \in a.events : \E i \in DOMAIN log : log[i] = e

\* The reports of a verify are visible in the mission.
ShowsReports(a) == \A e \in a.events : e.type = "report" => e.data \in Reports(log)

\* missionStore.ts:71: report ids come from a monotonic nonce, so that they are
\* unique; hence a verify that was answered is visible, before or after a restart.
\* (A client that records a report of its own under such an id hides a verify as
\* well: VerifyIsShown of MissionStoreProofs names both ways.)
VerifyIsShownAlways == \A a \in answered : a.kind = "verify" => ShowsReports(a)

\* A report that is visible keeps its verdict while the process lives: nothing
\* appended later turns a failure into a pass or the reverse.
VerdictsAreFinal == [][restarts' = restarts => Reports(log) \subseteq Reports(log')]_vars

\* Git merges only on the strength of a visible report that passed and was
\* observed, whatever was appended or lost between the queueing, the read and
\* the merge.
MergesArePassed ==
    \A m \in merges : m.epoch = restarts =>
        \E r \in Reports(log) : r.id = m.report /\ ObservedPass(r)

\* No false success: what the server itself stores as merged, the item, the
\* closing or the skills learned, has been merged by git, for the item and the
\* report it names.  An item may also be "merged" because a client has stored it
\* so (AppendQueued); a request to merge it is then answered without a merge, and
\* stores nothing.
MergedIsReal ==
    \A i \in DOMAIN log :
        /\ log[i].type = "closed" /\ log[i].data.item # NoItem =>
              \E m \in merges : m.item = log[i].data.item
        /\ log[i].type = "queued" /\ log[i].data.by = "server" /\ log[i].data.status = "merged" =>
              \E m \in merges : m.item = log[i].data.id /\ m.report = log[i].data.report
        /\ log[i].type = "skill" => merges # {}

\* selfCorrection.ts:4: no infinite loop.  Of the failures that are younger than
\* every observed pass at most MaxAttempts are answered with a retry, and one more
\* for every other request that had read the mission before the limit was reached.
\* The age is the code's, that of the createdAt strings: a pass that a client
\* stamps with a time to come hides all failures until then, and nothing bounds
\* their retries; one that it stamps with an old time resets nothing.
Retries ==
    LET since == {log[j].key : j \in PriorCards(log)}
    IN  {i \in At(log, "correction") : log[i].data.action = "retry" /\ log[i].key \in since}
RetriesAreBounded ==
    passLost \/ Cardinality(Retries) <= MaxAttempts + Cardinality(Clients) - 1

\* missionStore.ts:727-728: the mission is closed as merged only if its item was
\* merged; so a mission closed by a merge shows the merged item.
ClosedShowsMerge ==
    \A i \in At(log, "closed") : log[i].data.item # NoItem =>
        \E m \in MergeItems(log) : m.id = log[i].data.item /\ m.status = "merged"
=============================================================================

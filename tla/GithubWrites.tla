---------------------------- MODULE GithubWrites ----------------------------
(***************************************************************************)
(* The server writes to GitHub in two requests.  The first one makes a     *)
(* plan: it reads what is there, shows what would be changed and keeps the *)
(* plan for ten minutes.  Once a human has approved, the second executes   *)
(* it: it reads again, claims the plan, sends one write, and remembers the *)
(* plan as observed if GitHub confirms it.  Six kinds of plans exist; a    *)
(* commit of several files has no plan and is guarded by the head its      *)
(* client saw.  Plans, claims and observations are in memory only.         *)
(*                                                                         *)
(* Abstractions.  Every plan is about the same issue, branch, file and     *)
(* pull request, so that plans collide.  A branch is the sequence of its   *)
(* commits, and a commit the version of the file it leaves: two branches   *)
(* have the same sha iff their sequences are equal.  Texts, label sets and *)
(* files are version numbers.  Plans are made in one step: each of the     *)
(* reads of a plan is repeated by its execution, and reads of different    *)
(* things commute with the changes of the others.  The hashes a client     *)
(* repeats, the allowlists and the secret scan only refuse a request.      *)
(***************************************************************************)
EXTENDS Integers, Sequences, SequencesExt, FiniteSets

CONSTANTS
    Callers, Plans,
    Groups,                 \* a bound: the kinds of writes that one run asks for
                            \* are all in one of these sets
    NoPlan,                 \* a plan that has not been made
    Faults,                 \* the failures the environment may inject
    MaxChanges, MaxCalls, MaxFaults   \* bounds of a run

AllKinds == {"comment", "branch", "file", "pr", "text", "labels", "commit"}

ASSUME GroupsAssumption == Groups \subseteq SUBSET AllKinds
ASSUME FaultsAssumption == Faults \subseteq {"error", "lost", "restart"}
ASSUME BoundsAssumption == {MaxChanges, MaxCalls, MaxFaults} \subseteq Nat

Commit == [id : Nat, blob : Nat]
Repository == [issue : BOOLEAN,        \* the issue to comment on exists
               main : Seq(Commit),     \* the branch that others start from
               target : Seq(Commit),   \* the branch to create
               branch : Seq(Commit),   \* the branch to change, and to merge
               pr : BOOLEAN,           \* a pull request for branch is open
               pull : BOOLEAN,         \* the pull request to edit is open
               text : Nat, labels : Nat]

PlanRecord == [kind : AllKinds, saw : Repository, new : Nat]
Op == [step : {"approval", "check", "build", "sent", "applied", "refused"}, p : Plans, n : 1..3]

ASSUME CallersAssumption == IsFiniteSet(Callers)
ASSUME NoPlanAssumption == NoPlan \notin PlanRecord

VARIABLES
    gh,          \* the repository at GitHub
    fresh,       \* the last version number in use
    plan,        \* what a plan id stands for: its kind, what it saw, what it writes
    records,     \* records of the plan stores
    inFlight, observed,     \* the claims and the observations of the plan stores
    op,          \* caller -> the execute request it waits for
    strays,      \* writes of a plan that were given up and may yet arrive
    told,        \* history: plans that were answered as observed
    count,       \* history: how often GitHub has applied the write of a plan
    standing,    \* history: plans whose write nobody has undone since
    lost,        \* history: how often the answer to a write of it was lost
    changes, calls, faults

stores == <<plan, records, inFlight, observed>>
remote == <<gh, fresh, strays, count, standing>>
vars == <<gh, fresh, stores, op, strays, told, count, standing, lost, changes, calls, faults>>

Idle == [step |-> "idle"]
Absent == << >>
Kind(p) == plan[p].kind
Saw(p) == plan[p].saw
Made == {p \in Plans : plan[p] # NoPlan}
Planned == {p \in Made : Kind(p) # "commit"}

\* The version of the file on a branch; 0 if it is not there.
Blob(branch) == IF branch = Absent THEN 0 ELSE Last(branch).blob
Ahead(branch, main) == ~IsPrefix(branch, main)

\* put and get of a store first drop its plans whose ten minutes are over, be
\* they being executed or not.
Pruned(kind) == {records \ gone : gone \in SUBSET {p \in records : Kind(p) = kind}}

-----------------------------------------------------------------------------
\* What is written is new, or what it was at first, or what some plan writes:
\* nothing keeps a plan from restoring an earlier version.
Versions == {1, fresh + 1} \cup {plan[p].new : p \in Made}
Contents(kind) == IF kind \in {"file", "text", "labels", "commit"} THEN Versions ELSE {1}

\* A plan of each kind is made only if its write would make sense now, and
\* would change what is there.  For a comment on an issue the issues are listed,
\* which says nothing of this one; a comment on a pull request reads that one,
\* and is otherwise the same.
BranchPlan == gh.main # Absent /\ gh.target = Absent
FilePlan(new) == gh.branch # Absent /\ new # Blob(gh.branch)
PrPlan == gh.branch # Absent /\ gh.main # Absent /\ Ahead(gh.branch, gh.main)
TextPlan(new) == gh.pull /\ new # gh.text
LabelsPlan(new) == gh.pull /\ new # gh.labels
CommitRequest == gh.branch # Absent

Plannable(kind, new) ==
    CASE kind = "comment" -> TRUE
      [] kind = "branch" -> BranchPlan
      [] kind = "file" -> FilePlan(new)
      [] kind = "pr" -> PrPlan
      [] kind = "text" -> TextPlan(new)
      [] kind = "labels" -> LabelsPlan(new)
      [] kind = "commit" -> CommitRequest

\* What an execution reads again before it writes: the n-th GET, and whether
\* the execution goes on.
BranchCheck(p, n) == IF n = 1 THEN gh.main = Saw(p).main ELSE gh.target = Absent
FileCheck(p, n) == IF n = 1 THEN gh.branch # Absent ELSE Blob(gh.branch) = Blob(Saw(p).branch)
PrCheck(p, n) == IF n = 1 THEN gh.branch = Saw(p).branch
                 ELSE IF n = 2 THEN gh.main = Saw(p).main
                 ELSE Ahead(gh.branch, gh.main)
TextCheck(p, n) == gh.pull /\ gh.text = Saw(p).text
LabelsCheck(p, n) == IF n = 1 THEN gh.pull ELSE gh.labels = Saw(p).labels
CommitCheck(p, n) == gh.branch = Saw(p).branch

Reads(kind) == CASE kind \in {"comment", "text", "commit"} -> 1
                 [] kind \in {"branch", "file", "labels"} -> 2
                 [] kind = "pr" -> 3

Passes(p, n) ==
    LET kind == Kind(p) IN
    CASE kind = "comment" -> TRUE
      [] kind = "branch" -> BranchCheck(p, n)
      [] kind = "file" -> FileCheck(p, n)
      [] kind = "pr" -> PrCheck(p, n)
      [] kind = "text" -> TextCheck(p, n)
      [] kind = "labels" -> LabelsCheck(p, n)
      [] kind = "commit" -> CommitCheck(p, n)

\* The write of each kind: whether GitHub takes it, and what it leaves.  The
\* id of a new commit is fresh + 1.
NewCommit(p) == [id |-> fresh + 1, blob |-> plan[p].new]

CommentTaken == gh.issue
CommentWrite == gh

BranchTaken == gh.target = Absent
BranchWrite(p) == [gh EXCEPT !.target = Saw(p).main]

\* Mutant of FileTaken: the file is written without the sha it must have.
FileTakenBlindly(p) == gh.branch # Absent
FileTaken(p) == gh.branch # Absent /\ Blob(gh.branch) = Blob(Saw(p).branch)
FileWrite(p) == [gh EXCEPT !.branch = Append(gh.branch, NewCommit(p))]

PrTaken == /\ ~gh.pr /\ gh.branch # Absent /\ gh.main # Absent
           /\ Ahead(gh.branch, gh.main)
PrWrite == [gh EXCEPT !.pr = TRUE]

\* PATCH of title and body, and PUT of the labels, are not conditional.
TextWrite(p) == [gh EXCEPT !.text = plan[p].new]
LabelsWrite(p) == [gh EXCEPT !.labels = plan[p].new]

\* The commit's parent is the head the client saw; without force a branch
\* only moves to a commit that follows its head.
CommitBuilt(p) == Append(Saw(p).branch, NewCommit(p))
\* Mutant of CommitTaken: the ref is updated with force.
CommitForced(p) == gh.branch # Absent
CommitTaken(p) == gh.branch # Absent /\ IsPrefix(gh.branch, CommitBuilt(p))
CommitWrite(p) == [gh EXCEPT !.branch = CommitBuilt(p)]

Taken(p) ==
    LET kind == Kind(p) IN
    CASE kind = "comment" -> CommentTaken
      [] kind = "branch" -> BranchTaken
      [] kind = "file" -> FileTaken(p)
      [] kind = "pr" -> PrTaken
      [] kind \in {"text", "labels"} -> TRUE
      [] kind = "commit" -> CommitTaken(p)

Written(p) ==
    LET kind == Kind(p) IN
    CASE kind = "comment" -> CommentWrite
      [] kind = "branch" -> BranchWrite(p)
      [] kind = "file" -> FileWrite(p)
      [] kind = "pr" -> PrWrite
      [] kind = "text" -> TextWrite(p)
      [] kind = "labels" -> LabelsWrite(p)
      [] kind = "commit" -> CommitWrite(p)

-----------------------------------------------------------------------------
\* The repository before anybody touches it; the branch is one commit ahead.
InitCommit == [id |-> 1, blob |-> 1]
Start == [issue |-> TRUE, main |-> <<InitCommit>>, target |-> Absent,
          branch |-> <<InitCommit, [id |-> 2, blob |-> 1]>>,
          pr |-> FALSE, pull |-> TRUE, text |-> 1, labels |-> 1]

Init ==
    /\ gh = Start /\ fresh = 2
    /\ plan = [p \in Plans |-> NoPlan]
    /\ records = {} /\ inFlight = {} /\ observed = {}
    /\ op = [c \in Callers |-> Idle]
    /\ strays = [p \in Plans |-> 0] /\ told = {}
    /\ count = [p \in Plans |-> 0] /\ standing = {} /\ lost = [p \in Plans |-> 0]
    /\ changes = 0 /\ calls = 0 /\ faults = 0

\* handle...Plan of a kind; the request for a commit of several files is made
\* by the client, who saw the head, and needs no store.
Plan(p, kind) ==
    /\ plan[p] = NoPlan
    /\ \E group \in Groups : {kind} \cup {Kind(q) : q \in Made} \subseteq group
    /\ \E new \in Contents(kind) :
          /\ Plannable(kind, new)
          /\ plan' = [plan EXCEPT ![p] = [kind |-> kind, saw |-> gh, new |-> new]]
          /\ fresh' = IF new = fresh + 1 THEN new ELSE fresh
    /\ IF kind = "commit" THEN UNCHANGED records
       ELSE \E kept \in Pruned(kind) : records' = kept \cup {p}
    /\ UNCHANGED <<gh, inFlight, observed, op, strays, told, count, standing, lost,
                   changes, calls, faults>>

\* An execute request arrives and runs up to its first await: an observed plan
\* is answered from the cache, an unknown plan and a request whose hashes or
\* gates do not fit are refused.
Execute(c, p) ==
    /\ op[c] = Idle /\ p \in Made /\ calls < MaxCalls
    /\ calls' = calls + 1
    /\ records' \in Pruned(Kind(p))
    /\ \/ UNCHANGED <<op, told>>
       \/ /\ p \in records' /\ p \in observed
          /\ told' = told \cup {p} /\ UNCHANGED op
       \/ /\ p \in records' \ observed \/ Kind(p) = "commit"
          /\ op' = [op EXCEPT ![c] = [step |-> "approval", p |-> p, n |-> 1]]
          /\ UNCHANGED told
    /\ UNCHANGED <<remote, plan, inFlight, observed, lost, changes, faults>>

Finish(c) == op' = [op EXCEPT ![c] = Idle]
Goto(c, step) == op' = [op EXCEPT ![c].step = step]

\* verifyApproval finds the approval the client names granted, or does not;
\* a comment may also go on a recent mark of the client that it is armed.
Verify(c) ==
    /\ op[c].step = "approval"
    /\ Goto(c, "check") \/ Finish(c)
    /\ UNCHANGED <<remote, stores, told, lost, changes, calls, faults>>

\* Mutant of TryClaim: a claim is only refused once the plan is observed.
ClaimTwice(p) == p \notin observed
\* tryClaim.
TryClaim(p) == p \notin inFlight /\ p \notin observed

\* Mutant of LastRead: one read too many.
OneReadMore(c) == op[c].n = Reads(Kind(op[c].p)) + 1
LastRead(c) == op[c].n = Reads(Kind(op[c].p))

\* The plan is claimed and its write sent, without an await in between.
Claimed(c, p) ==
    IF TryClaim(p) THEN inFlight' = inFlight \cup {p} /\ Goto(c, "sent")
    ELSE Finish(c) /\ UNCHANGED inFlight

\* A GET of an execution is answered.
Check(c) ==
    /\ op[c].step = "check"
    /\ LET p == op[c].p IN
       \/ ~Passes(p, op[c].n) /\ Finish(c) /\ UNCHANGED inFlight
       \/ Passes(p, op[c].n) /\ ~LastRead(c)
          /\ op' = [op EXCEPT ![c].n = @ + 1] /\ UNCHANGED inFlight
       \/ Passes(p, op[c].n) /\ LastRead(c)
          /\ IF Kind(p) = "commit" THEN Goto(c, "build") /\ UNCHANGED inFlight ELSE Claimed(c, p)
    /\ UNCHANGED <<remote, plan, records, observed, told, lost, changes, calls, faults>>

\* Tree, blobs, the new tree and the commit are in the repository, where
\* nothing refers to them; the update of the ref is sent.
Build(c) ==
    /\ op[c].step = "build" /\ Goto(c, "sent")
    /\ UNCHANGED <<remote, stores, told, lost, changes, calls, faults>>

\* The write of p gives the file back the version that q was made from.
Restores(p, q) == /\ Kind(p) \in {"file", "commit"} /\ Kind(q) = "file"
                  /\ plan[p].new = Blob(Saw(q).branch)
\* GitHub applies a write, or refuses it.
Apply(p) ==
    /\ gh' = Written(p) /\ fresh' = fresh + 1
    /\ count' = [count EXCEPT ![p] = @ + 1]
    /\ standing' = {q \in standing : ~Restores(p, q)} \cup {p}
Receive(c) ==
    /\ op[c].step = "sent"
    /\ IF Taken(op[c].p) THEN Apply(op[c].p) /\ Goto(c, "applied")
       ELSE Goto(c, "refused") /\ UNCHANGED <<gh, fresh, count, standing>>
    /\ UNCHANGED <<stores, strays, told, lost, changes, calls, faults>>

\* Mutant of Release: the claim outlives a failed write.
KeepClaim(p) == UNCHANGED inFlight
\* release.
Release(p) == inFlight' = inFlight \ {p}

\* markCreated and markUpdated.  The stores of comments and branches do
\* nothing if the plan was pruned meanwhile: it stays claimed.
Mark(p) ==
    IF Kind(p) \in {"comment", "branch"} /\ p \notin records THEN UNCHANGED <<observed, inFlight>>
    ELSE observed' = observed \cup {p} /\ Release(p)

\* GitHub confirms the write.
Confirm(c) ==
    /\ op[c].step = "applied" /\ Finish(c)
    /\ told' = told \cup {op[c].p}
    /\ IF Kind(op[c].p) = "commit" THEN UNCHANGED <<observed, inFlight>> ELSE Mark(op[c].p)
    /\ UNCHANGED <<remote, plan, records, lost, changes, calls, faults>>

\* Mutant of AnswerRefused: what is there already is taken for the plan's.
RefusedIsObserved(p) == told' = told \cup {p}
\* 404, 409 and 422 are answered as blocked, already_exists or head_mismatch.
AnswerRefused(p) == UNCHANGED told
Refuse(c) ==
    /\ op[c].step = "refused" /\ Finish(c)
    /\ AnswerRefused(op[c].p) /\ Release(op[c].p)
    /\ UNCHANGED <<remote, plan, records, observed, lost, changes, calls, faults>>

-----------------------------------------------------------------------------
Fault(kind) == kind \in Faults /\ faults < MaxFaults /\ faults' = faults + 1

\* A call fails and has had no effect, which may happen any number of times.
Fail(c) ==
    /\ "error" \in Faults /\ op[c].step \in {"check", "build", "sent"} /\ Finish(c)
    /\ IF op[c].step = "sent" THEN Release(op[c].p) ELSE UNCHANGED inFlight
    /\ UNCHANGED <<remote, plan, records, observed, told, lost, changes, calls, faults>>

\* The answer to a write never comes, or cannot be read; GitHub may have
\* applied it, or have it still on its way.
Lose(c) ==
    /\ Fault("lost") /\ op[c].step \in {"sent", "applied"} /\ Finish(c)
    /\ Release(op[c].p)
    /\ lost' = [lost EXCEPT ![op[c].p] = @ + 1]
    /\ strays' = IF op[c].step = "sent" THEN [strays EXCEPT ![op[c].p] = @ + 1] ELSE strays
    /\ UNCHANGED <<gh, fresh, count, standing, plan, records, observed, told, changes, calls>>

\* A write that was given up reaches GitHub.
Arrive(p) ==
    /\ strays[p] > 0 /\ strays' = [strays EXCEPT ![p] = @ - 1]
    /\ IF Taken(p) THEN Apply(p) ELSE UNCHANGED <<gh, fresh, count, standing>>
    /\ UNCHANGED <<stores, op, told, lost, changes, calls, faults>>

\* The server is replaced by one that knows no plans, while it knows some or
\* executes one; its writes may be on their way.
Senders(p, steps) == {c \in Callers : op[c].step \in steps /\ op[c].p = p}
Restart ==
    /\ Fault("restart") /\ (records # {} \/ \E c \in Callers : op[c] # Idle)
    /\ records' = {} /\ inFlight' = {} /\ observed' = {}
    /\ op' = [c \in Callers |-> Idle]
    /\ strays' = [p \in Plans |-> strays[p] + Cardinality(Senders(p, {"sent"}))]
    /\ lost' = [p \in Plans |-> lost[p] + Cardinality(Senders(p, {"sent", "applied"}))]
    /\ UNCHANGED <<gh, fresh, count, standing, plan, told, changes, calls>>

\* Somebody else works in the repository: on what some plan is about.
Concerns(kinds) == \E p \in Made : Kind(p) \in kinds
Change(new) ==
    /\ changes < MaxChanges /\ changes' = changes + 1
    /\ gh' = new /\ new # gh /\ standing' = {}
    /\ UNCHANGED <<stores, op, strays, count, told, lost, calls, faults>>
Pushed(branch, blob) == Append(branch, [id |-> fresh + 1, blob |-> blob])

ChangeIssue == Concerns({"comment"}) /\ Change([gh EXCEPT !.issue = ~@]) /\ UNCHANGED fresh
ChangeMain == /\ Concerns({"branch", "pr"}) /\ fresh' = fresh + 1
              /\ Change([gh EXCEPT !.main = Pushed(@, 1)])
ChangeTarget == /\ Concerns({"branch"}) /\ UNCHANGED fresh
                /\ \E b \in {Absent, gh.main} : Change([gh EXCEPT !.target = b])
\* A push changes the file, to something new or back, or leaves it; a reset drops the last commits, or
\* all of them with the branch.
PushBranch == /\ Concerns({"file", "pr", "commit"}) /\ gh.branch # Absent /\ fresh' = fresh + 1
              /\ \E blob \in Versions \cup {Blob(gh.branch)} :
                    Change([gh EXCEPT !.branch = Pushed(@, blob)])
ResetBranch == /\ Concerns({"file", "pr", "commit"}) /\ UNCHANGED fresh
               /\ \E n \in 0..(Len(gh.branch) - 1) :
                     Change([gh EXCEPT !.branch = SubSeq(@, 1, n)])
ChangePr == Concerns({"pr"}) /\ Change([gh EXCEPT !.pr = ~@]) /\ UNCHANGED fresh
ChangePull == Concerns({"text", "labels"}) /\ Change([gh EXCEPT !.pull = ~@]) /\ UNCHANGED fresh
ChangeText == /\ Concerns({"text"}) /\ fresh' = fresh + 1
              /\ \E v \in Versions : Change([gh EXCEPT !.text = v])
ChangeLabels == /\ Concerns({"labels"}) /\ fresh' = fresh + 1
                /\ \E v \in Versions : Change([gh EXCEPT !.labels = v])

Others == \/ ChangeIssue \/ ChangeMain \/ ChangeTarget \/ PushBranch \/ ResetBranch
          \/ ChangePr \/ ChangePull \/ ChangeText \/ ChangeLabels

CallerStep(c) == Verify(c) \/ Check(c) \/ Build(c) \/ Receive(c) \/ Confirm(c) \/ Refuse(c)

Next ==
    \/ \E p \in Plans : \/ \E kind \in AllKinds : Plan(p, kind)
                        \/ Arrive(p)
    \/ \E c \in Callers : \/ \E p \in Plans : Execute(c, p)
                          \/ CallerStep(c) \/ Fail(c) \/ Lose(c)
    \/ Restart
    \/ Others

Spec == Init /\ [][Next]_vars

-----------------------------------------------------------------------------
(* Properties *)

\* Every variable has its type.
TypeOK ==
    /\ gh \in Repository /\ fresh \in Nat
    /\ plan \in [Plans -> PlanRecord \cup {NoPlan}]
    /\ records \subseteq Planned /\ inFlight \subseteq Planned /\ observed \subseteq Planned
    /\ strays \in [Plans -> Nat] /\ {p \in Plans : strays[p] > 0} \subseteq Made
    /\ told \subseteq Made /\ standing \subseteq Made
    /\ op \in [Callers -> Op \cup {Idle}]
    /\ \A c \in Callers : op[c] # Idle => /\ op[c].p \in Made
                                         /\ op[c].n <= Reads(Kind(op[c].p))
    /\ count \in [Plans -> Nat] /\ lost \in [Plans -> Nat]
    /\ changes \in 0..MaxChanges /\ calls \in 0..MaxCalls /\ faults \in 0..MaxFaults

\* The write of a plan takes effect a second time only if the answer to an
\* earlier one was lost: whoever executes a plan, how often, and at what
\* moment, a plan whose answers arrive is written once.
OncePerPlan == \A p \in Planned : count[p] <= 1 + lost[p]

\* What GitHub itself can refuse is not written again even if answers are lost,
\* requests arrive late or the server restarts: not unless, since it was written
\* last, somebody else has changed the repository, or another plan has given the
\* file back the version that this one was made from.
RepeatsNeedUndoing ==
    [][\A p \in standing :
          Kind(p) \in {"branch", "file", "pr", "commit"} => count'[p] = count[p]]_vars

\* A write that GitHub applies replaces what its plan was made from and its
\* approver was shown, however long ago that was: a branch and a pull request
\* are not there yet, the file has the version that the plan saw, and a branch
\* never loses a commit to it.
Harmless(p) ==
    CASE Kind(p) = "branch" -> gh.target = Absent /\ gh'.target = Saw(p).main
      [] Kind(p) = "file" -> /\ Blob(gh.branch) = Blob(Saw(p).branch)
                             /\ IsPrefix(gh.branch, gh'.branch)
      [] Kind(p) = "commit" -> IsPrefix(gh.branch, gh'.branch) /\ IsPrefix(Saw(p).branch, gh'.branch)
      [] Kind(p) = "pr" -> ~gh.pr
      [] OTHER -> TRUE
NothingOverwritten == [][\A p \in Plans : count'[p] # count[p] => Harmless(p)]_vars

\* Nobody is told that a plan was observed, and no store believes it, unless
\* GitHub has applied its write.
ObservedIsWritten == told \cup observed \subseteq {p \in Plans : count[p] > 0}

\* A claim does not outlive its execution, unless the plan was dropped while
\* it was written: whoever still finds a plan can execute it or learns that it
\* was written.
ClaimsEnd ==
    \A p \in inFlight : p \notin records \/ Senders(p, {"sent", "applied", "refused"}) # {}
=============================================================================

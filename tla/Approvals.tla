------------------------------ MODULE Approvals -----------------------------
(***************************************************************************)
(* Commands for a tmux pane wait for a human.  POST /tmux/dispatch asks    *)
(* for an approval, or claims one; POST /approvals/grant and /reject       *)
(* decide it; POST /approvals/replay dispatches what was approved.  An     *)
(* approval is not kept anywhere: it is derived from the events of the     *)
(* event storage whenever it is needed, sometimes while those events are   *)
(* still being written to the log.                                         *)
(*                                                                         *)
(* Abstractions.  A command stands for the fields a claim is compared      *)
(* with.  Of the events only the requests and the decisions matter here.   *)
(* The id of a request event is fixed by the approval, so the storage      *)
(* keeps the first one and refuses any later one; the ids of decisions     *)
(* hold their time, so nothing but the queue keeps two of them apart.      *)
(* Execution of commands is enabled on the server.                         *)
(***************************************************************************)
EXTENDS Integers, Sequences, FiniteSets

CONSTANTS
    Clients, Ids, Commands,
    NoCommand,                  \* no request under an id
    Faults,                     \* the failures the environment may inject
    MaxRequests, MaxRestarts    \* bounds of a run

ASSUME CommandsAssumption == NoCommand \notin Commands
ASSUME FaultsAssumption == Faults \subseteq {"write", "secret", "crash"}
ASSUME BoundsAssumption == MaxRequests \in Nat /\ MaxRestarts \in Nat

States == {"approved", "rejected"}
Decision == [id : Ids, state : States]
Answer == [id : Ids, state : States, stored : BOOLEAN]

VARIABLES
    requested,   \* id -> the command of its approval.requested event
    decisions,   \* the approval.granted and approval.rejected events
    savedRequests, savedDecisions,  \* those of them that the log on disk holds
    late,        \* ids whose request has expired
    queue,       \* clients whose task waits for the storage; the head runs
    stage,       \* what the head's task is writing, once it has been stored
    op,          \* client -> the HTTP request it waits for
    sent,        \* the commands that were sent to a pane: [id, cmd]
    judged,      \* history: the commands a human was shown and approved
    told,        \* history: decisions answered 200, stored or refused by the storage
    failed,      \* history: ids of which an event could not be saved
    requests, restarts

memory == <<requested, decisions>>
disk == <<savedRequests, savedDecisions>>
history == <<judged, told, failed>>
vars == <<memory, disk, late, queue, stage, op, sent, history, requests, restarts>>

Idle == [step |-> "idle"]
Dispatching == [step : {"request", "allowed", "denied", "send", "record"},
                id : Ids, cmd : Commands]
Deciding == [step : {"decide"}, id : Ids, state : States, inTime : BOOLEAN]

Grant(id) == [id |-> id, state |-> "approved"]
Decided(id) == \E d \in decisions : d.id = id
Queued == {queue[i] : i \in DOMAIN queue}

\* The decision a deciding operation asks for, and the status it is answered with.
Asked(o) == [id |-> o.id, state |-> o.state]
Told(o, stored) == [id |-> o.id, state |-> o.state, stored |-> stored]

\* evaluateServerTmuxDispatchPermission: the approval is granted, and for the
\* very command that asks.
Matches(id, cmd) == Grant(id) \in decisions /\ requested[id] = cmd

-----------------------------------------------------------------------------
Init ==
    /\ requested = [id \in Ids |-> NoCommand] /\ decisions = {}
    /\ savedRequests = [id \in Ids |-> NoCommand] /\ savedDecisions = {}
    /\ late = {} /\ queue = << >> /\ stage = "none"
    /\ op = [c \in Clients |-> Idle]
    /\ sent = {} /\ judged = {} /\ told = {} /\ failed = {}
    /\ requests = 0 /\ restarts = 0

Arrive(c) ==
    /\ op[c] = Idle /\ requests < MaxRequests
    /\ requests' = requests + 1

\* The task of client c, or its next one, enters the queue.
Push(c, o) ==
    /\ op' = [op EXCEPT ![c] = o]
    /\ queue' = Append(queue, c)

\* Mutant of Evaluated: a command is sent once it is allowed, and its intent
\* recorded on the side.
EvaluatedAtOnce(c, o) ==
    IF o.step = "allowed" THEN op' = [op EXCEPT ![c] = [o EXCEPT !.step = "send"]] /\ UNCHANGED queue
    ELSE Push(c, o)
\* The verdict is recorded before it has any effect.
Evaluated(c, o) == Push(c, o)

\* recordServerTmuxDispatchToPersistentServerStorage up to its first write:
\* the verdict is taken from memory.
Dispatch(c, id, cmd, claimed) ==
    /\ Arrive(c)
    /\ Evaluated(c, [step |-> IF ~claimed THEN "request"
                              ELSE IF Matches(id, cmd) THEN "allowed" ELSE "denied",
                     id |-> id, cmd |-> cmd])
    /\ UNCHANGED <<memory, disk, late, stage, sent, history, restarts>>

\* replayApprovedRequestFromPersistentServerStorage: it dispatches the stored
\* command.  It first waits for the tasks that are queued; all that matters
\* here is the moment it reads.  409 if the approval is not granted.
Replay(c, id) ==
    /\ requested[id] # NoCommand /\ Grant(id) \in decisions
    /\ Dispatch(c, id, requested[id], TRUE)

\* decideApprovalInPersistentServerStorage; now is read before it is queued.
Decide(c, id, state) ==
    /\ Arrive(c)
    /\ Push(c, [step |-> "decide", id |-> id, state |-> state, inTime |-> id \notin late])
    /\ UNCHANGED <<memory, disk, late, stage, sent, history, restarts>>

\* expiresAt of a request passes.
Lapse(id) ==
    /\ requested[id] # NoCommand /\ id \notin late
    /\ late' = late \cup {id}
    /\ UNCHANGED <<memory, disk, queue, stage, op, sent, history, requests, restarts>>

-----------------------------------------------------------------------------
(* The tasks of the storage queue.                                         *)

\* Mutant of Pending: decided or not, the approval takes a decision.
PendingAlways(o) == requested[o.id] # NoCommand /\ o.inTime
\* The approval exists and its state is "required".
Pending(o) == requested[o.id] # NoCommand /\ o.inTime /\ ~Decided(o.id)

\* A push is stored; its request is new unless the id has one.  (A push all of
\* whose events are refused writes nothing; here it may still fail.)
RunPush ==
    /\ queue # << >> /\ stage = "none"
    /\ LET o == op[Head(queue)] IN
       /\ o.step # "decide"
       /\ IF o.step = "request" /\ requested[o.id] = NoCommand
          THEN /\ requested' = [requested EXCEPT ![o.id] = o.cmd]
               /\ late' = late \ {o.id}
               /\ stage' = "new"
          ELSE stage' = "other" /\ UNCHANGED <<requested, late>>
    /\ UNCHANGED <<decisions, disk, queue, op, sent, history, requests, restarts>>

\* A decision is stored.
RunDecide ==
    /\ queue # << >> /\ stage = "none"
    /\ LET o == op[Head(queue)] IN
       /\ o.step = "decide" /\ Pending(o)
       /\ decisions' = decisions \cup {Asked(o)}
       /\ judged' = IF o.state = "approved"
                    THEN judged \cup {[id |-> o.id, cmd |-> requested[o.id]]} ELSE judged
    /\ stage' = "new"
    /\ UNCHANGED <<requested, disk, late, queue, op, sent, told, failed, requests, restarts>>

\* Nothing can be decided: 404 if the approval is not there, 409 if it is not
\* pending.
RefuseDecide ==
    /\ queue # << >> /\ stage = "none"
    /\ LET o == op[Head(queue)] IN o.step = "decide" /\ ~Pending(o)
    /\ op' = [op EXCEPT ![Head(queue)] = Idle]
    /\ queue' = Tail(queue)
    /\ UNCHANGED <<memory, disk, late, stage, sent, history, requests, restarts>>

\* The storage refuses the event, whose reason looks like a secret.  Its
\* response is not looked at: the operator is answered 200 with the status
\* asked for, although the approval remains "required".
DropDecision ==
    /\ "secret" \in Faults
    /\ queue # << >> /\ stage = "none"
    /\ LET o == op[Head(queue)] IN
       /\ o.step = "decide" /\ Pending(o)
       /\ told' = told \cup {Told(o, FALSE)}
       /\ op' = [op EXCEPT ![Head(queue)] = Idle]
    /\ queue' = Tail(queue)
    /\ UNCHANGED <<memory, disk, late, stage, sent, judged, failed, requests, restarts>>

\* Mutant of AfterPush: the outcome of the push is not waited for any more.
AfterPushLost(o) == o
\* What follows a push that was saved: an allowed command is sent, anything
\* else is answered.
AfterPush(o) == IF o.step = "allowed" THEN [o EXCEPT !.step = "send"] ELSE Idle

\* The head's write has come back, and its task is done.
Saved ==
    /\ stage # "none"
    /\ LET c == Head(queue)  o == op[c] IN
       IF o.step = "decide"
       THEN /\ savedDecisions' = savedDecisions \cup {Asked(o)}
            /\ told' = told \cup {Told(o, TRUE)}
            /\ op' = [op EXCEPT ![c] = Idle]
            /\ UNCHANGED savedRequests
       ELSE /\ savedRequests' =
                  IF stage = "new" THEN [savedRequests EXCEPT ![o.id] = o.cmd] ELSE savedRequests
            /\ op' = [op EXCEPT ![c] = AfterPush(o)]
            /\ UNCHANGED <<savedDecisions, told>>
    /\ queue' = Tail(queue) /\ stage' = "none"
    /\ UNCHANGED <<memory, late, sent, judged, failed, requests, restarts>>

\* Mutant of Answered: the client is told of a decision that was not saved.
AnsweredAnyway(o) == IF o.step = "decide" THEN {Told(o, TRUE)} ELSE {}
\* A failed write is answered with 500.
Answered(o) == {}

\* The head's write fails; what it stored stays in memory.
NotSaved ==
    /\ "write" \in Faults /\ stage # "none"
    /\ LET c == Head(queue) IN
       /\ failed' = IF stage = "new" THEN failed \cup {op[c].id} ELSE failed
       /\ told' = told \cup Answered(op[c])
       /\ op' = [op EXCEPT ![c] = Idle]
    /\ queue' = Tail(queue) /\ stage' = "none"
    /\ UNCHANGED <<memory, disk, late, sent, judged, requests, restarts>>

\* dispatchServerTmuxCommandIfAllowed: the command runs, then that is recorded.
Send(c) ==
    /\ op[c].step = "send"
    /\ sent' = sent \cup {[id |-> op[c].id, cmd |-> op[c].cmd]}
    /\ Push(c, [op[c] EXCEPT !.step = "record"])
    /\ UNCHANGED <<memory, disk, late, stage, history, requests, restarts>>

\* The process dies, and starts with what the log holds.
Crash ==
    /\ "crash" \in Faults /\ restarts < MaxRestarts
    /\ requested' = savedRequests /\ decisions' = savedDecisions
    /\ queue' = << >> /\ stage' = "none"
    /\ op' = [c \in Clients |-> Idle]
    /\ restarts' = restarts + 1
    /\ UNCHANGED <<disk, late, sent, history, requests>>

Task == RunPush \/ RunDecide \/ RefuseDecide \/ DropDecision \/ Saved \/ NotSaved

Next ==
    \/ \E c \in Clients, id \in Ids :
          \/ \E cmd \in Commands, claimed \in BOOLEAN : Dispatch(c, id, cmd, claimed)
          \/ Replay(c, id)
          \/ \E state \in States : Decide(c, id, state)
    \/ \E id \in Ids : Lapse(id)
    \/ Task
    \/ \E c \in Clients : Send(c)
    \/ Crash

\* Writes come back and the script that sends a command has a timeout.
Fairness == WF_vars(Task) /\ \A c \in Clients : WF_vars(Send(c))

Spec == Init /\ [][Next]_vars
FairSpec == Spec /\ Fairness

-----------------------------------------------------------------------------
(* Properties.                                                             *)

\* The type of every variable; a request waits for the storage exactly as long
\* as its task is queued.
TypeOK ==
    /\ requested \in [Ids -> Commands \cup {NoCommand}] /\ decisions \subseteq Decision
    /\ savedRequests \in [Ids -> Commands \cup {NoCommand}] /\ savedDecisions \subseteq Decision
    /\ late \subseteq Ids
    /\ \A c \in Clients : op[c].step \notin {"idle", "send"} <=> c \in Queued
    /\ queue \in Seq(Clients) /\ stage \in {"none", "new", "other"}
    /\ op \in [Clients -> {Idle} \cup Dispatching \cup Deciding]
    /\ sent \subseteq [id : Ids, cmd : Commands] /\ judged \subseteq [id : Ids, cmd : Commands]
    /\ told \subseteq Answer /\ failed \subseteq Ids
    /\ requests \in 0..MaxRequests /\ restarts \in 0..MaxRestarts

\* Two operators decide at the same time, and one of them wins: nobody is told
\* of a decision other than the one in memory, from the moment it is there.
\* Until then an operator whose decision the storage refused has been told of it
\* all the same (DropDecision), and another may still decide otherwise.
OneDecision ==
    [][\A t \in told' \ told, d \in decisions' : t.id = d.id => t.state = d.state]_vars

\* What an operator was told about a decision is true after any failed write
\* and any restart, unless the storage refused it when it was told.
ToldIsKept ==
    \A t \in told : t.stored => Asked(t) \in decisions \cap savedDecisions

\* A command that was sent is one that a human saw and approved, and the log on
\* disk shows the request and the grant, whatever was being written when the
\* verdict was read and whenever the process died; unless a write failed.
SentIsOnRecord ==
    \A s \in sent : s.id \notin failed =>
        s \in judged /\ savedRequests[s.id] = s.cmd
        /\ Grant(s.id) \in savedDecisions

\* Nothing is sent under an id once a rejection of it was stored and answered; a
\* rejection that the storage refused stops nothing.
RejectedIsNotSent ==
    [][\A s \in sent' \ sent :
          [id |-> s.id, state |-> "rejected", stored |-> TRUE] \notin told]_vars

\* Every request is answered.
RequestsEnd == \A c \in Clients : op[c] # Idle ~> op[c] = Idle

\* README.md:194: send-keys runs only behind an approval; so a human approved
\* every command that was sent, also after a failed write and a restart.
SentWasApproved == sent \subseteq judged

-----------------------------------------------------------------------------
(* The inductive invariant behind them.                                    *)

\* The event of this kind under this id is being written.
Writing(step, id) == stage = "new" /\ op[Head(queue)].step = step /\ op[Head(queue)].id = id

\* A client waits once, and a write belongs to the head of the queue: a
\* decision, a new request, or a push that adds neither.
QueueInv ==
    /\ \A i, j \in DOMAIN queue : queue[i] = queue[j] => i = j
    /\ stage # "none" => queue # << >> /\ LET o == op[Head(queue)] IN
          \/ o.step = "decide" /\ stage = "new" /\ Asked(o) \in decisions
          \/ o.step = "request" /\ stage = "new" /\ requested[o.id] = o.cmd
          \/ o.step # "decide" /\ stage = "other"

\* An approval is decided once.
DecidedOnce == \A d, e \in decisions : d.id = e.id => d = e

\* The disk lags behind memory by what is being written and what failed.
DiskInv ==
    /\ \A t \in told : t.stored => Asked(t) \in savedDecisions
    /\ savedDecisions \subseteq decisions
    /\ \A d \in decisions \ savedDecisions : d.id \in failed \/ Writing("decide", d.id)
    /\ \A id \in Ids :
          /\ savedRequests[id] \in {NoCommand, requested[id]}
          /\ savedRequests[id] = requested[id] \/ id \in failed \/ Writing("request", id)

\* A grant was given for the request that is there, and that was saved first.
GrantInv ==
    \A id \in Ids \ failed : Grant(id) \in decisions =>
        /\ requested[id] # NoCommand /\ savedRequests[id] = requested[id]
        /\ [id |-> id, cmd |-> requested[id]] \in judged

\* The verdict a command waits with still holds, and is on disk when it is sent.
VerdictInv ==
    \A c \in Clients : op[c].step \in {"allowed", "send"} =>
        /\ Grant(op[c].id) \in decisions /\ requested[op[c].id] = op[c].cmd
        /\ op[c].step = "send" /\ op[c].id \notin failed => Grant(op[c].id) \in savedDecisions

ApprovalsInv ==
    TypeOK /\ QueueInv /\ DiskInv /\ DecidedOnce /\ GrantInv /\ VerdictInv /\ SentIsOnRecord
=============================================================================

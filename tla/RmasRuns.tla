------------------------------ MODULE RmasRuns ------------------------------
(***************************************************************************)
(* Autonomous goal-loop runs: POST /rmas/runs, the run controller that owns *)
(* the live loops, the goal loop itself, and the reconciliation at boot.   *)
(* A run exists twice: as events in the event storage, from which its      *)
(* status is derived, and as a handle in memory while its loop is alive.   *)
(*                                                                         *)
(* Abstractions.  Every POST makes a run of its own (a fresh UUID), so a   *)
(* run stands for its request as well.  Only the events that say something *)
(* about the status of a run, and the judge's acceptance, are kept; every  *)
(* other event (iterations, agents, token tallies, rejections) appears as  *)
(* the exception that its step of the loop can end with.  Event ids never  *)
(* collide here: the storage stores a push and saves it, stores it and     *)
(* fails to save it, or refuses a text that looks like a secret.  An event *)
(* that a crash takes leaves a gap in the log, so that the others keep     *)
(* their places.                                                           *)
(***************************************************************************)
EXTENDS Integers, Sequences, FiniteSets

CONSTANTS
    Runs,
    MaxConcurrent,     \* RMAS_MAX_CONCURRENT_RUNS
    MaxIterations,     \* config.budgets.maxIterations
    MaxTotalTokens,    \* config.budgets.maxTotalTokens
    Faults,            \* the failures the environment may inject
    MaxRestarts        \* bound of a run of the model

ASSUME LimitsAssumption == /\ MaxConcurrent \in Nat \ {0} /\ MaxIterations \in Nat \ {0}
                           /\ MaxTotalTokens \in Nat \ {0} /\ MaxRestarts \in Nat
ASSUME FaultsAssumption == Faults \subseteq {"write", "secret", "crash", "throw"}

VARIABLES
    log,        \* the stored events: [run, type, saved]
    queue,      \* pushes that wait for the storage: [run, type, by, next]
    post,       \* run -> how far its POST has come
    handles,    \* the runs with a live handle
    aborted,    \* handles whose abort signal is set
    timers,     \* handles whose wall-clock timer is armed
    pc,         \* run -> where its loop is
    iteration, tokens,
    boot,       \* runs that reconcileInterrupted has still to look at
    bootFailed, \* it gave up
    restarts

vars == <<log, queue, post, handles, aborted, timers, pc, iteration, tokens,
          boot, bootFailed, restarts>>

Endings == {"completed", "exhausted", "stopped", "interrupted"}
EventTypes == {"created", "started", "accept"} \cup Endings
LoggedTypes == EventTypes \cup {"gone"}

\* deriveRmasRun: the last event that carries a status decides.
StatusEvents(l, r) ==
    {i \in DOMAIN l : l[i].run = r /\ l[i].type \in {"created", "started"} \cup Endings}
Exists(l, r) == \E i \in DOMAIN l : l[i].run = r /\ l[i].type = "created"
LastIs(l, r, types) ==
    \E i \in StatusEvents(l, r) : l[i].type \in types /\ \A j \in StatusEvents(l, r) : j <= i
\* Mutant of Terminal: TERMINAL_STATUSES without "exhausted".
TerminalButExhausted(l, r) == Exists(l, r) /\ LastIs(l, r, Endings \ {"exhausted"})
Terminal(l, r) == Exists(l, r) /\ LastIs(l, r, Endings)

Emit(r, type, by, next) ==
    queue' = Append(queue, [run |-> r, type |-> type, by |-> by, next |-> next])

-----------------------------------------------------------------------------
Init ==
    /\ log = << >> /\ queue = << >>
    /\ post = [r \in Runs |-> "none"]
    /\ handles = {} /\ aborted = {} /\ timers = {}
    /\ pc = [r \in Runs |-> "off"]
    /\ iteration = [r \in Runs |-> 0]
    /\ tokens = [r \in Runs |-> 0]
    /\ boot = {} /\ bootFailed = FALSE /\ restarts = 0

loopVars == <<handles, aborted, timers, pc, iteration, tokens>>
bootVars == <<boot, bootFailed, restarts>>

\* POST /rmas/runs: the capacity gate, and the creation is pushed.
Post(r) ==
    /\ post[r] = "none"
    /\ IF Cardinality(handles) >= MaxConcurrent
       THEN post' = [post EXCEPT ![r] = "refused"] /\ UNCHANGED queue
       ELSE post' = [post EXCEPT ![r] = "creating"] /\ Emit(r, "created", "post", "starting")
    /\ UNCHANGED <<log, loopVars, bootVars>>

\* Mutant of HasCapacity: one run too many.
HasCapacityPlusOne == Cardinality(handles) <= MaxConcurrent
HasCapacity == Cardinality(handles) < MaxConcurrent

\* controller.start once the creation is stored: it starts the loop and arms
\* the timer, or finds that another run was faster (429).
Start(r) ==
    /\ post[r] = "starting"
    /\ IF HasCapacity
       THEN /\ post' = [post EXCEPT ![r] = "accepted"]
            /\ handles' = handles \cup {r}
            /\ timers' = timers \cup {r}
            /\ pc' = [pc EXCEPT ![r] = "begin"]
       ELSE post' = [post EXCEPT ![r] = "refused"] /\ UNCHANGED <<handles, timers, pc>>
    /\ UNCHANGED <<log, queue, aborted, iteration, tokens, bootVars>>

\* POST /rmas/runs/:id/stop.
Stop(r) ==
    /\ Exists(log, r) /\ r \in handles
    /\ aborted' = aborted \cup {r}
    /\ timers' = timers \ {r}
    /\ UNCHANGED <<log, queue, post, handles, pc, iteration, tokens, bootVars>>

\* The wall-clock timer fires and aborts the run.
Timer(r) ==
    /\ r \in timers
    /\ timers' = timers \ {r}
    /\ aborted' = aborted \cup {r}
    /\ UNCHANGED <<log, queue, post, handles, pc, iteration, tokens, bootVars>>

-----------------------------------------------------------------------------
(* runGoalLoop.  Every emit waits until its event is stored.               *)

LoopEmit(r, type, next) ==
    /\ Emit(r, type, IF pc[r] = "caught" THEN "catch" ELSE "loop", next)
    /\ pc' = [pc EXCEPT ![r] = "wait"]

Begin(r) ==
    /\ pc[r] = "begin"
    /\ LoopEmit(r, "started", "guard")
    /\ UNCHANGED <<log, post, handles, aborted, timers, iteration, tokens, bootVars>>

\* Mutant of Aborted: the abort signal is not looked at between iterations.
NeverAborted(r) == FALSE
Aborted(r) == r \in aborted

\* The guards of an iteration, in order: abort, tokens, deadline.  The loop's
\* own deadline may pass before the timer fires, or after it.
Guard(r) ==
    /\ pc[r] = "guard"
    /\ \/ /\ Aborted(r)
          /\ LoopEmit(r, "stopped", "end") /\ UNCHANGED iteration
       \/ /\ ~Aborted(r)   \* no tokens left, or the deadline
          /\ LoopEmit(r, "exhausted", "end") /\ UNCHANGED iteration
       \/ /\ ~Aborted(r) /\ tokens[r] < MaxTotalTokens
          /\ pc' = [pc EXCEPT ![r] = "work"]
          /\ iteration' = [iteration EXCEPT ![r] = @ + 1]
          /\ UNCHANGED queue
    /\ UNCHANGED <<log, post, handles, aborted, timers, tokens, bootVars>>

\* strategy.runIteration and the tally: calls that may use tokens.
Work(r) ==
    /\ pc[r] = "work"
    /\ \E used \in {0, 1} : tokens' = [tokens EXCEPT ![r] = @ + used]
    /\ pc' = [pc EXCEPT ![r] = "judge"]
    /\ UNCHANGED <<log, queue, post, handles, aborted, timers, iteration, bootVars>>

\* evaluateGoalAcceptance: the verdict is stored before it is used.
Judge(r) ==
    /\ pc[r] = "judge"
    /\ \/ LoopEmit(r, "accept", "accepted")
       \/ pc' = [pc EXCEPT ![r] = "rejected"] /\ UNCHANGED queue
    /\ UNCHANGED <<log, post, handles, aborted, timers, iteration, tokens, bootVars>>

Accepted(r) ==
    /\ pc[r] = "accepted"
    /\ LoopEmit(r, "completed", "end")
    /\ UNCHANGED <<log, post, handles, aborted, timers, iteration, tokens, bootVars>>

\* Mutant of IsLastIteration: one more iteration than the budget.
IsLastIterationPlusOne(r) == iteration[r] > MaxIterations
IsLastIteration(r) == iteration[r] >= MaxIterations

Rejected(r) ==
    /\ pc[r] = "rejected"
    /\ IF IsLastIteration(r)
       THEN LoopEmit(r, "exhausted", "end")
       ELSE pc' = [pc EXCEPT ![r] = "guard"] /\ UNCHANGED queue
    /\ UNCHANGED <<log, post, handles, aborted, timers, iteration, tokens, bootVars>>

\* The emit of one of the other events throws, or a completion does: around
\* the strategy, the judge, or a rejected iteration.  An abort alone does not:
\* the signal never reaches the call of the provider (createDgxProvider-
\* CompletionResponse drops it), which returns on its own timeout.
Throw(r) ==
    /\ pc[r] \in {"work", "judge", "rejected"}
    /\ "throw" \in Faults
    /\ pc' = [pc EXCEPT ![r] = "caught"]
    /\ UNCHANGED <<log, queue, post, handles, aborted, timers, iteration, tokens, bootVars>>

\* Mutant of Caught: nothing is emitted.
CaughtSilently(r) ==
    /\ pc[r] = "caught" /\ pc' = [pc EXCEPT ![r] = "end"]
    /\ UNCHANGED <<log, queue, post, handles, aborted, timers, iteration, tokens, bootVars>>
\* The controller's catch: an ending of its own, whose failure is swallowed.
Caught(r) ==
    /\ pc[r] = "caught"
    /\ LoopEmit(r, IF r \in aborted THEN "stopped" ELSE "interrupted", "end")
    /\ UNCHANGED <<log, post, handles, aborted, timers, iteration, tokens, bootVars>>

\* The controller's finally: cleanup.
End(r) ==
    /\ pc[r] = "end"
    /\ pc' = [pc EXCEPT ![r] = "off"]
    /\ handles' = handles \ {r}
    /\ timers' = timers \ {r}
    /\ aborted' = aborted \ {r}
    /\ iteration' = [iteration EXCEPT ![r] = 0]
    /\ tokens' = [tokens EXCEPT ![r] = 0]
    /\ UNCHANGED <<log, queue, post, bootVars>>

-----------------------------------------------------------------------------
(* The storage, crashes, and the boot.                                     *)

\* Mutants of AfterFailure: the loop does not notice that its emit failed; the
\* emit that failed never comes back.
AfterFailureIgnored(p) == p.next
AfterFailureLost(p) == "wait"
\* A rejected emit throws inside the loop; thrown in the catch it is swallowed.
AfterFailure(p) == IF p.by = "loop" THEN "caught" ELSE "end"

\* reconcileInterrupted goes on with the next run, or gives up.
AfterBoot(p, saved) == IF saved THEN boot \ {p.run} ELSE {}

Contents == {"created", "accept", "completed", "exhausted"}  \* with a free text

\* The head of the queue is refused, stored only, or stored and saved.
Store ==
    /\ queue # << >>
    /\ LET p == Head(queue) IN
       \E stored, saved \in BOOLEAN :
          /\ saved => stored
          /\ ~stored => "secret" \in Faults /\ p.type \in Contents
          /\ stored /\ ~saved => "write" \in Faults
          /\ log' = IF stored
                    THEN Append(log, [run |-> p.run, type |-> p.type, saved |-> saved]) ELSE log
          /\ IF p.by = "post"
             THEN post' = [post EXCEPT ![p.run] = IF saved THEN p.next ELSE "failed"]
             ELSE UNCHANGED post
          /\ IF p.by \in {"loop", "catch"}
             THEN pc' = [pc EXCEPT ![p.run] = IF saved THEN p.next ELSE AfterFailure(p)]
             ELSE UNCHANGED pc
          /\ IF p.by = "boot"
             THEN /\ boot' = AfterBoot(p, saved)
                  /\ bootFailed' = (bootFailed \/ ~saved)
             ELSE UNCHANGED <<boot, bootFailed>>
    /\ queue' = Tail(queue)
    /\ UNCHANGED <<handles, aborted, timers, iteration, tokens, restarts>>

ToReconcile(r) == r \in boot

\* reconcileInterrupted: one run after the other, and it ends with the first
\* failure.
Reconcile(r) ==
    /\ ToReconcile(r)
    /\ \A i \in DOMAIN queue : queue[i].by # "boot"
    /\ Emit(r, "interrupted", "boot", "")
    /\ UNCHANGED <<log, post, loopVars, bootVars>>

\* What the disk has of an event.
OnDisk(e) == IF e.saved THEN e ELSE [e EXCEPT !.type = "gone", !.saved = TRUE]

\* The process dies and comes back with what was saved; the runs that have not
\* ended are read before any request is served.
Crash ==
    /\ "crash" \in Faults /\ restarts < MaxRestarts
    /\ log' = [i \in DOMAIN log |-> OnDisk(log[i])]
    /\ boot' = {r \in Runs : Exists(log', r) /\ ~Terminal(log', r)}
    /\ queue' = << >>
    /\ post' = [r \in Runs |-> IF post[r] \in {"creating", "starting"} THEN "failed" ELSE post[r]]
    /\ handles' = {} /\ aborted' = {} /\ timers' = {}
    /\ pc' = [r \in Runs |-> "off"]
    /\ bootFailed' = FALSE
    /\ iteration' = [r \in Runs |-> 0]
    /\ tokens' = [r \in Runs |-> 0]
    /\ restarts' = restarts + 1

LoopStep(r) == \/ Begin(r) \/ Guard(r) \/ Work(r) \/ Judge(r) \/ Accepted(r) \/ Rejected(r)
               \/ Throw(r) \/ Caught(r) \/ End(r)

Next ==
    \/ \E r \in Runs : \/ Post(r) \/ Start(r) \/ Stop(r) \/ Timer(r)
                       \/ LoopStep(r) \/ Reconcile(r)
    \/ Store
    \/ Crash

\* The event loop goes on, file writes come back, and every completion returns:
\* its timeout (120 s, or that of the CLI adapter) makes it a failed answer.
Fairness ==
    /\ WF_vars(Store)
    /\ \A r \in Runs : WF_vars(LoopStep(r)) /\ WF_vars(Start(r)) /\ WF_vars(Reconcile(r))

Spec == Init /\ [][Next]_vars
FairSpec == Spec /\ Fairness

-----------------------------------------------------------------------------
(* Properties.                                                             *)

\* The type of every variable; no run goes over its budget of iterations.
TypeOK ==
    /\ log \in Seq([run : Runs, type : LoggedTypes, saved : BOOLEAN])
    /\ queue \in Seq([run : Runs, type : EventTypes, by : {"post", "loop", "catch", "boot"},
                      next : {"starting", "guard", "accepted", "end", ""}])
    /\ post \in [Runs -> {"none", "creating", "starting", "accepted", "refused", "failed"}]
    /\ handles \subseteq Runs /\ aborted \subseteq handles /\ timers \subseteq handles
    /\ boot \subseteq Runs /\ bootFailed \in BOOLEAN
    /\ pc \in [Runs -> {"off", "begin", "wait", "guard", "work", "judge", "accepted",
                        "rejected", "caught", "end"}]
    /\ iteration \in [Runs -> 0..MaxIterations]
    /\ tokens \in [Runs -> Nat]
    /\ restarts \in 0..MaxRestarts

\* One GPU: no more loops are alive than allowed, although the gate of the
\* route and the start of the loop are two steps with a write between them.
CapacityIsRespected ==
    /\ Cardinality({r \in Runs : pc[r] # "off"}) <= MaxConcurrent
    /\ \A r \in Runs : pc[r] # "off" <=> r \in handles

\* rmasRun.ts:14: a run reports "completed" only through a stored verdict that
\* accepts, also after failed writes and a restart.
CompletedIsJudged ==
    \A i \in DOMAIN log : log[i].type = "completed" =>
        \E j \in 1..(i - 1) : log[j].run = log[i].run /\ log[j].type = "accept"

\* A run that was accepted either has a live loop or has ended, or the boot has
\* still to end it: no zombie, whatever was thrown, unless a write failed at boot.
AcceptedIsNoZombie ==
    \A r \in Runs : post[r] = "accepted" =>
        r \in handles \/ Terminal(log, r) \/ r \in boot \/ bootFailed

\* The way a run has ended does not change any more, as long as every write
\* succeeds.
EndingIsFinal ==
    [][\A r \in Runs, type \in Endings :
          (\A i \in DOMAIN log : log[i].saved) /\ LastIs(log, r, {type})
              => LastIs(log', r, {type})]_vars

\* A run that was told to stop begins no further iteration.
StopIsObeyed == [][\A r \in Runs : r \in aborted => iteration'[r] <= iteration[r]]_vars

\* Every loop comes to its end and gives its place back, and every boot is
\* done with the runs it found.
RunsEnd ==
    /\ \A r \in Runs : r \in handles ~> r \notin handles
    /\ boot # {} ~> boot = {}
=============================================================================

-------------------------- MODULE ApprovalsProofs ---------------------------
(***************************************************************************)
(* The safety properties of the approvals hold for any number of clients,  *)
(* approvals, commands, requests and restarts, and under every fault: they *)
(* follow from ApprovalsInv, which every step keeps.                       *)
(***************************************************************************)
EXTENDS Approvals, TLAPS

-----------------------------------------------------------------------------
(* The queue.                                                              *)

\* A client that does not wait joins the queue at its end.
LEMMA Joins ==
    ASSUME TypeOK, QueueInv, NEW c \in Clients, op[c].step \in {"idle", "send"},
           queue' = Append(queue, c)
    PROVE  /\ queue' \in Seq(Clients) /\ queue' # << >>
           /\ c \notin Queued /\ Queued' = Queued \cup {c}
           /\ \A i, j \in DOMAIN queue' : queue'[i] = queue'[j] => i = j
           /\ queue # << >> => Head(queue') = Head(queue) /\ Head(queue) \in Queued
<1>1. queue \in Seq(Clients) /\ c \notin Queued
  BY DEF TypeOK
<1>2. /\ queue' \in Seq(Clients) /\ Len(queue') = Len(queue) + 1
      /\ \A i \in 1..Len(queue) : queue'[i] = queue[i]
      /\ queue'[Len(queue) + 1] = c
  BY <1>1
<1>3. DOMAIN queue = 1..Len(queue) /\ DOMAIN queue' = 1..(Len(queue) + 1) /\ Len(queue) \in Nat
  BY <1>1, <1>2
<1>4. Queued' = Queued \cup {c}
  BY <1>2, <1>3 DEF Queued
<1>5. \A i, j \in DOMAIN queue' : queue'[i] = queue'[j] => i = j
  BY <1>1, <1>2, <1>3 DEF Queued, QueueInv
<1>6. queue # << >> => Head(queue') = Head(queue) /\ Head(queue) \in Queued
  BY <1>1, <1>2, <1>3 DEF Queued
<1> QED
  BY <1>1, <1>2, <1>3, <1>4, <1>5, <1>6

\* The head leaves the queue.
LEMMA Leaves ==
    ASSUME TypeOK, QueueInv, queue # << >>, queue' = Tail(queue)
    PROVE  /\ queue' \in Seq(Clients)
           /\ Head(queue) \in Clients /\ Head(queue) \in Queued
           /\ Queued' = Queued \ {Head(queue)}
           /\ \A i, j \in DOMAIN queue' : queue'[i] = queue'[j] => i = j
<1>1. queue \in Seq(Clients)
  BY DEF TypeOK
<1>2. /\ queue' \in Seq(Clients) /\ Len(queue') = Len(queue) - 1
      /\ \A i \in 1..(Len(queue) - 1) : queue'[i] = queue[i + 1]
      /\ Head(queue) = queue[1] /\ Len(queue) \in Nat \ {0}
  BY <1>1
<1>3. DOMAIN queue = 1..Len(queue) /\ DOMAIN queue' = 1..(Len(queue) - 1)
  BY <1>1, <1>2
<1>4. Head(queue) \in Clients /\ Head(queue) \in Queued
  BY <1>1, <1>2, <1>3 DEF Queued
<1>5. Queued' = Queued \ {Head(queue)}
  <2>1. \A x \in Queued' : x \in Queued /\ x # Head(queue)
    <3> SUFFICES ASSUME NEW i \in DOMAIN queue'
                 PROVE  queue'[i] \in Queued /\ queue'[i] # Head(queue)
      BY DEF Queued
    <3>1. i + 1 \in DOMAIN queue /\ 1 \in DOMAIN queue /\ i + 1 # 1 /\ queue'[i] = queue[i + 1]
      BY <1>2, <1>3
    <3> QED
      BY <1>2, <3>1 DEF Queued, QueueInv
  <2>2. \A x \in Queued : x = Head(queue) \/ x \in Queued'
    <3> SUFFICES ASSUME NEW i \in DOMAIN queue, queue[i] # Head(queue)
                 PROVE  queue[i] \in Queued'
      BY DEF Queued
    <3>1. i - 1 \in DOMAIN queue' /\ queue'[i - 1] = queue[i]
      BY <1>2, <1>3
    <3> QED
      BY <3>1 DEF Queued
  <2> QED
    BY <2>1, <2>2
<1>6. \A i, j \in DOMAIN queue' : queue'[i] = queue'[j] => i = j
  <2> SUFFICES ASSUME NEW i \in DOMAIN queue', NEW j \in DOMAIN queue', queue'[i] = queue'[j]
               PROVE  i = j
    OBVIOUS
  <2>1. i + 1 \in DOMAIN queue /\ j + 1 \in DOMAIN queue /\ queue[i + 1] = queue[j + 1]
    BY <1>2, <1>3
  <2>2. i + 1 = j + 1
    BY <2>1 DEF QueueInv
  <2> QED
    BY <1>3, <2>2
<1> QED
  BY <1>2, <1>4, <1>5, <1>6

\* What the head of the queue is doing is an operation, and not a send.
LEMMA HeadWaits ==
    ASSUME TypeOK, queue # << >>
    PROVE  /\ Head(queue) \in Clients
           /\ op[Head(queue)] \in Dispatching \cup Deciding
           /\ op[Head(queue)].step \notin {"idle", "send"}
           /\ op[Head(queue)].id \in Ids
           /\ op[Head(queue)].step = "decide" <=> op[Head(queue)] \in Deciding
<1>1. Head(queue) \in Clients /\ Head(queue) \in Queued
  BY DEF TypeOK, Queued
<1>2. op[Head(queue)].step \notin {"idle", "send"}
  BY <1>1 DEF TypeOK
<1>3. op[Head(queue)] \in {Idle} \cup Dispatching \cup Deciding
  BY <1>1 DEF TypeOK
<1> QED
  BY <1>1, <1>2, <1>3 DEF Idle, Dispatching, Deciding

-----------------------------------------------------------------------------
(* The steps.                                                              *)

\* What is being written does not change while clients join the queue.
LEMMA WritingStays ==
    ASSUME QueueInv, queue # << >> => Head(queue') = Head(queue) /\ op'[Head(queue)] = op[Head(queue)],
           UNCHANGED stage, NEW step, NEW id
    PROVE  Writing(step, id)' = Writing(step, id)
  BY DEF Writing, QueueInv

\* A client's task joins the queue; a claim was evaluated with the memory of
\* this moment.
LEMMA PushStep ==
    ASSUME ApprovalsInv, NEW c \in Clients, op[c].step \in {"idle", "send"},
           NEW o \in Dispatching \cup Deciding, o.step # "send",
           o.step = "allowed" => Matches(o.id, o.cmd),
           Push(c, o), UNCHANGED <<memory, disk, late, stage, history, restarts>>,
           requests' \in 0..MaxRequests, sent' \subseteq [id : Ids, cmd : Commands]
    PROVE  TypeOK' /\ QueueInv' /\ DiskInv' /\ DecidedOnce' /\ GrantInv' /\ VerdictInv'
<1>1. TypeOK /\ QueueInv
  BY DEF ApprovalsInv
<1>2. queue' = Append(queue, c) /\ op' = [op EXCEPT ![c] = o]
  BY DEF Push
<1>3. /\ queue' \in Seq(Clients) /\ queue' # << >>
      /\ c \notin Queued /\ Queued' = Queued \cup {c}
      /\ \A i, j \in DOMAIN queue' : queue'[i] = queue'[j] => i = j
      /\ queue # << >> => Head(queue') = Head(queue) /\ Head(queue) \in Queued
  BY <1>1, <1>2, Joins
<1>4. o.step \notin {"idle", "send"}
  BY DEF Dispatching, Deciding
<1>5. /\ DOMAIN op = Clients /\ op'[c] = o
      /\ \A x \in Clients \ {c} : op'[x] = op[x]
  BY <1>1, <1>2 DEF TypeOK
<1>6. op' \in [Clients -> {Idle} \cup Dispatching \cup Deciding]
  BY <1>1, <1>2 DEF TypeOK
<1>7. TypeOK'
  BY <1>1, <1>3, <1>4, <1>5, <1>6 DEF TypeOK, memory, disk, history
<1>8. queue # << >> => Head(queue) \in Clients \ {c}
  BY <1>1, <1>3, HeadWaits
<1>9. \A step, id : Writing(step, id)' = Writing(step, id)
  BY <1>1, <1>3, <1>5, <1>8, WritingStays
<1>10. QueueInv'
  BY <1>1, <1>3, <1>5, <1>8 DEF QueueInv, memory
<1>11. DiskInv'
  BY <1>9 DEF ApprovalsInv, DiskInv, memory, disk, history
<1>12. DecidedOnce' /\ GrantInv'
  BY DEF ApprovalsInv, DecidedOnce, GrantInv, Grant, memory, disk, history
<1>13. VerdictInv'
  BY <1>4, <1>5 DEF ApprovalsInv, VerdictInv, Matches, Grant, memory, disk, history
<1> QED
  BY <1>7, <1>10, <1>11, <1>12, <1>13

\* A step that sends nothing and takes nothing back keeps the record of what
\* was sent.
LEMMA RecordStays ==
    ASSUME SentIsOnRecord, sent' = sent, failed \subseteq failed', judged \subseteq judged',
           savedDecisions \subseteq savedDecisions',
           \A id \in Ids : savedRequests[id] # NoCommand => savedRequests'[id] = savedRequests[id],
           sent \subseteq [id : Ids, cmd : Commands]
    PROVE  SentIsOnRecord'
  BY CommandsAssumption DEF SentIsOnRecord, Grant

\* A new request of a client.
LEMMA ArriveStep ==
    ASSUME ApprovalsInv, NEW c \in Clients, NEW o \in Dispatching \cup Deciding, o.step # "send",
           o.step = "allowed" => Matches(o.id, o.cmd),
           Arrive(c), Push(c, o), UNCHANGED <<memory, disk, late, stage, sent, history, restarts>>
    PROVE  ApprovalsInv'
<1>1. TypeOK /\ SentIsOnRecord
  BY DEF ApprovalsInv
<1>2. op[c].step = "idle" /\ requests' \in 0..MaxRequests
  BY <1>1, BoundsAssumption DEF Arrive, Idle, TypeOK
<1>3. sent' \subseteq [id : Ids, cmd : Commands]
  BY <1>1 DEF TypeOK
<1>4. TypeOK' /\ QueueInv' /\ DiskInv' /\ DecidedOnce' /\ GrantInv' /\ VerdictInv'
  BY <1>2, <1>3, PushStep
<1>5. SentIsOnRecord'
  BY <1>1 DEF SentIsOnRecord, Grant, disk, history
<1> QED
  BY <1>4, <1>5 DEF ApprovalsInv

\* A dispatch asks for an approval or claims one, as it was just evaluated.
LEMMA DispatchStep ==
    ASSUME ApprovalsInv, NEW c \in Clients, NEW id \in Ids, NEW cmd \in Commands,
           NEW claimed \in BOOLEAN, Dispatch(c, id, cmd, claimed)
    PROVE  ApprovalsInv'
<1> DEFINE step == IF ~claimed THEN "request" ELSE IF Matches(id, cmd) THEN "allowed" ELSE "denied"
           o == [step |-> step, id |-> id, cmd |-> cmd]
<1>1. o \in Dispatching \cup Deciding /\ o.step # "send" /\ (o.step = "allowed" => Matches(o.id, o.cmd))
  BY DEF Dispatching
<1>2. /\ Arrive(c) /\ Push(c, o)
      /\ UNCHANGED <<memory, disk, late, stage, sent, history, restarts>>
  BY DEF Dispatch, Evaluated
<1> HIDE DEF o
<1> QED
  BY <1>1, <1>2, ArriveStep

\* An operator's decision waits for the storage.
LEMMA DecideStep ==
    ASSUME ApprovalsInv, NEW c \in Clients, NEW id \in Ids, NEW state \in States,
           Decide(c, id, state)
    PROVE  ApprovalsInv'
<1> DEFINE o == [step |-> "decide", id |-> id, state |-> state, inTime |-> id \notin late]
<1>1. o \in Dispatching \cup Deciding /\ o.step = "decide"
  BY DEF Deciding
<1>2. /\ Arrive(c) /\ Push(c, o)
      /\ UNCHANGED <<memory, disk, late, stage, sent, history, restarts>>
  BY DEF Decide
<1> HIDE DEF o
<1> QED
  BY <1>1, <1>2, ArriveStep

\* A command that is sent is on record, unless a write failed.
LEMMA SendStep ==
    ASSUME ApprovalsInv, NEW c \in Clients, Send(c)
    PROVE  ApprovalsInv'
<1> DEFINE s == [id |-> op[c].id, cmd |-> op[c].cmd]
           o == [op[c] EXCEPT !.step = "record"]
<1>1. TypeOK /\ op[c].step = "send"
  BY DEF ApprovalsInv, Send
<1>2. op[c] \in Dispatching
  <2>1. op[c] \in {Idle} \cup Dispatching \cup Deciding
    BY <1>1 DEF TypeOK
  <2> QED
    BY <1>1, <2>1 DEF Idle, Deciding
<1>3. o \in Dispatching /\ o.step = "record" /\ op[c].id \in Ids /\ op[c].cmd \in Commands
  BY <1>2 DEF Dispatching
<1>4. /\ Push(c, o) /\ sent' = sent \cup {s}
      /\ UNCHANGED <<memory, disk, late, stage, history, requests, restarts>>
  BY DEF Send
<1>5. requests' \in 0..MaxRequests /\ sent' \subseteq [id : Ids, cmd : Commands]
  BY <1>1, <1>3, <1>4 DEF TypeOK
<1> HIDE DEF o
<1>6. TypeOK' /\ QueueInv' /\ DiskInv' /\ DecidedOnce' /\ GrantInv' /\ VerdictInv'
  BY <1>1, <1>3, <1>4, <1>5, PushStep
<1>7. op[c].id \notin failed =>
         /\ s \in judged /\ savedRequests[s.id] = s.cmd
         /\ Grant(s.id) \in savedDecisions
  <2> SUFFICES ASSUME op[c].id \notin failed
               PROVE  /\ s \in judged /\ savedRequests[s.id] = s.cmd
                      /\ Grant(s.id) \in savedDecisions
    OBVIOUS
  <2>1. /\ Grant(op[c].id) \in decisions /\ requested[op[c].id] = op[c].cmd
        /\ Grant(op[c].id) \in savedDecisions
    BY <1>1 DEF ApprovalsInv, VerdictInv
  <2>2. /\ savedRequests[op[c].id] = requested[op[c].id]
        /\ [id |-> op[c].id, cmd |-> requested[op[c].id]] \in judged
    BY <1>3, <2>1 DEF ApprovalsInv, GrantInv
  <2> QED
    BY <2>1, <2>2
<1>8. SentIsOnRecord'
  BY <1>4, <1>7 DEF ApprovalsInv, SentIsOnRecord, Grant, disk, history
<1> QED
  BY <1>6, <1>8 DEF ApprovalsInv

\* The expiry of a request changes nothing the invariant speaks of.
LEMMA LapseStep ==
    ASSUME ApprovalsInv, NEW id \in Ids, Lapse(id)
    PROVE  ApprovalsInv'
<1>1. late' \subseteq Ids
  BY DEF Lapse, ApprovalsInv, TypeOK
<1>2. UNCHANGED <<memory, disk, queue, stage, op, sent, history, requests, restarts>>
  BY DEF Lapse
<1>3. TypeOK'
  BY <1>1, <1>2 DEF ApprovalsInv, TypeOK, Queued, memory, disk, history
<1>4. QueueInv' /\ DiskInv'
  BY <1>2 DEF ApprovalsInv, QueueInv, DiskInv, Writing, memory, disk, history
<1>5. DecidedOnce' /\ GrantInv' /\ VerdictInv' /\ SentIsOnRecord'
  BY <1>2 DEF ApprovalsInv, DecidedOnce, GrantInv, VerdictInv, SentIsOnRecord, Grant,
              memory, disk, history
<1> QED
  BY <1>3, <1>4, <1>5 DEF ApprovalsInv

\* A push is stored.  A request that becomes known is about to be written, and
\* its approval has not been decided.
LEMMA RunPushStep ==
    ASSUME ApprovalsInv, RunPush
    PROVE  ApprovalsInv'
<1> DEFINE h == Head(queue)
           o == op[h]
<1>1. /\ queue # << >> /\ stage = "none" /\ o.step # "decide"
      /\ UNCHANGED <<decisions, disk, queue, op, sent, history, requests, restarts>>
  BY DEF RunPush
<1>2. TypeOK /\ h \in Clients /\ o \in Dispatching
  BY <1>1, HeadWaits DEF ApprovalsInv
<1>3. o.id \in Ids /\ o.cmd \in Commands
  BY <1>2 DEF Dispatching
<1>4. \A step, id : ~Writing(step, id)
  BY <1>1 DEF Writing
<1>5. CASE o.step = "request" /\ requested[o.id] = NoCommand
  <2>1. /\ requested' = [requested EXCEPT ![o.id] = o.cmd]
        /\ late' = late \ {o.id} /\ stage' = "new"
    BY <1>5 DEF RunPush
  <2>2. requested' \in [Ids -> Commands \cup {NoCommand}] /\ late' \subseteq Ids
    BY <1>2, <1>3, <2>1 DEF TypeOK
  <2>3. /\ requested'[o.id] = o.cmd
        /\ \A id \in Ids \ {o.id} : requested'[id] = requested[id]
    BY <1>2, <1>3, <2>1 DEF TypeOK
  <2>4. TypeOK'
    BY <1>1, <1>2, <2>1, <2>2 DEF TypeOK, Queued, disk, history
  <2>5. QueueInv'
    BY <1>1, <1>5, <2>1, <2>3 DEF ApprovalsInv, QueueInv
  <2>6. Writing("request", o.id)'
    BY <1>1, <1>5, <2>1 DEF Writing
  <2>7. savedRequests[o.id] = NoCommand
    BY <1>3, <1>5 DEF ApprovalsInv, DiskInv
  <2>8. DiskInv'
    <3>1. /\ \A t \in told' : t.stored => Asked(t)' \in savedDecisions'
          /\ savedDecisions' \subseteq decisions'
          /\ \A d \in decisions' \ savedDecisions' : d.id \in failed'
      BY <1>1, <1>4 DEF ApprovalsInv, DiskInv, Asked, disk, history
    <3>2. ASSUME NEW id \in Ids
          PROVE  /\ savedRequests'[id] \in {NoCommand, requested'[id]}
                 /\ savedRequests'[id] = requested'[id] \/ id \in failed' \/ Writing("request", id)'
      <4>1. CASE id = o.id
        BY <1>1, <2>6, <2>7, <4>1 DEF disk, history
      <4>2. CASE id # o.id
        BY <1>1, <1>4, <2>3, <4>2 DEF ApprovalsInv, DiskInv, disk, history
      <4> QED
        BY <4>1, <4>2
    <3> QED
      BY <3>1, <3>2 DEF DiskInv
  <2>9. GrantInv'
    BY <1>1, <1>5, <2>3 DEF ApprovalsInv, GrantInv, Grant, disk, history
  <2>10. VerdictInv'
    <3> SUFFICES ASSUME NEW c \in Clients, op[c].step \in {"allowed", "send"}
                 PROVE  requested'[op[c].id] = op[c].cmd
      BY <1>1 DEF ApprovalsInv, VerdictInv, Grant, disk, history
    <3>1. op[c] \in Dispatching
      <4>1. op[c] \in {Idle} \cup Dispatching \cup Deciding
        BY <1>2 DEF TypeOK
      <4> QED
        BY <4>1 DEF Idle, Deciding
    <3>2. op[c].id \in Ids /\ op[c].cmd \in Commands /\ requested[op[c].id] = op[c].cmd
      BY <3>1 DEF Dispatching, ApprovalsInv, VerdictInv
    <3>3. op[c].id # o.id
      BY <1>5, <3>2, CommandsAssumption
    <3> QED
      BY <2>3, <3>2, <3>3
  <2>11. DecidedOnce' /\ SentIsOnRecord'
    BY <1>1 DEF ApprovalsInv, DecidedOnce, SentIsOnRecord, Grant, disk, history
  <2> QED
    BY <2>4, <2>5, <2>8, <2>9, <2>10, <2>11 DEF ApprovalsInv
<1>6. CASE ~(o.step = "request" /\ requested[o.id] = NoCommand)
  <2>1. stage' = "other" /\ UNCHANGED <<requested, late>>
    BY <1>6 DEF RunPush
  <2>2. TypeOK'
    BY <1>1, <1>2, <2>1 DEF TypeOK, Queued, disk, history
  <2>3. QueueInv'
    BY <1>1, <2>1 DEF ApprovalsInv, QueueInv
  <2>4. DiskInv'
    BY <1>1, <1>4, <2>1 DEF ApprovalsInv, DiskInv, disk, history
  <2>5. DecidedOnce' /\ GrantInv' /\ VerdictInv' /\ SentIsOnRecord'
    BY <1>1, <2>1 DEF ApprovalsInv, DecidedOnce, GrantInv, VerdictInv, SentIsOnRecord, Grant,
                      disk, history
  <2> QED
    BY <2>2, <2>3, <2>4, <2>5 DEF ApprovalsInv
<1> QED
  BY <1>5, <1>6

\* A decision is stored: it is the first of its approval, whose request has
\* been saved unless its write failed.
LEMMA RunDecideStep ==
    ASSUME ApprovalsInv, RunDecide
    PROVE  ApprovalsInv'
<1> DEFINE h == Head(queue)
           o == op[h]
           d == Asked(o)
           j == [id |-> o.id, cmd |-> requested[o.id]]
<1>1. /\ queue # << >> /\ stage = "none" /\ stage' = "new"
      /\ o.step = "decide" /\ requested[o.id] # NoCommand /\ ~Decided(o.id)
      /\ decisions' = decisions \cup {d}
      /\ judged' = IF o.state = "approved" THEN judged \cup {j} ELSE judged
      /\ UNCHANGED <<requested, disk, late, queue, op, sent, told, failed, requests, restarts>>
  BY DEF RunDecide, Pending
<1>2. TypeOK /\ h \in Clients /\ o \in Deciding /\ o.id \in Ids
  BY <1>1, HeadWaits DEF ApprovalsInv
<1>3. d \in Decision /\ requested[o.id] \in Commands
  BY <1>1, <1>2 DEF Deciding, Decision, Asked, TypeOK
<1>4. judged' \subseteq [id : Ids, cmd : Commands] /\ judged \subseteq judged'
  BY <1>1, <1>2, <1>3 DEF TypeOK
<1>5. TypeOK'
  BY <1>1, <1>2, <1>3, <1>4 DEF TypeOK, Queued, disk
<1>6. QueueInv'
  BY <1>1 DEF ApprovalsInv, QueueInv, Asked
<1>7. Writing("decide", d.id)' /\ \A step, id : ~Writing(step, id)
  BY <1>1 DEF Writing, Asked
<1>8. DiskInv'
  BY <1>1, <1>7 DEF ApprovalsInv, DiskInv, Asked, disk
<1>9. DecidedOnce'
  BY <1>1 DEF ApprovalsInv, DecidedOnce, Decided, Asked
<1>10. GrantInv'
  <2> SUFFICES ASSUME NEW id \in Ids, id \notin failed, Grant(id) \in decisions'
               PROVE  /\ requested[id] # NoCommand /\ savedRequests[id] = requested[id]
                      /\ [id |-> id, cmd |-> requested[id]] \in judged'
    BY <1>1 DEF GrantInv, Grant, disk
  <2>1. CASE Grant(id) \in decisions
    BY <1>4, <2>1 DEF ApprovalsInv, GrantInv
  <2>2. CASE Grant(id) = d
    <3>1. id = o.id /\ o.state = "approved"
      BY <2>2 DEF Grant, Asked
    <3> QED
      BY <1>1, <1>7, <3>1 DEF ApprovalsInv, DiskInv
  <2> QED
    BY <1>1, <2>1, <2>2
<1>11. VerdictInv'
  BY <1>1 DEF ApprovalsInv, VerdictInv, Grant, disk
<1>12. SentIsOnRecord'
  BY <1>1, <1>4 DEF ApprovalsInv, SentIsOnRecord, Grant, disk
<1> QED
  BY <1>5, <1>6, <1>8, <1>9, <1>10, <1>11, <1>12 DEF ApprovalsInv

\* The head's client waits no more: what its own operation becomes, the queue
\* and the operations of the others keep their types.
LEMMA LeaveStep ==
    ASSUME TypeOK, QueueInv, queue # << >>, queue' = Tail(queue), stage' = "none",
           NEW new \in {Idle} \cup Dispatching, new.step \in {"idle", "send"},
           op' = [op EXCEPT ![Head(queue)] = new],
           UNCHANGED <<memory, late, sent, judged, requests, restarts>>,
           savedRequests' \in [Ids -> Commands \cup {NoCommand}],
           savedDecisions' \subseteq Decision, told' \subseteq Answer, failed' \subseteq Ids
    PROVE  /\ TypeOK' /\ QueueInv'
           /\ \A step, id : ~Writing(step, id)'
           /\ op'[Head(queue)] = new
           /\ \A c \in Clients \ {Head(queue)} : op'[c] = op[c]
<1> DEFINE h == Head(queue)
<1>1. /\ queue' \in Seq(Clients) /\ h \in Clients /\ h \in Queued
      /\ Queued' = Queued \ {h}
      /\ \A i, j \in DOMAIN queue' : queue'[i] = queue'[j] => i = j
  BY Leaves
<1>2. op'[h] = new /\ \A c \in Clients \ {h} : op'[c] = op[c]
  BY <1>1 DEF TypeOK
<1>3. op' \in [Clients -> {Idle} \cup Dispatching \cup Deciding]
  BY <1>1 DEF TypeOK
<1> HIDE DEF h
<1>4. TypeOK'
  BY <1>1, <1>2, <1>3 DEF TypeOK, memory
<1>5. QueueInv' /\ \A step, id : ~Writing(step, id)'
  BY <1>1 DEF QueueInv, Writing
<1> QED
  BY <1>2, <1>4, <1>5 DEF h

\* The head's decision changes nothing in memory or on disk; its operator may be
\* told of it nevertheless.
LEMMA LeavesNothing ==
    ASSUME ApprovalsInv, queue # << >>, stage = "none", queue' = Tail(queue),
           op' = [op EXCEPT ![Head(queue)] = Idle],
           UNCHANGED <<memory, disk, late, stage, sent, judged, failed, requests, restarts>>,
           told' \subseteq Answer, \A t \in told' \ told : ~t.stored
    PROVE  ApprovalsInv'
<1>1. /\ queue # << >> /\ stage = "none" /\ queue' = Tail(queue) /\ stage' = "none"
      /\ op' = [op EXCEPT ![Head(queue)] = Idle]
      /\ UNCHANGED <<memory, disk, late, stage, sent, judged, failed, requests, restarts>>
  OBVIOUS
<1>2. TypeOK /\ QueueInv /\ Head(queue) \in Clients
  BY <1>1, HeadWaits DEF ApprovalsInv
<1>3. Idle \in {Idle} \cup Dispatching /\ Idle.step = "idle"
  BY DEF Idle
<1>4. /\ savedRequests' \in [Ids -> Commands \cup {NoCommand}]
      /\ savedDecisions' \subseteq Decision /\ told' \subseteq Answer /\ failed' \subseteq Ids
  BY <1>1, <1>2 DEF TypeOK, disk
<1>5. /\ TypeOK' /\ QueueInv'
      /\ op'[Head(queue)] = Idle
      /\ \A c \in Clients \ {Head(queue)} : op'[c] = op[c]
  BY <1>1, <1>2, <1>3, <1>4, LeaveStep
<1>6. \A step, id : ~Writing(step, id)
  BY <1>1 DEF Writing
<1>7. DiskInv'
  BY <1>1, <1>6 DEF ApprovalsInv, DiskInv, Asked, memory, disk
<1>8. DecidedOnce' /\ GrantInv' /\ SentIsOnRecord'
  BY <1>1 DEF ApprovalsInv, DecidedOnce, GrantInv, SentIsOnRecord, Grant, memory, disk
<1>9. VerdictInv'
  BY <1>1, <1>3, <1>5 DEF ApprovalsInv, VerdictInv, Grant, memory, disk
<1> QED
  BY <1>5, <1>7, <1>8, <1>9 DEF ApprovalsInv

\* A decision of what is not pending leaves nothing behind.
LEMMA RefuseStep ==
    ASSUME ApprovalsInv, RefuseDecide
    PROVE  ApprovalsInv'
<1>1. told' = told /\ told \subseteq Answer
  BY DEF RefuseDecide, history, ApprovalsInv, TypeOK
<1> QED
  BY <1>1, LeavesNothing DEF RefuseDecide, history

\* A decision that the storage refuses leaves nothing but its answer.
LEMMA DropStep ==
    ASSUME ApprovalsInv, DropDecision
    PROVE  ApprovalsInv'
<1> DEFINE o == op[Head(queue)]
           t == Told(o, FALSE)
<1>1. queue # << >> /\ o.step = "decide" /\ told' = told \cup {t}
  BY DEF DropDecision
<1>2. TypeOK /\ o \in Deciding
  BY <1>1, HeadWaits DEF ApprovalsInv
<1>3. t \in Answer /\ ~t.stored
  BY <1>2 DEF Deciding, Answer, Told
<1> HIDE DEF t
<1>4. told' \subseteq Answer /\ \A x \in told' \ told : ~x.stored
  BY <1>1, <1>2, <1>3 DEF TypeOK
<1> QED
  BY <1>4, LeavesNothing DEF DropDecision

\* A failed write: what stays unsaved is under an id that has failed.
LEMMA NotSavedStep ==
    ASSUME ApprovalsInv, NotSaved
    PROVE  ApprovalsInv'
<1> DEFINE h == Head(queue)
<1>1. /\ stage # "none" /\ stage' = "none" /\ queue' = Tail(queue)
      /\ failed' = IF stage = "new" THEN failed \cup {op[h].id} ELSE failed
      /\ told' = told
      /\ op' = [op EXCEPT ![h] = Idle]
      /\ UNCHANGED <<memory, disk, late, sent, judged, requests, restarts>>
  BY DEF NotSaved, Answered
<1>2. TypeOK /\ QueueInv /\ queue # << >>
  BY <1>1 DEF ApprovalsInv, QueueInv
<1>3. op[h].id \in Ids /\ h \in Clients
  BY <1>2, HeadWaits
<1>4. Idle \in {Idle} \cup Dispatching /\ Idle.step = "idle"
  BY DEF Idle
<1>5. /\ savedRequests' \in [Ids -> Commands \cup {NoCommand}]
      /\ savedDecisions' \subseteq Decision /\ told' \subseteq Answer /\ failed' \subseteq Ids
  BY <1>1, <1>2, <1>3 DEF TypeOK, disk
<1>6. /\ TypeOK' /\ QueueInv'
      /\ op'[h] = Idle
      /\ \A c \in Clients \ {h} : op'[c] = op[c]
  BY <1>1, <1>2, <1>4, <1>5, LeaveStep
<1>7. failed \subseteq failed' /\ \A step, id : Writing(step, id) => id \in failed'
  BY <1>1 DEF Writing
<1>8. DiskInv'
  BY <1>1, <1>7 DEF ApprovalsInv, DiskInv, memory, disk
<1>9. DecidedOnce' /\ GrantInv' /\ SentIsOnRecord'
  BY <1>1, <1>7 DEF ApprovalsInv, DecidedOnce, GrantInv, SentIsOnRecord, Grant, memory, disk
<1>10. VerdictInv'
  BY <1>1, <1>4, <1>6, <1>7 DEF ApprovalsInv, VerdictInv, Grant, memory, disk
<1> QED
  BY <1>6, <1>8, <1>9, <1>10 DEF ApprovalsInv

\* A decision is saved and answered.
LEMMA SavedDecisionStep ==
    ASSUME ApprovalsInv, Saved, op[Head(queue)].step = "decide"
    PROVE  ApprovalsInv'
<1> DEFINE h == Head(queue)
           d == Asked(op[h])
           t == Told(op[h], TRUE)
<1>1. /\ stage # "none" /\ stage' = "none" /\ queue' = Tail(queue)
      /\ savedDecisions' = savedDecisions \cup {d} /\ told' = told \cup {t}
      /\ op' = [op EXCEPT ![h] = Idle]
      /\ UNCHANGED <<memory, late, savedRequests, sent, judged, failed, requests, restarts>>
  BY DEF Saved
<1>2. TypeOK /\ QueueInv /\ queue # << >> /\ d \in decisions
  BY <1>1 DEF ApprovalsInv, QueueInv
<1>3. Idle \in {Idle} \cup Dispatching /\ Idle.step = "idle"
  BY DEF Idle
<1>14. t \in Answer /\ Asked(t) = d
  BY <1>2 DEF TypeOK, Decision, Answer, Asked, Told
<1>4. /\ savedRequests' \in [Ids -> Commands \cup {NoCommand}]
      /\ savedDecisions' \subseteq Decision /\ told' \subseteq Answer /\ failed' \subseteq Ids
  BY <1>1, <1>2, <1>14 DEF TypeOK
<1>5. h \in Clients
  BY <1>2, HeadWaits
<1>6. /\ TypeOK' /\ QueueInv'
      /\ op'[h] = Idle
      /\ \A c \in Clients \ {h} : op'[c] = op[c]
  BY <1>1, <1>2, <1>3, <1>4, LeaveStep
<1>7. \A id : ~Writing("request", id)
  BY DEF Writing
<1>8. \A e \in decisions : e.id = d.id => e = d
  BY <1>2 DEF ApprovalsInv, DecidedOnce
<1>9. \A id : Writing("decide", id) => id = d.id
  BY DEF Writing, Asked
<1> HIDE DEF d, t
<1>10. DiskInv'
  <2>1. /\ \A x \in told' : x.stored => Asked(x)' \in savedDecisions'
        /\ savedDecisions' \subseteq decisions'
    BY <1>1, <1>2, <1>14 DEF ApprovalsInv, DiskInv, Asked, memory
  <2>2. \A e \in decisions' \ savedDecisions' : e.id \in failed'
    BY <1>1, <1>8, <1>9 DEF ApprovalsInv, DiskInv, memory
  <2>3. \A id \in Ids : /\ savedRequests'[id] \in {NoCommand, requested'[id]}
                        /\ savedRequests'[id] = requested'[id] \/ id \in failed'
    BY <1>1, <1>7 DEF ApprovalsInv, DiskInv, memory
  <2> QED
    BY <2>1, <2>2, <2>3 DEF DiskInv
<1>11. DecidedOnce'
  BY <1>1 DEF ApprovalsInv, DecidedOnce, memory
<1>12. GrantInv' /\ SentIsOnRecord'
  BY <1>1 DEF ApprovalsInv, GrantInv, SentIsOnRecord, Grant, memory
<1>13. VerdictInv'
  <2>1. savedDecisions \subseteq savedDecisions' /\ UNCHANGED <<memory, failed>>
    BY <1>1
  <2>2. \A c \in Clients : op'[c] = op[c] \/ op'[c].step = "idle"
    BY <1>3, <1>6
  <2> QED
    BY <2>1, <2>2 DEF ApprovalsInv, VerdictInv, Grant, memory
<1> QED
  BY <1>6, <1>10, <1>11, <1>12, <1>13 DEF ApprovalsInv

\* A push is saved.  If a command goes on to be sent, then its grant, which no
\* write in flight can be about, is on disk unless a write of it failed.
LEMMA SavedPushStep ==
    ASSUME ApprovalsInv, Saved, op[Head(queue)].step # "decide"
    PROVE  ApprovalsInv'
<1> DEFINE h == Head(queue)
           o == op[h]
           new == AfterPush(o)
<1>1. /\ stage # "none" /\ stage' = "none" /\ queue' = Tail(queue)
      /\ savedRequests' =
            IF stage = "new" THEN [savedRequests EXCEPT ![o.id] = o.cmd] ELSE savedRequests
      /\ op' = [op EXCEPT ![h] = new]
      /\ UNCHANGED <<memory, late, savedDecisions, told, sent, judged, failed, requests, restarts>>
  BY DEF Saved
<1>2. /\ TypeOK /\ QueueInv /\ queue # << >>
      /\ stage = "new" => o.step = "request" /\ requested[o.id] = o.cmd
  BY <1>1 DEF ApprovalsInv, QueueInv
<1>3. h \in Clients /\ o \in Dispatching /\ o.id \in Ids /\ o.cmd \in Commands
  <2>1. h \in Clients /\ o \in Dispatching \cup Deciding /\ (o.step = "decide" <=> o \in Deciding)
    BY <1>2, HeadWaits
  <2> QED
    BY <2>1 DEF Dispatching
<1>4. /\ new \in {Idle} \cup Dispatching /\ new.step \in {"idle", "send"}
      /\ new.step = "send" => o.step = "allowed" /\ new.id = o.id /\ new.cmd = o.cmd
      /\ new.step # "allowed"
  BY <1>3 DEF AfterPush, Idle, Dispatching
<1> HIDE DEF new
<1>5. /\ savedRequests' \in [Ids -> Commands \cup {NoCommand}]
      /\ savedDecisions' \subseteq Decision /\ told' \subseteq Answer /\ failed' \subseteq Ids
  BY <1>1, <1>2, <1>3 DEF TypeOK
<1>6. /\ TypeOK' /\ QueueInv'
      /\ op'[h] = new
      /\ \A c \in Clients \ {h} : op'[c] = op[c]
  BY <1>1, <1>2, <1>4, <1>5, LeaveStep
<1>7. \A id : ~Writing("decide", id) /\ (Writing("request", id) => stage = "new" /\ id = o.id)
  BY DEF Writing
<1>8. \A id \in Ids : \/ savedRequests'[id] = savedRequests[id] /\ ~Writing("request", id)
                      \/ savedRequests'[id] = requested[id]
  BY <1>1, <1>2, <1>3, <1>7 DEF TypeOK
<1>9. DiskInv'
  <2>1. \A d \in decisions' \ savedDecisions' : d.id \in failed'
    BY <1>1, <1>7 DEF ApprovalsInv, DiskInv, memory
  <2>2. \A id \in Ids : /\ savedRequests'[id] \in {NoCommand, requested'[id]}
                        /\ savedRequests'[id] = requested'[id] \/ id \in failed'
    BY <1>1, <1>8 DEF ApprovalsInv, DiskInv, memory
  <2> QED
    BY <1>1, <2>1, <2>2 DEF ApprovalsInv, DiskInv, memory
<1>10. DecidedOnce' /\ GrantInv'
  BY <1>1, <1>8 DEF ApprovalsInv, DecidedOnce, GrantInv, Grant, memory
<1>11. SentIsOnRecord'
  <2>1. \A id \in Ids : savedRequests[id] # NoCommand => savedRequests'[id] = savedRequests[id]
    BY <1>8 DEF ApprovalsInv, DiskInv
  <2> QED
    BY <1>1, <1>2, <2>1, RecordStays DEF ApprovalsInv, TypeOK
<1>12. VerdictInv'
  <2> SUFFICES ASSUME NEW c \in Clients, op'[c].step \in {"allowed", "send"}
               PROVE  /\ Grant(op'[c].id) \in decisions /\ requested[op'[c].id] = op'[c].cmd
                      /\ op'[c].step = "send" /\ op'[c].id \notin failed =>
                            Grant(op'[c].id) \in savedDecisions
    BY <1>1 DEF VerdictInv, Grant, memory
  <2>1. CASE c = h
    <3>1. /\ op'[c].step = "send" /\ o.step = "allowed"
          /\ op'[c].id = o.id /\ op'[c].cmd = o.cmd
      BY <1>4, <1>6, <2>1
    <3>2. Grant(o.id) \in decisions /\ requested[o.id] = o.cmd
      BY <1>3, <3>1 DEF ApprovalsInv, VerdictInv
    <3>3. Grant(o.id) \in savedDecisions \/ o.id \in failed
      BY <1>7, <3>2 DEF ApprovalsInv, DiskInv, Grant
    <3> QED
      BY <3>1, <3>2, <3>3
  <2>2. CASE c # h
    BY <1>6, <2>2 DEF ApprovalsInv, VerdictInv
  <2> QED
    BY <2>1, <2>2
<1> QED
  BY <1>6, <1>9, <1>10, <1>11, <1>12 DEF ApprovalsInv

\* After a crash memory is what the disk holds; a grant that was saved finds its
\* request, unless the write of that request failed.
LEMMA CrashStep ==
    ASSUME ApprovalsInv, Crash
    PROVE  ApprovalsInv'
<1>1. /\ restarts < MaxRestarts /\ restarts' = restarts + 1
      /\ requested' = savedRequests /\ decisions' = savedDecisions
      /\ queue' = << >> /\ stage' = "none" /\ op' = [c \in Clients |-> Idle]
      /\ UNCHANGED <<disk, late, sent, history, requests>>
  BY DEF Crash
<1>2. TypeOK'
  <2>1. restarts' \in 0..MaxRestarts
    BY <1>1, BoundsAssumption DEF ApprovalsInv, TypeOK
  <2>2. Queued' = {} /\ queue' \in Seq(Clients)
    BY <1>1 DEF Queued
  <2> QED
    BY <1>1, <2>1, <2>2 DEF ApprovalsInv, TypeOK, Idle, disk, history
<1>3. QueueInv'
  BY <1>1 DEF QueueInv
<1>4. DiskInv'
  BY <1>1 DEF ApprovalsInv, DiskInv, disk, history
<1>5. DecidedOnce'
  BY <1>1 DEF ApprovalsInv, DecidedOnce, DiskInv, history
<1>6. GrantInv'
  BY <1>1 DEF ApprovalsInv, GrantInv, DiskInv, Grant, disk, history
<1>7. VerdictInv'
  BY <1>1 DEF VerdictInv, Idle
<1>8. SentIsOnRecord'
  BY <1>1 DEF ApprovalsInv, SentIsOnRecord, Grant, disk, history
<1> QED
  BY <1>2, <1>3, <1>4, <1>5, <1>6, <1>7, <1>8 DEF ApprovalsInv

\* Steps that change nothing.
LEMMA StutterStep ==
    ASSUME ApprovalsInv, UNCHANGED vars
    PROVE  ApprovalsInv'
<1>1. TypeOK'
  BY DEF ApprovalsInv, TypeOK, Queued, vars, memory, disk, history
<1>2. QueueInv' /\ DiskInv'
  BY DEF ApprovalsInv, QueueInv, DiskInv, Writing, vars, memory, disk, history
<1>3. DecidedOnce' /\ GrantInv' /\ VerdictInv' /\ SentIsOnRecord'
  BY DEF ApprovalsInv, DecidedOnce, GrantInv, VerdictInv, SentIsOnRecord, Grant,
         vars, memory, disk, history
<1> QED
  BY <1>1, <1>2, <1>3 DEF ApprovalsInv

-----------------------------------------------------------------------------
(* The theorems.                                                           *)

\* An empty log satisfies the invariant.
LEMMA InitInv == Init => ApprovalsInv
<1> SUFFICES ASSUME Init PROVE ApprovalsInv
  OBVIOUS
<1>1. Queued = {} /\ queue \in Seq(Clients)
  BY DEF Init, Queued
<1>2. TypeOK
  BY <1>1, BoundsAssumption DEF Init, TypeOK, Idle
<1>3. QueueInv /\ DiskInv /\ DecidedOnce /\ GrantInv /\ VerdictInv /\ SentIsOnRecord
  BY DEF Init, QueueInv, DiskInv, DecidedOnce, GrantInv, VerdictInv, SentIsOnRecord, Idle
<1> QED
  BY <1>2, <1>3 DEF ApprovalsInv

\* Every step keeps the invariant, action by action.
LEMMA NextStep == ApprovalsInv /\ [Next]_vars => ApprovalsInv'
<1> SUFFICES ASSUME ApprovalsInv, [Next]_vars PROVE ApprovalsInv'
  OBVIOUS
<1>1. ASSUME NEW c \in Clients, NEW id \in Ids, NEW cmd \in Commands, NEW claimed \in BOOLEAN,
             Dispatch(c, id, cmd, claimed)
      PROVE  ApprovalsInv'
  BY <1>1, DispatchStep
<1>2. ASSUME NEW c \in Clients, NEW id \in Ids, Replay(c, id)
      PROVE  ApprovalsInv'
  <2>1. requested[id] \in Commands
    BY <1>2 DEF Replay, ApprovalsInv, TypeOK
  <2> QED
    BY <1>2, <2>1, DispatchStep DEF Replay
<1>3. ASSUME NEW c \in Clients, NEW id \in Ids, NEW state \in States, Decide(c, id, state)
      PROVE  ApprovalsInv'
  BY <1>3, DecideStep
<1>4. ASSUME NEW id \in Ids, Lapse(id)
      PROVE  ApprovalsInv'
  BY <1>4, LapseStep
<1>5. CASE RunPush
  BY <1>5, RunPushStep
<1>6. CASE RunDecide
  BY <1>6, RunDecideStep
<1>7. CASE RefuseDecide
  BY <1>7, RefuseStep
<1>13. CASE DropDecision
  BY <1>13, DropStep
<1>8. CASE Saved
  BY <1>8, SavedDecisionStep, SavedPushStep
<1>9. CASE NotSaved
  BY <1>9, NotSavedStep
<1>10. ASSUME NEW c \in Clients, Send(c)
       PROVE  ApprovalsInv'
  BY <1>10, SendStep
<1>11. CASE Crash
  BY <1>11, CrashStep
<1>12. CASE UNCHANGED vars
  BY <1>12, StutterStep
<1> QED
  BY <1>1, <1>2, <1>3, <1>4, <1>5, <1>6, <1>7, <1>8, <1>9, <1>10, <1>11, <1>12, <1>13 DEF Next, Task

\* ApprovalsInv holds throughout: types, the queue, what the disk may lag
\* behind, which request a grant was given for, and the verdicts of claims.
THEOREM ApprovalsAreSafe == Spec => []ApprovalsInv
<1>1. Init => ApprovalsInv
  BY InitInv
<1>2. ApprovalsInv /\ [Next]_vars => ApprovalsInv'
  BY NextStep
<1> QED
  BY <1>1, <1>2, PTL DEF Spec

\* Of any number of operators that decide one approval, one wins: no step tells
\* an operator of a decision other than the one in memory
\* (decideApprovalInPersistentServerStorage).
THEOREM OneOperatorDecides == Spec => OneDecision
<1> DEFINE Agrees == \A t \in told' \ told, d \in decisions' : t.id = d.id => t.state = d.state
<1>1. ApprovalsInv /\ [Next]_vars => [Agrees]_vars
  <2> SUFFICES ASSUME ApprovalsInv, Next
               PROVE  Agrees
    OBVIOUS
  <2>1. CASE DropDecision
    <3>1. ~Decided(op[Head(queue)].id) /\ told' = told \cup {Told(op[Head(queue)], FALSE)}
          /\ decisions' = decisions
      BY <2>1 DEF DropDecision, Pending, memory
    <3> QED
      BY <3>1 DEF Decided, Told
  <2>2. CASE Saved
    <3>1. \/ told' = told
          \/ /\ told' = told \cup {Told(op[Head(queue)], TRUE)} /\ decisions' = decisions
             /\ op[Head(queue)].step = "decide" /\ stage # "none"
      BY <2>2 DEF Saved, memory
    <3>2. op[Head(queue)].step = "decide" /\ stage # "none" => Asked(op[Head(queue)]) \in decisions
      BY DEF ApprovalsInv, QueueInv
    <3> QED
      BY <3>1, <3>2 DEF ApprovalsInv, DecidedOnce, Asked, Told
  <2>3. told' = told \/ DropDecision \/ Saved
    BY DEF Next, Task, Dispatch, Replay, Decide, Lapse, RunPush, RunDecide, RefuseDecide,
           NotSaved, Answered, Send, Crash, history
  <2> QED
    BY <2>1, <2>2, <2>3
<1> QED
  BY <1>1, ApprovalsAreSafe, PTL DEF Spec, OneDecision

\* A decision that was stored and answered stays in memory and on disk through
\* failed writes and restarts.
THEOREM DecisionsAreKept == Spec => []ToldIsKept
<1>1. ApprovalsInv => ToldIsKept
  BY DEF ApprovalsInv, DiskInv, ToldIsKept
<1> QED
  BY <1>1, ApprovalsAreSafe, PTL

\* Unless a write of its request or its grant failed, a command that was sent
\* to a pane is what a human was shown and approved, and the log shows both
\* (dispatchServerTmuxCommandIfAllowed).
THEOREM SendsAreOnRecord == Spec => []SentIsOnRecord
<1>1. ApprovalsInv => SentIsOnRecord
  BY DEF ApprovalsInv
<1> QED
  BY <1>1, ApprovalsAreSafe, PTL

\* No step sends a command under an id whose rejection was stored and answered.
THEOREM RejectionsHold == Spec => RejectedIsNotSent
<1> DEFINE Holds == \A s \in sent' \ sent :
                       [id |-> s.id, state |-> "rejected", stored |-> TRUE] \notin told
<1>1. ApprovalsInv /\ [Next]_vars => [Holds]_vars
  <2> SUFFICES ASSUME ApprovalsInv, Next
               PROVE  Holds
    OBVIOUS
  <2>1. ASSUME NEW c \in Clients, Send(c)
        PROVE  Holds
    <3> SUFFICES ASSUME NEW s \in sent' \ sent,
                        [id |-> s.id, state |-> "rejected", stored |-> TRUE] \in told
                 PROVE  FALSE
      OBVIOUS
    <3>1. Grant(op[c].id) \in decisions /\ s.id = op[c].id
      BY <2>1 DEF ApprovalsInv, VerdictInv, Send
    <3>2. [id |-> s.id, state |-> "rejected"] \in decisions
      BY DEF ApprovalsInv, DiskInv, Asked
    <3> QED
      BY <3>1, <3>2 DEF ApprovalsInv, DecidedOnce, Grant
  <2>2. sent' = sent \/ \E c \in Clients : Send(c)
    BY DEF Next, Task, Dispatch, Replay, Decide, Lapse, RunPush, RunDecide, RefuseDecide,
           DropDecision, Saved, NotSaved, Crash
  <2> QED
    BY <2>1, <2>2
<1> QED
  BY <1>1, ApprovalsAreSafe, PTL DEF Spec, RejectedIsNotSent

\* Every variable of the approvals keeps its type.
THEOREM ApprovalsTypes == Spec => []TypeOK
<1>1. ApprovalsInv => TypeOK
  BY DEF ApprovalsInv
<1> QED
  BY <1>1, ApprovalsAreSafe, PTL
=============================================================================

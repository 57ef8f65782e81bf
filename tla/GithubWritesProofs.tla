------------------------- MODULE GithubWritesProofs -------------------------
(***************************************************************************)
(* Proofs about GithubWrites for any number of callers, plans, calls,      *)
(* faults and changes by others.                                           *)
(***************************************************************************)
EXTENDS GithubWrites, FiniteSetTheorems, SequenceTheorems, TLAPS

-----------------------------------------------------------------------------
(* Types. *)

Steps == {"approval", "check", "build", "sent", "applied", "refused"}

\* A request that takes its next step is otherwise the same, and the other
\* requests are not touched.
LEMMA GotoLemma ==
    ASSUME op \in [Callers -> Op \cup {Idle}], NEW c \in Callers, op[c] # Idle,
           NEW step \in Steps, Goto(c, step)
    PROVE  /\ op' \in [Callers -> Op \cup {Idle}]
           /\ op'[c] # Idle /\ op'[c].step = step
           /\ op'[c].p = op[c].p /\ op'[c].n = op[c].n
           /\ \A d \in Callers \ {c} : op'[d] = op[d]
<1>1. op[c] \in Op BY DEF Op
<1>2. op' = [op EXCEPT ![c] = [op[c] EXCEPT !.step = step]] BY DEF Goto
<1>3. [op[c] EXCEPT !.step = step] \in Op BY <1>1 DEF Op, Steps
<1>4. [op[c] EXCEPT !.step = step].step = step BY <1>1 DEF Op
<1>5. step # "idle" BY DEF Steps
<1>6. [op[c] EXCEPT !.step = step] # Idle BY <1>4, <1>5 DEF Idle
<1> QED BY <1>1, <1>2, <1>3, <1>4, <1>6 DEF Op

\* A request that ends is idle, and the others are not touched.
LEMMA FinishLemma ==
    ASSUME op \in [Callers -> Op \cup {Idle}], NEW c \in Callers, Finish(c)
    PROVE  /\ op' \in [Callers -> Op \cup {Idle}]
           /\ op'[c] = Idle
           /\ \A d \in Callers \ {c} : op'[d] = op[d]
<1> QED BY DEF Finish

\* An idle request is at no step of a write.
LEMMA IdleLemma ==
    ASSUME op \in [Callers -> Op \cup {Idle}], NEW c \in Callers
    PROVE  /\ op[c].step \in Steps => op[c] # Idle
           /\ op[c] # Idle => op[c].step \in Steps /\ op[c].p \in Plans /\ op[c].n \in 1..3
           /\ op[c] = Idle => op[c].step = "idle"
<1> QED BY DEF Op, Idle, Steps

\* Plans stay made, and keep their kinds, as long as nothing is planned.
LEMMA PlanUnchanged ==
    ASSUME UNCHANGED plan
    PROVE  /\ Made' = Made /\ Planned' = Planned
           /\ \A p \in Plans : Kind(p)' = Kind(p) /\ Saw(p)' = Saw(p)
<1> QED BY DEF Made, Planned, Kind, Saw

\* A plan that is made is a record of its kind.
LEMMA MadeLemma ==
    ASSUME plan \in [Plans -> PlanRecord \cup {NoPlan}], NEW p \in Made
    PROVE  /\ p \in Plans /\ plan[p] \in PlanRecord /\ Kind(p) \in AllKinds
           /\ Saw(p) \in Repository /\ plan[p].new \in Nat
<1> QED BY DEF Made, PlanRecord, Kind, Saw
\* A branch that is there has a last commit; the version of its file is a number.
LEMMA BlobLemma ==
    ASSUME NEW b \in Seq(Commit)
    PROVE  /\ b # Absent => Len(b) \in 1..Len(b) /\ b[Len(b)] \in Commit /\ Blob(b) = b[Len(b)].blob
           /\ Blob(b) \in Nat
<1>1. CASE b = Absent BY <1>1 DEF Blob
<1>2. CASE b # Absent
  <2>1. Len(b) # 0 BY <1>2, EmptySeq DEF Absent
  <2>2. Len(b) \in 1..Len(b) BY <2>1, LenProperties
  <2>3. b[Len(b)] \in Commit BY <2>2, ElementOfSeq
  <2>4. Blob(b) = b[Len(b)].blob BY <1>2 DEF Blob, Last
  <2> QED BY <2>2, <2>3, <2>4 DEF Commit
<1> QED BY <1>1, <1>2

\* What a write leaves is a repository.
LEMMA WrittenType ==
    ASSUME gh \in Repository, fresh \in Nat, plan \in [Plans -> PlanRecord \cup {NoPlan}],
           NEW p \in Made
    PROVE  Written(p) \in Repository
<1>1. Kind(p) \in AllKinds /\ Saw(p) \in Repository /\ plan[p].new \in Nat BY MadeLemma
<1>2. NewCommit(p) \in Commit BY <1>1 DEF NewCommit, Commit
<1>3. Append(gh.branch, NewCommit(p)) \in Seq(Commit) BY <1>2 DEF Repository
<1>4. CommitBuilt(p) \in Seq(Commit) BY <1>1, <1>2 DEF CommitBuilt, Repository
<1>5. CASE Kind(p) = "comment" BY <1>5 DEF Written, CommentWrite
<1>6. CASE Kind(p) = "branch" BY <1>1, <1>6 DEF Written, BranchWrite, Repository
<1>7. CASE Kind(p) = "file" BY <1>3, <1>7 DEF Written, FileWrite, Repository
<1>8. CASE Kind(p) = "pr" BY <1>8 DEF Written, PrWrite, Repository
<1>9. CASE Kind(p) = "text" BY <1>1, <1>9 DEF Written, TextWrite, Repository
<1>10. CASE Kind(p) = "labels" BY <1>1, <1>10 DEF Written, LabelsWrite, Repository
<1>11. CASE Kind(p) = "commit" BY <1>4, <1>11 DEF Written, CommitWrite, Repository
<1> QED BY <1>1, <1>5, <1>6, <1>7, <1>8, <1>9, <1>10, <1>11 DEF AllKinds

\* The type of what the requests wait for.
OpsOK ==
    /\ op \in [Callers -> Op \cup {Idle}]
    /\ \A c \in Callers : op[c] # Idle => /\ op[c].p \in Made
                                         /\ op[c].n <= Reads(Kind(op[c].p))

\* A step of a request to another step of the protocol keeps OpsOK.
LEMMA OpsGoto ==
    ASSUME OpsOK, UNCHANGED plan, NEW c \in Callers, op[c] # Idle, NEW step \in Steps,
           Goto(c, step)
    PROVE  OpsOK'
<1>1. /\ op' \in [Callers -> Op \cup {Idle}]
      /\ op'[c].p = op[c].p /\ op'[c].n = op[c].n
      /\ \A d \in Callers \ {c} : op'[d] = op[d]
    BY GotoLemma DEF OpsOK
<1>2. Made' = Made /\ \A p \in Plans : Kind(p)' = Kind(p) BY PlanUnchanged
<1>3. op[c].p \in Plans BY IdleLemma DEF OpsOK
<1> QED BY <1>1, <1>2, <1>3, IdleLemma DEF OpsOK

\* The end of a request keeps OpsOK.
LEMMA OpsFinish ==
    ASSUME OpsOK, UNCHANGED plan, NEW c \in Callers, Finish(c)
    PROVE  OpsOK'
<1>1. /\ op' \in [Callers -> Op \cup {Idle}] /\ op'[c] = Idle
      /\ \A d \in Callers \ {c} : op'[d] = op[d]
    BY FinishLemma DEF OpsOK
<1>2. Made' = Made /\ \A p \in Plans : Kind(p)' = Kind(p) BY PlanUnchanged
<1> QED BY <1>1, <1>2, IdleLemma DEF OpsOK

\* Nothing happens to the requests.
LEMMA OpsSame ==
    ASSUME OpsOK, UNCHANGED <<plan, op>>
    PROVE  OpsOK'
<1>1. Made' = Made /\ \A p \in Plans : Kind(p)' = Kind(p) BY PlanUnchanged
<1> QED BY <1>1, IdleLemma DEF OpsOK
\* Every kind of write has one to three reads.
LEMMA ReadsType == \A kind \in AllKinds : Reads(kind) \in 1..3
<1> QED BY DEF Reads, AllKinds

\* The part of TypeOK that is not about requests.
DataOK ==
    /\ gh \in Repository /\ fresh \in Nat
    /\ plan \in [Plans -> PlanRecord \cup {NoPlan}]
    /\ records \subseteq Planned /\ inFlight \subseteq Planned /\ observed \subseteq Planned
    /\ strays \in [Plans -> Nat] /\ {p \in Plans : strays[p] > 0} \subseteq Made
    /\ told \subseteq Made /\ standing \subseteq Made
    /\ count \in [Plans -> Nat] /\ lost \in [Plans -> Nat]
    /\ changes \in 0..MaxChanges /\ calls \in 0..MaxCalls /\ faults \in 0..MaxFaults

LEMMA TypeParts == TypeOK <=> DataOK /\ OpsOK
<1> QED BY DEF TypeOK, DataOK, OpsOK

\* The first state has the types.
LEMMA InitType == Init => TypeOK
<1> SUFFICES ASSUME Init PROVE TypeOK OBVIOUS
<1>1. InitCommit \in Commit /\ [id |-> 2, blob |-> 1] \in Commit BY DEF InitCommit, Commit
<1>2. Start \in Repository BY <1>1 DEF Start, Repository, Absent
<1>3. Made = {} BY DEF Init, Made
<1>4. DataOK BY <1>2, <1>3, BoundsAssumption DEF DataOK, Init, Planned
<1>5. OpsOK BY DEF OpsOK, Init
<1> QED BY <1>4, <1>5, TypeParts

\* Versions are numbers.
LEMMA VersionsType ==
    ASSUME TypeOK
    PROVE  Versions \subseteq Nat /\ \A kind \in AllKinds : Contents(kind) \subseteq Nat
<1>1. \A p \in Made : plan[p].new \in Nat BY MadeLemma DEF TypeOK
<1>2. fresh + 1 \in Nat BY DEF TypeOK
<1> QED BY <1>1, <1>2 DEF Versions, Contents

\* A new plan is a record of what may be planned; what was made stays.
LEMMA PlanStep ==
    ASSUME TypeOK, NEW p \in Plans, NEW kind \in AllKinds, Plan(p, kind)
    PROVE  /\ p \notin Made /\ Made' = Made \cup {p}
           /\ Planned' = IF kind = "commit" THEN Planned ELSE Planned \cup {p}
           /\ plan' \in [Plans -> PlanRecord \cup {NoPlan}]
           /\ \A q \in Plans \ {p} : plan'[q] = plan[q] /\ Kind(q)' = Kind(q) /\ Saw(q)' = Saw(q)
           /\ Kind(p)' = kind /\ Saw(p)' = gh /\ Plannable(kind, plan'[p].new)
<1>0. PICK new \in Contents(kind) :
         /\ Plannable(kind, new)
         /\ plan' = [plan EXCEPT ![p] = [kind |-> kind, saw |-> gh, new |-> new]]
    BY DEF Plan
<1> DEFINE r == [kind |-> kind, saw |-> gh, new |-> new]
<1>1. r \in PlanRecord
  <2>1. new \in Nat BY VersionsType
  <2> QED BY <2>1 DEF PlanRecord, TypeOK
<1>2. plan' = [plan EXCEPT ![p] = r] /\ plan[p] = NoPlan BY <1>0 DEF Plan
<1>3. r # NoPlan BY <1>1, NoPlanAssumption
<1>4. plan \in [Plans -> PlanRecord \cup {NoPlan}] BY DEF TypeOK
<1>5. plan' \in [Plans -> PlanRecord \cup {NoPlan}] BY <1>1, <1>2, <1>4
<1>6. \A q \in Plans \ {p} : plan'[q] = plan[q] BY <1>2, <1>4
<1>7. plan'[p] = r BY <1>2, <1>4
<1> HIDE DEF r
<1>8. p \notin Made /\ Made' = Made \cup {p} BY <1>2, <1>3, <1>6, <1>7 DEF Made
<1>9. \A q \in Plans \ {p} : Kind(q)' = Kind(q) /\ Saw(q)' = Saw(q) BY <1>6 DEF Kind, Saw
<1>a. Kind(p)' = kind /\ Saw(p)' = gh /\ plan'[p].new = new BY <1>7 DEF Kind, Saw, r
<1>10. Kind(p)' = kind /\ Saw(p)' = gh /\ Plannable(kind, plan'[p].new) BY <1>0, <1>a
<1>11. Planned' = IF kind = "commit" THEN Planned ELSE Planned \cup {p}
    BY <1>8, <1>9, <1>10 DEF Planned, Made
<1> QED BY <1>5, <1>6, <1>8, <1>9, <1>10, <1>11

\* Planning keeps the types.
LEMMA PlanType ==
    ASSUME TypeOK, NEW p \in Plans, NEW kind \in AllKinds, Plan(p, kind)
    PROVE  TypeOK'
<1>1. /\ p \notin Made /\ Made' = Made \cup {p}
      /\ Planned' = IF kind = "commit" THEN Planned ELSE Planned \cup {p}
      /\ plan' \in [Plans -> PlanRecord \cup {NoPlan}]
      /\ \A q \in Plans \ {p} : Kind(q)' = Kind(q)
    BY PlanStep
<1>2. records' \subseteq Planned' BY <1>1 DEF Plan, Pruned, TypeOK
<1>3. DataOK' BY <1>1, <1>2 DEF DataOK, TypeOK, Plan
<1>4. OpsOK'
  <2>1. UNCHANGED op /\ OpsOK BY TypeParts DEF Plan
  <2>2. \A c \in Callers : op[c] # Idle => op[c].p \in Plans \ {p}
      BY <2>1, <1>1, IdleLemma DEF OpsOK
  <2> QED BY <2>1, <2>2, <1>1 DEF OpsOK
<1> QED BY <1>3, <1>4 DEF TypeOK, DataOK, OpsOK

\* Executing a plan keeps the types.
LEMMA ExecuteType ==
    ASSUME TypeOK, NEW c \in Callers, NEW p \in Plans, Execute(c, p)
    PROVE  TypeOK'
<1>1. UNCHANGED plan /\ records' \subseteq records /\ p \in Made BY DEF Execute, Pruned
<1>2. Made' = Made /\ Planned' = Planned /\ \A q \in Plans : Kind(q)' = Kind(q) BY <1>1, PlanUnchanged
<1>3. DataOK' BY <1>1, <1>2, BoundsAssumption DEF DataOK, TypeOK, Execute, remote
<1>4. OpsOK'
  <2>1. OpsOK BY TypeParts
  <2>2. CASE UNCHANGED op BY <2>1, <2>2, <1>1, OpsSame
  <2>3. CASE op' = [op EXCEPT ![c] = [step |-> "approval", p |-> p, n |-> 1]]
    <3> DEFINE o == [step |-> "approval", p |-> p, n |-> 1]
    <3>1. o \in Op BY DEF Op
    <3>2. op'[c] = o /\ op' \in [Callers -> Op \cup {Idle}] /\ \A d \in Callers \ {c} : op'[d] = op[d]
        BY <2>1, <2>3, <3>1 DEF OpsOK
    <3>3. o.p = p /\ o.n = 1 OBVIOUS
    <3>4. 1 <= Reads(Kind(p)) BY <1>1, MadeLemma, ReadsType DEF TypeOK
    <3> HIDE DEF o
    <3>5. \A d \in Callers \ {c} : op'[d] # Idle => op'[d].p \in Plans BY <3>2, <2>1, IdleLemma DEF OpsOK
    <3> QED BY <1>1, <1>2, <2>1, <3>2, <3>3, <3>4, <3>5 DEF OpsOK
  <2> QED BY <2>2, <2>3 DEF Execute
<1> QED BY <1>3, <1>4 DEF TypeOK, DataOK, OpsOK
\* The steps of a request keep the types.
LEMMA CallerType ==
    ASSUME TypeOK, NEW c \in Callers, CallerStep(c)
    PROVE  TypeOK'
<1> DEFINE p == op[c].p
<1>1. OpsOK /\ DataOK BY TypeParts
<1>2. UNCHANGED plan
    BY DEF CallerStep, Verify, Check, Build, Receive, Confirm, Refuse, stores
<1>3. Made' = Made /\ Planned' = Planned /\ \A q \in Plans : Kind(q)' = Kind(q) BY <1>2, PlanUnchanged
<1>4. op[c] # Idle /\ p \in Plans /\ p \in Made
    BY <1>1, IdleLemma DEF CallerStep, Verify, Check, Build, Receive, Confirm, Refuse, Steps, OpsOK
<1>5. p \in Planned \/ Kind(p) = "commit" BY <1>4 DEF Planned
<1> HIDE DEF p
<1>6. OpsOK /\ DataOK BY <1>1
<1>7. CASE Verify(c)
  <2>1. DataOK' BY <1>3, <1>6, <1>7 DEF DataOK, Verify, remote, stores
  <2>2. OpsOK' BY <1>2, <1>4, <1>6, <1>7, OpsGoto, OpsFinish DEF Verify, Steps
  <2> QED BY <2>1, <2>2 DEF TypeOK, DataOK, OpsOK
<1>8. CASE Check(c)
  <2>1. CASE ~Passes(p, op[c].n) /\ Finish(c) /\ UNCHANGED inFlight
    <3>1. DataOK' BY <1>3, <1>6, <1>8, <2>1 DEF DataOK, Check, remote
    <3>2. OpsOK' BY <1>2, <1>6, <2>1, OpsFinish
    <3> QED BY <3>1, <3>2 DEF TypeOK, DataOK, OpsOK
  <2>2. CASE Passes(p, op[c].n) /\ ~LastRead(c) /\ op' = [op EXCEPT ![c].n = @ + 1] /\ UNCHANGED inFlight
    <3>1. DataOK' BY <1>3, <1>6, <1>8, <2>2 DEF DataOK, Check, remote
    <3>2. op[c] \in Op /\ op[c].n \in 1..3 BY <1>4, <1>6 DEF OpsOK, Op
    <3>3. op[c].n + 1 <= Reads(Kind(p)) /\ op[c].n + 1 \in 1..3
      <4>1. op[c].n <= Reads(Kind(p)) /\ op[c].n # Reads(Kind(p)) BY <1>4, <1>6, <2>2 DEF OpsOK, LastRead, p
      <4>2. Reads(Kind(p)) \in 1..3 BY <1>4, <1>6, MadeLemma, ReadsType DEF DataOK
      <4> QED BY <3>2, <4>1, <4>2
    <3> DEFINE o == [op[c] EXCEPT !.n = op[c].n + 1]
    <3>4. o \in Op /\ o.p = p /\ o.n = op[c].n + 1 BY <3>2, <3>3 DEF Op, p
    <3>5. op' = [op EXCEPT ![c] = o] BY <2>2
    <3> HIDE DEF o
    <3>6. op' \in [Callers -> Op \cup {Idle}] /\ op'[c] = o /\ \A d \in Callers \ {c} : op'[d] = op[d]
        BY <1>6, <3>4, <3>5 DEF OpsOK
    <3>7. \A d \in Callers \ {c} : op'[d] # Idle => op'[d].p \in Plans BY <3>6, <1>6, IdleLemma DEF OpsOK
    <3>8. OpsOK' BY <1>3, <1>4, <1>6, <3>3, <3>4, <3>6, <3>7 DEF OpsOK
    <3> QED BY <3>1, <3>8 DEF TypeOK, DataOK, OpsOK
  <2>3. CASE Kind(p) = "commit" /\ Goto(c, "build") /\ UNCHANGED inFlight
    <3>1. DataOK' BY <1>3, <1>6, <1>8, <2>3 DEF DataOK, Check, remote
    <3>2. OpsOK' BY <1>2, <1>4, <1>6, <2>3, OpsGoto DEF Steps
    <3> QED BY <3>1, <3>2 DEF TypeOK, DataOK, OpsOK
  <2>4. CASE Kind(p) # "commit" /\ Claimed(c, p)
    <3>1. inFlight' \subseteq inFlight \cup {p} BY <2>4 DEF Claimed
    <3>2. inFlight' \subseteq Planned BY <1>5, <1>6, <2>4, <3>1 DEF DataOK
    <3>3. DataOK' BY <1>3, <1>6, <1>8, <3>2 DEF DataOK, Check, remote
    <3>4. OpsOK' BY <1>2, <1>4, <1>6, <2>4, OpsGoto, OpsFinish DEF Claimed, Steps
    <3> QED BY <3>3, <3>4 DEF TypeOK, DataOK, OpsOK
  <2> QED BY <1>8, <2>1, <2>2, <2>3, <2>4 DEF Check, p
<1>9. CASE Build(c)
  <2>1. DataOK' BY <1>3, <1>6, <1>9 DEF DataOK, Build, remote, stores
  <2>2. OpsOK' BY <1>2, <1>4, <1>6, <1>9, OpsGoto DEF Build, Steps
  <2> QED BY <2>1, <2>2 DEF TypeOK, DataOK, OpsOK
<1>10. CASE Receive(c)
  <2>1. OpsOK' BY <1>2, <1>4, <1>6, <1>10, OpsGoto DEF Receive, Steps
  <2>2. Written(p) \in Repository BY <1>4, <1>6, WrittenType DEF DataOK
  <2>3. /\ gh' \in Repository /\ fresh' \in Nat /\ count' \in [Plans -> Nat]
        /\ standing' \subseteq Made
      BY <1>4, <1>6, <1>10, <2>2 DEF Receive, Apply, DataOK, p
  <2>4. DataOK' BY <1>3, <1>6, <1>10, <2>3 DEF DataOK, Receive, stores
  <2> QED BY <2>1, <2>4 DEF TypeOK, DataOK, OpsOK
<1>11. CASE Confirm(c)
  <2>1. OpsOK' BY <1>2, <1>6, <1>11, OpsFinish DEF Confirm
  <2>2. observed' \subseteq Planned /\ inFlight' \subseteq Planned
      BY <1>5, <1>6, <1>11 DEF Confirm, Mark, Release, DataOK, p
  <2>3. DataOK' BY <1>3, <1>4, <1>6, <1>11, <2>2 DEF DataOK, Confirm, remote, p
  <2> QED BY <2>1, <2>3 DEF TypeOK, DataOK, OpsOK
<1>12. CASE Refuse(c)
  <2>1. OpsOK' BY <1>2, <1>6, <1>12, OpsFinish DEF Refuse
  <2>2. DataOK' BY <1>3, <1>6, <1>12 DEF DataOK, Refuse, Release, AnswerRefused, remote
  <2> QED BY <2>1, <2>2 DEF TypeOK, DataOK, OpsOK
<1> QED BY <1>7, <1>8, <1>9, <1>10, <1>11, <1>12 DEF CallerStep

\* Failures, late writes and a restart keep the types.
LEMMA FaultType ==
    ASSUME TypeOK,
           \/ \E c \in Callers : Fail(c) \/ Lose(c)
           \/ \E p \in Plans : Arrive(p)
           \/ Restart
    PROVE  TypeOK'
<1>1. OpsOK /\ DataOK BY TypeParts
<1>2. UNCHANGED plan BY DEF Fail, Lose, Arrive, Restart, stores
<1>3. Made' = Made /\ Planned' = Planned /\ \A q \in Plans : Kind(q)' = Kind(q) BY <1>2, PlanUnchanged
<1>4. ASSUME NEW c \in Callers, Fail(c) PROVE TypeOK'
  <2>1. OpsOK' BY <1>1, <1>2, <1>4, OpsFinish DEF Fail
  <2>2. DataOK' BY <1>1, <1>3, <1>4, BoundsAssumption DEF DataOK, Fail, Fault, Release, remote
  <2> QED BY <2>1, <2>2 DEF TypeOK, DataOK, OpsOK
<1>5. ASSUME NEW c \in Callers, Lose(c) PROVE TypeOK'
  <2>1. OpsOK' BY <1>1, <1>2, <1>5, OpsFinish DEF Lose
  <2>2. op[c] # Idle /\ op[c].p \in Plans /\ op[c].p \in Made
      BY <1>1, <1>5, IdleLemma DEF Lose, OpsOK, Steps
  <2>3. /\ lost' \in [Plans -> Nat] /\ strays' \in [Plans -> Nat]
        /\ {q \in Plans : strays'[q] > 0} \subseteq Made
      BY <1>1, <1>5, <2>2 DEF Lose, DataOK
  <2>4. DataOK' BY <1>1, <1>3, <1>5, <2>3, BoundsAssumption DEF DataOK, Lose, Fault, Release
  <2> QED BY <2>1, <2>4 DEF TypeOK, DataOK, OpsOK
<1>6. ASSUME NEW p \in Plans, Arrive(p) PROVE TypeOK'
  <2>0. p \in Made BY <1>1, <1>6 DEF Arrive, DataOK
  <2>1. OpsOK' BY <1>1, <1>6, OpsSame DEF Arrive, stores
  <2>2. Written(p) \in Repository BY <1>1, <2>0, WrittenType DEF DataOK
  <2>3. /\ gh' \in Repository /\ fresh' \in Nat /\ count' \in [Plans -> Nat]
        /\ standing' \subseteq Made
        /\ strays' \in [Plans -> Nat] /\ {q \in Plans : strays'[q] > 0} \subseteq Made
      BY <1>1, <1>6, <2>0, <2>2 DEF Arrive, Apply, DataOK
  <2>4. DataOK' BY <1>1, <1>3, <1>6, <2>3 DEF DataOK, Arrive, stores
  <2> QED BY <2>1, <2>4 DEF TypeOK, DataOK, OpsOK
<1>7. ASSUME Restart PROVE TypeOK'
  <2>1. OpsOK' BY <1>7 DEF Restart, OpsOK
  <2>2. \A p \in Plans : \A steps : Cardinality(Senders(p, steps)) \in Nat
    <3> TAKE p \in Plans
    <3> TAKE steps
    <3>1. Senders(p, steps) \subseteq Callers BY DEF Senders
    <3> QED BY <3>1, CallersAssumption, FS_Subset, FS_CardinalityType
  <2>3. lost' \in [Plans -> Nat] /\ strays' \in [Plans -> Nat] BY <1>1, <1>7, <2>2 DEF Restart, DataOK
  <2>4. ASSUME NEW p \in Plans, strays'[p] > 0 PROVE p \in Made
    <3>1. CASE Senders(p, {"sent"}) = {}
      <4>1. Cardinality(Senders(p, {"sent"})) = 0 BY <3>1, FS_EmptySet
      <4>2. strays'[p] = strays[p] BY <1>1, <1>7, <4>1 DEF Restart, DataOK
      <4> QED BY <1>1, <2>4, <4>2 DEF DataOK
    <3>2. CASE Senders(p, {"sent"}) # {}
      <4>1. PICK c \in Callers : op[c].step = "sent" /\ op[c].p = p BY <3>2 DEF Senders
      <4> QED BY <1>1, <4>1, IdleLemma DEF OpsOK, Steps
    <3> QED BY <3>1, <3>2
  <2>5. DataOK' BY <2>4, <1>1, <1>3, <1>7, <2>3, BoundsAssumption DEF DataOK, Restart, Fault
  <2> QED BY <2>1, <2>5 DEF TypeOK, DataOK, OpsOK
<1> QED BY <1>4, <1>5, <1>6, <1>7
\* What the others do keeps the types.
LEMMA OthersType ==
    ASSUME TypeOK, Others
    PROVE  TypeOK'
<1>1. OpsOK /\ DataOK BY TypeParts
<1>2. /\ UNCHANGED <<stores, op, strays, count, told, lost, calls, faults>>
      /\ changes < MaxChanges /\ changes' = changes + 1 /\ standing' = {}
    BY DEF Others, ChangeIssue, ChangeMain, ChangeTarget, PushBranch, ResetBranch, ChangePr,
           ChangePull, ChangeText, ChangeLabels, Change
<1>3. UNCHANGED plan BY <1>2 DEF stores
<1>4. Made' = Made /\ Planned' = Planned BY <1>3, PlanUnchanged
<1>5. gh \in Repository /\ fresh \in Nat BY <1>1 DEF DataOK
<1>6. fresh' \in Nat
    BY <1>5 DEF Others, ChangeIssue, ChangeMain, ChangeTarget, PushBranch, ResetBranch, ChangePr,
           ChangePull, ChangeText, ChangeLabels
<1>7. gh' \in Repository
  <2>1. \A branch \in Seq(Commit), blob \in Nat : Pushed(branch, blob) \in Seq(Commit)
      BY <1>5 DEF Pushed, Commit
  <2>2. gh.branch \in Seq(Commit) /\ gh.main \in Seq(Commit) BY <1>5 DEF Repository
  <2>3. CASE ChangeIssue BY <1>5, <2>3 DEF ChangeIssue, Change, Repository
  <2>4. CASE ChangeMain
    <3>1. Pushed(gh.main, 1) \in Seq(Commit) BY <2>1, <2>2
    <3> QED BY <1>5, <2>4, <3>1 DEF ChangeMain, Change, Repository
  <2>5. CASE ChangeTarget
    <3>1. Absent \in Seq(Commit) BY DEF Absent
    <3> QED BY <1>5, <2>2, <2>5, <3>1 DEF ChangeTarget, Change, Repository
  <2>a. Versions \subseteq Nat BY VersionsType
  <2>6. CASE PushBranch
    <3>1. Blob(gh.branch) \in Nat BY <2>2, BlobLemma
    <3>2. PICK blob \in Versions \cup {Blob(gh.branch)} : Change([gh EXCEPT !.branch = Pushed(@, blob)])
        BY <2>6 DEF PushBranch
    <3>b. blob \in Nat BY <2>a, <3>1
    <3>3. Pushed(gh.branch, blob) \in Seq(Commit) BY <2>1, <2>2, <3>b
    <3> QED BY <1>5, <3>2, <3>3 DEF Change, Repository
  <2>7. CASE ResetBranch
    <3>1. PICK n \in 0..(Len(gh.branch) - 1) : Change([gh EXCEPT !.branch = SubSeq(@, 1, n)])
        BY <2>7 DEF ResetBranch
    <3>2. SubSeq(gh.branch, 1, n) \in Seq(Commit) BY <2>2
    <3> QED BY <1>5, <3>1, <3>2 DEF Change, Repository
  <2>8. CASE ChangePr BY <1>5, <2>8 DEF ChangePr, Change, Repository
  <2>9. CASE ChangePull BY <1>5, <2>9 DEF ChangePull, Change, Repository
  <2>10. CASE ChangeText
    <3>1. PICK v \in Versions : gh' = [gh EXCEPT !.text = v] BY <2>10 DEF ChangeText, Change
    <3>2. v \in Nat BY <2>a
    <3> QED BY <1>5, <3>1, <3>2 DEF Repository
  <2>11. CASE ChangeLabels
    <3>1. PICK v \in Versions : gh' = [gh EXCEPT !.labels = v] BY <2>11 DEF ChangeLabels, Change
    <3>2. v \in Nat BY <2>a
    <3> QED BY <1>5, <3>1, <3>2 DEF Repository
  <2> QED BY <2>3, <2>4, <2>5, <2>6, <2>7, <2>8, <2>9, <2>10, <2>11 DEF Others
<1>8. DataOK' BY <1>1, <1>2, <1>4, <1>6, <1>7, BoundsAssumption DEF DataOK, stores
<1>9. OpsOK' BY <1>1, <1>2, OpsSame DEF stores
<1> QED BY <1>8, <1>9 DEF TypeOK, DataOK, OpsOK

\* Every step keeps the types.
LEMMA StepType == TypeOK /\ [Next]_vars => TypeOK'
<1> SUFFICES ASSUME TypeOK, [Next]_vars PROVE TypeOK' OBVIOUS
<1>1. CASE UNCHANGED vars
  <2>1. Made' = Made /\ Planned' = Planned BY <1>1, PlanUnchanged DEF vars, stores
  <2>2. DataOK' BY <1>1, <2>1, TypeParts DEF DataOK, vars, stores
  <2>3. OpsOK' BY <1>1, TypeParts, OpsSame DEF vars, stores
  <2> QED BY <2>2, <2>3 DEF TypeOK, DataOK, OpsOK
<1>2. CASE \E p \in Plans : \E kind \in AllKinds : Plan(p, kind) BY <1>2, PlanType
<1>3. CASE \E c \in Callers : \E p \in Plans : Execute(c, p) BY <1>3, ExecuteType
<1>4. CASE \E c \in Callers : CallerStep(c) BY <1>4, CallerType
<1>5. CASE \/ \E c \in Callers : Fail(c) \/ Lose(c)
           \/ \E p \in Plans : Arrive(p)
           \/ Restart
    BY <1>5, FaultType
<1>6. CASE Others BY <1>6, OthersType
<1> QED BY <1>1, <1>2, <1>3, <1>4, <1>5, <1>6 DEF Next

\* All variables keep their types, whatever is planned, executed, lost or changed.
THEOREM TypeCorrect == Spec => []TypeOK
<1> QED BY InitType, StepType, PTL DEF Spec
-----------------------------------------------------------------------------
(***************************************************************************)
(* What the stores promise.  A plan has at most one request that writes;   *)
(* it holds the claim until it ends.  A plan that somebody may still claim *)
(* has taken effect, or is on its way, only as often as answers were lost. *)
(***************************************************************************)
Writes(c) == op[c].step \in {"sent", "applied", "refused"}

OneWriter ==
    \A c, d \in Callers :
       Writes(c) /\ Writes(d) /\ op[c].p = op[d].p /\ op[c].p \in Planned => c = d
WriterClaims ==
    \A c \in Callers :
       Writes(c) /\ op[c].p \in Planned => op[c].p \in inFlight /\ op[c].p \notin observed
BuildsCommits == \A c \in Callers : op[c].step = "build" => op[c].p \notin Planned
AppliedIsCounted == \A c \in Callers : op[c].step = "applied" => count[op[c].p] > 0
UnmadeIsUncounted == \A p \in Plans \ Made : count[p] = 0
WritesBounded == \A p \in Planned : count[p] + strays[p] <= lost[p] + 1

\* Somebody may still execute the plan, and may get the claim.
Live(p) == p \in records \/ \E c \in Callers : op[c] # Idle /\ op[c].p = p
Open(p) == /\ p \notin observed
           /\ p \in inFlight => \E c \in Callers : op[c].step \in {"sent", "refused"} /\ op[c].p = p
OpenIsUnwritten ==
    \A p \in Planned : Live(p) /\ Open(p) => count[p] + strays[p] <= lost[p]

WritesInv ==
    /\ OneWriter /\ WriterClaims /\ BuildsCommits /\ AppliedIsCounted /\ UnmadeIsUncounted
    /\ WritesBounded /\ OpenIsUnwritten /\ ObservedIsWritten /\ ClaimsEnd

\* A writing request is none of the idle ones.
LEMMA WritesLemma ==
    ASSUME OpsOK, NEW c \in Callers
    PROVE  /\ Writes(c) => op[c] # Idle
           /\ op[c].step = "build" => op[c] # Idle
           /\ op[c] # Idle => op[c].p \in Made /\ op[c].p \in Plans
<1> QED BY IdleLemma DEF Writes, OpsOK, Steps

\* The first state satisfies the invariant.
LEMMA InitWrites == Init => WritesInv
<1> SUFFICES ASSUME Init PROVE WritesInv OBVIOUS
<1>1. Made = {} /\ Planned = {} BY DEF Init, Made, Planned
<1>2. \A c \in Callers : op[c].step = "idle" BY DEF Init, Idle
<1> QED BY <1>1, <1>2 DEF Init, WritesInv, OneWriter, WriterClaims, BuildsCommits, AppliedIsCounted,
      UnmadeIsUncounted, WritesBounded, OpenIsUnwritten, ObservedIsWritten, ClaimsEnd, Writes

\* What a request may do without touching claims or GitHub: nothing, or end
\* before it has written, or go on reading, or send the update of a ref.
Reading(d) == /\ op'[d].step \in {"approval", "check", "build"} /\ ~Writes(d)
              /\ \/ op[d] # Idle /\ op'[d].p = op[d].p
                 \/ op'[d].p \in records' \/ op'[d].p \notin Planned
              /\ op'[d].step = "build" => op'[d].p \notin Planned
QuietOp(d) == \/ op'[d] = op[d]
              \/ op'[d] = Idle /\ ~Writes(d)
              \/ Reading(d)
              \/ op[d].step = "build" /\ op'[d].step = "sent" /\ op'[d].p = op[d].p

\* A step that leaves the claims and GitHub's counts alone keeps the invariant.
LEMMA QuietStep ==
    ASSUME OpsOK, OpsOK', WritesInv,
           UNCHANGED <<plan, inFlight, observed, strays, count, lost>>,
           records' \subseteq records, told' \subseteq told \cup observed,
           \A d \in Callers : QuietOp(d)
    PROVE  WritesInv'
<1>1. Made' = Made /\ Planned' = Planned BY PlanUnchanged
<1>2. \A d \in Callers : Writes(d)' => \/ op'[d] = op[d]
                                       \/ op'[d].p \notin Planned /\ op'[d].step = "sent"
    BY DEF WritesInv, BuildsCommits, QuietOp, Reading, Writes, Idle
<1>3. \A d \in Callers : Writes(d) => op'[d] = op[d] BY DEF QuietOp, Reading, Writes
<1>4. OneWriter' BY <1>1, <1>2 DEF WritesInv, OneWriter, Writes
<1>5. WriterClaims' BY <1>1, <1>2 DEF WritesInv, WriterClaims, Writes
<1>6. BuildsCommits' BY <1>1 DEF WritesInv, BuildsCommits, QuietOp, Reading, Idle
<1>7. AppliedIsCounted' BY <1>2 DEF WritesInv, AppliedIsCounted, Writes
<1>8. UnmadeIsUncounted' /\ WritesBounded' BY <1>1 DEF WritesInv, UnmadeIsUncounted, WritesBounded
<1>9. OpenIsUnwritten'
  <2>1. ASSUME NEW p \in Planned, Live(p)' PROVE Live(p)
    <3>1. CASE p \in records' BY <3>1 DEF Live
    <3>2. CASE \E c \in Callers : op'[c] # Idle /\ op'[c].p = p
      <4>1. PICK c \in Callers : op'[c] # Idle /\ op'[c].p = p BY <3>2
      <4> QED BY <4>1, WritesLemma DEF Live, QuietOp, Reading
    <3> QED BY <2>1, <3>1, <3>2 DEF Live
  <2>2. ASSUME NEW p \in Planned, Open(p)' PROVE Open(p)
      BY <1>2, <2>2 DEF Open, Writes
  <2> QED BY <1>1, <2>1, <2>2 DEF WritesInv, OpenIsUnwritten
<1>10. ObservedIsWritten' BY DEF WritesInv, ObservedIsWritten
<1>11. ClaimsEnd' BY <1>3 DEF WritesInv, ClaimsEnd, Senders, Writes
<1> QED BY <1>4, <1>5, <1>6, <1>7, <1>8, <1>9, <1>10, <1>11 DEF WritesInv
\* The claim of a plan keeps the invariant.
LEMMA ClaimStep ==
    ASSUME OpsOK, OpsOK', WritesInv, NEW c \in Callers, op[c].step = "check",
           UNCHANGED <<plan, records, observed, strays, count, lost, told>>,
           op[c].p \in Planned, TryClaim(op[c].p),
           inFlight' = inFlight \cup {op[c].p}, Goto(c, "sent"),
           count \in [Plans -> Nat], lost \in [Plans -> Nat], strays \in [Plans -> Nat]
    PROVE  WritesInv'
<1> DEFINE p == op[c].p
<1>1. Made' = Made /\ Planned' = Planned BY PlanUnchanged
<1>2. op[c] # Idle BY DEF Idle
<1>3. /\ op'[c] # Idle /\ op'[c].step = "sent" /\ op'[c].p = p
      /\ \A d \in Callers \ {c} : op'[d] = op[d]
    BY <1>2, GotoLemma DEF OpsOK, Steps
<1>4. \A d \in Callers : Writes(d) => op[d].p # p BY DEF WritesInv, WriterClaims, TryClaim
<1>5. p \in Plans /\ p \in Planned /\ p \notin inFlight /\ p \notin observed BY DEF Planned, Made, TryClaim
<1>6. count[p] + strays[p] <= lost[p] BY <1>2, <1>5 DEF WritesInv, OpenIsUnwritten, Live, Open
<1> HIDE DEF p
<1>7. OneWriter' BY <1>1, <1>3, <1>4 DEF WritesInv, OneWriter, Writes
<1>8. WriterClaims' BY <1>1, <1>3, <1>5 DEF WritesInv, WriterClaims, Writes, p
<1>9. BuildsCommits' /\ AppliedIsCounted' BY <1>1, <1>3 DEF WritesInv, BuildsCommits, AppliedIsCounted
<1>10. UnmadeIsUncounted' /\ WritesBounded' BY <1>1 DEF WritesInv, UnmadeIsUncounted, WritesBounded
<1>11. OpenIsUnwritten'
  <2>1. ASSUME NEW q \in Planned, q # p, Live(q)', Open(q)' PROVE Live(q) /\ Open(q)
      BY <1>2, <1>3, <2>1 DEF Live, Open, p
  <2>2. ASSUME NEW q \in Planned, Live(q)', Open(q)' PROVE count[q] + strays[q] <= lost[q]
      BY <1>6, <2>1, <2>2 DEF WritesInv, OpenIsUnwritten
  <2> QED BY <1>1, <2>2 DEF OpenIsUnwritten
<1>12. ObservedIsWritten' BY DEF WritesInv, ObservedIsWritten
<1>13. ClaimsEnd' BY <1>3 DEF WritesInv, ClaimsEnd, Senders, p
<1> QED BY <1>7, <1>8, <1>9, <1>10, <1>11, <1>12, <1>13 DEF WritesInv

\* An answer of GitHub to a write that is on its way: applied and counted, or refused.
LEMMA ReceiveStep ==
    ASSUME TypeOK, OpsOK', WritesInv, NEW c \in Callers, Receive(c)
    PROVE  WritesInv'
<1> DEFINE p == op[c].p
<1>0. OpsOK /\ DataOK BY TypeParts
<1>1. Made' = Made /\ Planned' = Planned BY PlanUnchanged DEF Receive, stores
<1>2. op[c] # Idle /\ Writes(c) /\ p \in Plans /\ p \in Made BY <1>0, WritesLemma DEF Receive, Writes
<1>3. PICK step \in {"applied", "refused"} :
         /\ Goto(c, step)
         /\ step = "applied" => count' = [count EXCEPT ![p] = @ + 1]
         /\ step = "refused" => UNCHANGED count
    BY DEF Receive, Apply
<1>4. /\ op'[c] # Idle /\ op'[c].step = step /\ op'[c].p = p
      /\ \A d \in Callers \ {c} : op'[d] = op[d]
    BY <1>0, <1>2, <1>3, GotoLemma DEF OpsOK, Steps
<1>5. op[c].step = "sent" /\ UNCHANGED <<records, inFlight, observed, strays, told, lost>>
    BY DEF Receive, stores
<1>6. /\ count' \in [Plans -> Nat] /\ count'[p] <= count[p] + 1 /\ count'[p] >= count[p]
      /\ step = "applied" => count'[p] > 0
      /\ step = "refused" => count'[p] = count[p]
      /\ \A q \in Plans \ {p} : count'[q] = count[q]
    BY <1>0, <1>2, <1>3 DEF DataOK
<1>7. p \in Planned => count[p] + strays[p] <= lost[p]
    BY <1>2, <1>5 DEF WritesInv, OpenIsUnwritten, Live, Open, WriterClaims
<1> HIDE DEF p
<1>8. OneWriter' BY <1>1, <1>2, <1>4 DEF WritesInv, OneWriter, Writes, p
<1>9. WriterClaims' BY <1>1, <1>2, <1>4, <1>5 DEF WritesInv, WriterClaims, Writes, p
<1>10. BuildsCommits' BY <1>1, <1>4 DEF WritesInv, BuildsCommits
<1>11. AppliedIsCounted'
  <2>1. \A d \in Callers \ {c} : op[d].step = "applied" => op[d].p \in Plans BY <1>0, WritesLemma DEF Writes
  <2> QED BY <1>0, <1>4, <1>6, <2>1 DEF WritesInv, AppliedIsCounted, DataOK
<1>12. UnmadeIsUncounted' BY <1>1, <1>2, <1>6 DEF WritesInv, UnmadeIsUncounted
<1>13. WritesBounded'
  <2>1. \A q \in Planned : q \in Plans BY DEF Planned, Made
  <2> QED BY <1>0, <1>1, <1>5, <1>6, <1>7, <2>1 DEF WritesInv, WritesBounded, DataOK
<1>14. OpenIsUnwritten'
  <2>1. ASSUME NEW q \in Planned, Live(q)', Open(q)' PROVE count'[q] + strays[q] <= lost[q]
    <3>1. q \in Plans BY DEF Planned, Made
    <3>2. CASE q # p
      <4>1. Live(q) /\ Open(q) BY <1>2, <1>4, <1>5, <2>1, <3>2 DEF Live, Open, p
      <4> QED BY <1>6, <3>1, <3>2, <4>1 DEF WritesInv, OpenIsUnwritten
    <3>3. CASE q = p /\ step = "refused" BY <1>6, <1>7, <3>3
    <3>4. CASE q = p /\ step = "applied"
      <4>1. p \in inFlight BY <1>2, <3>4 DEF WritesInv, WriterClaims, p
      <4>2. PICK d \in Callers : op'[d].step \in {"sent", "refused"} /\ op'[d].p = p
          BY <1>5, <2>1, <3>4, <4>1 DEF Open
      <4>3. d # c BY <1>4, <3>4, <4>2
      <4>4. Writes(d) /\ op[d].p = p BY <1>4, <4>2, <4>3 DEF Writes
      <4> QED BY <1>2, <3>4, <4>3, <4>4 DEF WritesInv, OneWriter, p
    <3> QED BY <3>2, <3>3, <3>4
  <2> QED BY <1>1, <1>5, <2>1 DEF OpenIsUnwritten
<1>15. ObservedIsWritten' BY <1>0, <1>5, <1>6 DEF WritesInv, ObservedIsWritten, DataOK
<1>16. ClaimsEnd' BY <1>4, <1>5 DEF WritesInv, ClaimsEnd, Senders, p
<1> QED BY <1>8, <1>9, <1>10, <1>11, <1>12, <1>13, <1>14, <1>15, <1>16 DEF WritesInv
\* The end of a writing request: it keeps the invariant if a claim that is
\* given back, and not observed, leaves the plan with no more effects than
\* lost answers.
LEMMA EndStep ==
    ASSUME TypeOK, OpsOK', WritesInv, NEW c \in Callers, Writes(c), Finish(c),
           NEW p \in Plans, p = op[c].p,
           UNCHANGED <<plan, records, count>>,
           strays' \in [Plans -> Nat], lost' \in [Plans -> Nat],
           \A q \in Plans \ {p} : strays'[q] = strays[q] /\ lost'[q] = lost[q],
           observed' = observed \/ (observed' = observed \cup {p} /\ count[p] > 0),
           told' = told \/ (told' = told \cup {p} /\ count[p] > 0),
           \/ inFlight' = inFlight \ {p}
           \/ inFlight' = inFlight /\ (p \notin records \/ p \notin Planned),
           p \in Planned => count[p] + strays'[p] <= lost'[p] + 1,
           p \in Planned /\ p \notin observed' /\ p \notin inFlight' => count[p] + strays'[p] <= lost'[p]
    PROVE  WritesInv'
<1>0. OpsOK /\ DataOK BY TypeParts
<1>1. Made' = Made /\ Planned' = Planned BY PlanUnchanged
<1>2. op[c] # Idle /\ p \in Made BY <1>0, WritesLemma
<1>3. op'[c] = Idle /\ \A d \in Callers \ {c} : op'[d] = op[d] BY <1>0, FinishLemma DEF OpsOK
<1>4. Idle.step = "idle" BY DEF Idle
<1>5. \A d \in Callers : Writes(d)' => d # c /\ Writes(d) BY <1>3, <1>4 DEF Writes
<1>6. p \in Planned => \A d \in Callers \ {c} : Writes(d) => op[d].p # p
    BY DEF WritesInv, OneWriter
<1>7. OneWriter' BY <1>1, <1>3, <1>5 DEF WritesInv, OneWriter
<1>8. WriterClaims' BY <1>1, <1>3, <1>5, <1>6 DEF WritesInv, WriterClaims
<1>9. BuildsCommits' /\ AppliedIsCounted' BY <1>1, <1>3, <1>4 DEF WritesInv, BuildsCommits, AppliedIsCounted
<1>10. UnmadeIsUncounted' BY <1>1 DEF WritesInv, UnmadeIsUncounted
<1>11. WritesBounded'
  <2>1. \A q \in Planned : q \in Plans BY DEF Planned, Made
  <2> QED BY <1>1, <2>1 DEF WritesInv, WritesBounded
<1>12. OpenIsUnwritten'
  <2>1. ASSUME NEW q \in Planned, Live(q)', Open(q)' PROVE count[q] + strays'[q] <= lost'[q]
    <3>1. q \in Plans BY DEF Planned, Made
    <3>2. CASE q # p
      <4>1. Live(q) BY <1>3, <2>1 DEF Live
      <4>2. Open(q) BY <1>3, <1>4, <2>1, <3>2 DEF Open
      <4> QED BY <3>1, <3>2, <4>1, <4>2 DEF WritesInv, OpenIsUnwritten
    <3>3. CASE q = p
      <4>1. p \notin observed' BY <2>1, <3>3 DEF Open
      <4>2. ASSUME p \in inFlight' PROVE FALSE
        <5>1. PICK d \in Callers : op'[d].step \in {"sent", "refused"} /\ op'[d].p = p
            BY <2>1, <3>3, <4>2 DEF Open
        <5>2. d # c /\ Writes(d) BY <1>5, <5>1 DEF Writes
        <5> QED BY <1>3, <1>6, <2>1, <3>3, <5>1, <5>2
      <4> QED BY <2>1, <3>3, <4>1, <4>2
    <3> QED BY <3>2, <3>3
  <2> QED BY <1>1, <2>1 DEF OpenIsUnwritten
<1>13. ObservedIsWritten' BY DEF WritesInv, ObservedIsWritten
<1>14. ClaimsEnd'
  <2>1. p \notin Planned => p \notin inFlight BY <1>0 DEF DataOK
  <2> QED BY <1>3, <2>1 DEF WritesInv, ClaimsEnd, Senders
<1> QED BY <1>7, <1>8, <1>9, <1>10, <1>11, <1>12, <1>13, <1>14 DEF WritesInv

\* GitHub's confirmation keeps the invariant.
LEMMA ConfirmStep ==
    ASSUME TypeOK, OpsOK', WritesInv, NEW c \in Callers, Confirm(c)
    PROVE  WritesInv'
<1> DEFINE p == op[c].p
<1>1. OpsOK /\ DataOK BY TypeParts
<1>2. Writes(c) BY DEF Confirm, Writes
<1>3. p \in Plans /\ p \in Made BY <1>1, <1>2, WritesLemma
<1>4. count[p] > 0 BY DEF Confirm, WritesInv, AppliedIsCounted
<1>5. UNCHANGED <<plan, records, count, strays, lost>> /\ Finish(c) /\ told' = told \cup {p}
    BY DEF Confirm, remote
<1>6. p \in Planned => count[p] + strays[p] <= lost[p] + 1 BY DEF WritesInv, WritesBounded
<1>7. p \in Planned => p \in inFlight BY <1>2 DEF WritesInv, WriterClaims
<1>8. CASE Kind(p) = "commit"
  <2>1. UNCHANGED <<observed, inFlight>> BY <1>8 DEF Confirm
  <2>2. p \notin Planned BY <1>8 DEF Planned
  <2> QED BY <1>1, <1>2, <1>3, <1>4, <1>5, <2>1, <2>2, EndStep DEF DataOK
<1>9. CASE Kind(p) # "commit"
  <2>1. Mark(p) BY <1>9 DEF Confirm
  <2>2. CASE UNCHANGED <<observed, inFlight>> /\ p \notin records
      BY <1>1, <1>2, <1>3, <1>4, <1>5, <1>6, <1>7, <2>2, EndStep DEF DataOK
  <2>3. CASE observed' = observed \cup {p} /\ inFlight' = inFlight \ {p}
      BY <1>1, <1>2, <1>3, <1>4, <1>5, <1>6, <2>3, EndStep DEF DataOK
  <2> QED BY <2>1, <2>2, <2>3 DEF Mark, Release
<1> QED BY <1>8, <1>9

\* A plan that is sent or refused has taken effect only as often as answers were lost.
LEMMA SentIsOpen ==
    ASSUME TypeOK, WritesInv, NEW c \in Callers, op[c].step \in {"sent", "refused"},
           op[c].p \in Planned
    PROVE  count[op[c].p] + strays[op[c].p] <= lost[op[c].p]
<1>1. Writes(c) /\ op[c] # Idle BY WritesLemma, TypeParts DEF Writes
<1> QED BY <1>1 DEF WritesInv, OpenIsUnwritten, Live, Open, WriterClaims

\* A refusal, and a call that failed, keep the invariant.
LEMMA ReleaseStep ==
    ASSUME TypeOK, OpsOK', WritesInv, NEW c \in Callers, op[c].step \in {"sent", "refused"},
           Finish(c), Release(op[c].p),
           UNCHANGED <<plan, records, observed, told, count, strays, lost>>
    PROVE  WritesInv'
<1> DEFINE p == op[c].p
<1>1. OpsOK /\ DataOK BY TypeParts
<1>2. Writes(c) BY DEF Writes
<1>3. p \in Plans BY <1>1, <1>2, WritesLemma
<1>4. p \in Planned => count[p] + strays[p] <= lost[p] BY SentIsOpen
<1>5. count[p] \in Nat /\ strays[p] \in Nat /\ lost[p] \in Nat BY <1>1, <1>3 DEF DataOK
<1>6. p \in Planned => count[p] + strays[p] <= lost[p] + 1 BY <1>4, <1>5
<1>7. inFlight' = inFlight \ {p} BY DEF Release
<1>8. UNCHANGED <<plan, records, count>> /\ observed' = observed /\ told' = told OBVIOUS
<1>9. /\ strays' \in [Plans -> Nat] /\ lost' \in [Plans -> Nat]
      /\ \A q \in Plans \ {p} : strays'[q] = strays[q] /\ lost'[q] = lost[q]
      /\ p \in Planned => count[p] + strays'[p] <= lost'[p] /\ count[p] + strays'[p] <= lost'[p] + 1
    BY <1>1, <1>4, <1>6 DEF DataOK
<1> QED BY <1>2, <1>3, <1>7, <1>8, <1>9, EndStep

\* A lost answer keeps the invariant: the plan may take effect once more.
LEMMA LoseStep ==
    ASSUME TypeOK, OpsOK', WritesInv, NEW c \in Callers, Lose(c)
    PROVE  WritesInv'
<1> DEFINE p == op[c].p
<1>1. OpsOK /\ DataOK BY TypeParts
<1>2. Writes(c) BY DEF Lose, Writes
<1>3. p \in Plans BY <1>1, <1>2, WritesLemma
<1>4. UNCHANGED <<plan, records, observed, told, count>> /\ Finish(c) /\ inFlight' = inFlight \ {p}
    BY DEF Lose, Release
<1>5. /\ lost' \in [Plans -> Nat] /\ strays' \in [Plans -> Nat] /\ lost'[p] = lost[p] + 1
      /\ op[c].step = "sent" => strays'[p] = strays[p] + 1
      /\ op[c].step = "applied" => strays'[p] = strays[p]
      /\ \A q \in Plans \ {p} : strays'[q] = strays[q] /\ lost'[q] = lost[q]
    BY <1>1, <1>3 DEF Lose, DataOK
<1>6. p \in Planned => count[p] + strays'[p] <= lost'[p]
  <2>1. count[p] \in Nat /\ strays[p] \in Nat /\ lost[p] \in Nat BY <1>1, <1>3 DEF DataOK
  <2>2. CASE op[c].step = "sent" BY <1>5, <2>1, <2>2, SentIsOpen
  <2>3. CASE op[c].step = "applied" BY <1>5, <2>1, <2>3 DEF WritesInv, WritesBounded
  <2> QED BY <2>2, <2>3 DEF Lose
<1>7. p \in Planned => count[p] + strays'[p] <= lost'[p] + 1
    BY <1>1, <1>3, <1>5, <1>6 DEF DataOK
<1>8. UNCHANGED <<plan, records, count>> /\ observed' = observed /\ told' = told BY <1>4
<1>9. /\ strays' \in [Plans -> Nat] /\ lost' \in [Plans -> Nat]
      /\ \A q \in Plans \ {p} : strays'[q] = strays[q] /\ lost'[q] = lost[q]
    BY <1>5
<1> QED BY <1>2, <1>3, <1>4, <1>6, <1>7, <1>8, <1>9, EndStep
\* A late write keeps the invariant: its lost answer has been counted.
LEMMA ArriveStep ==
    ASSUME TypeOK, WritesInv, NEW p \in Plans, Arrive(p)
    PROVE  WritesInv'
<1>1. OpsOK /\ DataOK BY TypeParts
<1>2. Made' = Made /\ Planned' = Planned BY PlanUnchanged DEF Arrive, stores
<1>3. UNCHANGED <<records, inFlight, observed, op, told, lost>> BY DEF Arrive, stores
<1>4. p \in Made BY <1>1 DEF Arrive, DataOK
<1>5. /\ count' \in [Plans -> Nat] /\ strays' \in [Plans -> Nat]
      /\ count'[p] + strays'[p] <= count[p] + strays[p]
      /\ \A q \in Plans : count'[q] >= count[q]
      /\ \A q \in Plans \ {p} : count'[q] = count[q] /\ strays'[q] = strays[q]
    BY <1>1 DEF Arrive, Apply, DataOK
<1>6. \A q \in Planned : /\ q \in Plans
                         /\ count'[q] + strays'[q] <= count[q] + strays[q]
                         /\ count'[q] + strays'[q] \in Nat /\ count[q] + strays[q] \in Nat /\ lost[q] \in Nat
    BY <1>1, <1>5 DEF Planned, Made, DataOK
<1>7. OneWriter' /\ WriterClaims' /\ BuildsCommits' /\ ClaimsEnd'
    BY <1>2, <1>3 DEF WritesInv, OneWriter, WriterClaims, BuildsCommits, ClaimsEnd, Writes, Senders
<1>8. AppliedIsCounted'
  <2>1. \A c \in Callers : op[c].step = "applied" => op[c].p \in Plans BY <1>1, WritesLemma DEF Writes
  <2> QED BY <1>1, <1>3, <1>5, <2>1 DEF WritesInv, AppliedIsCounted, DataOK
<1>9. UnmadeIsUncounted' BY <1>2, <1>4, <1>5 DEF WritesInv, UnmadeIsUncounted
<1>10. WritesBounded' BY <1>2, <1>3, <1>6 DEF WritesInv, WritesBounded
<1>11. OpenIsUnwritten' BY <1>2, <1>3, <1>6 DEF WritesInv, OpenIsUnwritten, Live, Open
<1>12. ObservedIsWritten' BY <1>1, <1>3, <1>5 DEF WritesInv, ObservedIsWritten, DataOK
<1> QED BY <1>7, <1>8, <1>9, <1>10, <1>11, <1>12 DEF WritesInv

\* A restart keeps the invariant: nobody can execute a plan that was made
\* before, and the answers of all writes under way count as lost.
LEMMA RestartStep ==
    ASSUME TypeOK, TypeOK', WritesInv, Restart
    PROVE  WritesInv'
<1>1. OpsOK /\ DataOK BY TypeParts
<1>2. Made' = Made /\ Planned' = Planned BY PlanUnchanged DEF Restart
<1>3. UNCHANGED <<count, told>> /\ records' = {} /\ inFlight' = {} /\ observed' = {} BY DEF Restart
<1>4. \A c \in Callers : op'[c] = Idle /\ op'[c].step = "idle" BY DEF Restart, Idle
<1>5. ASSUME NEW p \in Planned PROVE count[p] + strays'[p] <= lost'[p] + 1
  <2>1. p \in Plans BY DEF Planned, Made
  <2>2. count[p] \in Nat /\ strays[p] \in Nat /\ lost[p] \in Nat BY <1>1, <2>1 DEF DataOK
  <2>3. count[p] + strays[p] <= lost[p] + 1 BY DEF WritesInv, WritesBounded
  <2>4. /\ strays'[p] = strays[p] + Cardinality(Senders(p, {"sent"}))
        /\ lost'[p] = lost[p] + Cardinality(Senders(p, {"sent", "applied"}))
      BY <2>1 DEF Restart
  <2>5. CASE Senders(p, {"sent"}) = {}
    <3>1. Cardinality(Senders(p, {"sent"})) = 0 BY <2>5, FS_EmptySet
    <3>2. Cardinality(Senders(p, {"sent", "applied"})) \in Nat
      <4>1. Senders(p, {"sent", "applied"}) \subseteq Callers BY DEF Senders
      <4> QED BY <4>1, CallersAssumption, FS_Subset, FS_CardinalityType
    <3> QED BY <2>2, <2>3, <2>4, <3>1, <3>2
  <2>6. CASE Senders(p, {"sent"}) # {}
    <3>1. PICK c \in Callers : op[c].step = "sent" /\ op[c].p = p BY <2>6 DEF Senders
    <3>2. \A d \in Callers : Writes(d) /\ op[d].p = p => d = c
        BY <3>1 DEF WritesInv, OneWriter, Writes
    <3>3. Senders(p, {"sent"}) = {c} /\ Senders(p, {"sent", "applied"}) = {c}
        BY <3>1, <3>2 DEF Senders, Writes
    <3>4. Cardinality({c}) = 1 BY FS_Singleton
    <3>5. count[p] + strays[p] <= lost[p] BY <3>1, SentIsOpen
    <3>6. strays'[p] = strays[p] + 1 /\ lost'[p] = lost[p] + 1 BY <2>4, <3>3, <3>4
    <3> QED BY <2>2, <3>5, <3>6
  <2> QED BY <2>5, <2>6
<1>6. OneWriter' /\ WriterClaims' /\ BuildsCommits' /\ AppliedIsCounted' /\ ClaimsEnd'
    BY <1>3, <1>4 DEF OneWriter, WriterClaims, BuildsCommits, AppliedIsCounted, ClaimsEnd, Writes
<1>7. UnmadeIsUncounted' BY <1>2, <1>3 DEF WritesInv, UnmadeIsUncounted
<1>8. WritesBounded' BY <1>2, <1>3, <1>5 DEF WritesBounded
<1>9. OpenIsUnwritten' BY <1>3, <1>4 DEF OpenIsUnwritten, Live
<1>10. ObservedIsWritten' BY <1>3 DEF WritesInv, ObservedIsWritten
<1> QED BY <1>6, <1>7, <1>8, <1>9, <1>10 DEF WritesInv

\* A new plan keeps the invariant: nothing has been written for it.
LEMMA PlanWrites ==
    ASSUME TypeOK, WritesInv, NEW p \in Plans, NEW kind \in AllKinds, Plan(p, kind)
    PROVE  WritesInv'
<1>1. OpsOK /\ DataOK BY TypeParts
<1>2. /\ p \notin Made /\ Made' = Made \cup {p}
      /\ Planned' = IF kind = "commit" THEN Planned ELSE Planned \cup {p}
    BY PlanStep
<1>3. UNCHANGED <<inFlight, observed, op, strays, told, count, lost>> /\ records' \subseteq records \cup {p}
    BY DEF Plan, Pruned
<1>4. \A c \in Callers : op[c] # Idle => op[c].p # p BY <1>1, <1>2, WritesLemma
<1>5. count[p] = 0 /\ strays[p] = 0 /\ lost[p] \in Nat
    BY <1>1, <1>2 DEF WritesInv, UnmadeIsUncounted, DataOK
<1>6. p \notin inFlight /\ p \notin Planned BY <1>1, <1>2 DEF DataOK, Planned
<1>7. \A c \in Callers : Writes(c) \/ op[c].step = "build" => op[c].p # p BY <1>1, <1>4, WritesLemma
<1>8. OneWriter' /\ WriterClaims' BY <1>2, <1>3, <1>7 DEF WritesInv, OneWriter, WriterClaims, Writes
<1>9. BuildsCommits' /\ AppliedIsCounted' BY <1>2, <1>3, <1>7 DEF WritesInv, BuildsCommits, AppliedIsCounted
<1>10. UnmadeIsUncounted' BY <1>2, <1>3 DEF WritesInv, UnmadeIsUncounted
<1>11. WritesBounded' BY <1>2, <1>3, <1>5 DEF WritesInv, WritesBounded
<1>12. OpenIsUnwritten'
  <2>1. ASSUME NEW q \in Planned', Live(q)', Open(q)' PROVE count[q] + strays[q] <= lost[q]
    <3>1. CASE q = p BY <1>5, <3>1
    <3>2. CASE q # p
      <4>1. q \in Planned BY <1>2, <2>1, <3>2
      <4>2. Live(q) /\ Open(q) BY <1>3, <2>1, <3>2 DEF Live, Open
      <4> QED BY <4>1, <4>2 DEF WritesInv, OpenIsUnwritten
    <3> QED BY <3>1, <3>2
  <2> QED BY <1>3, <2>1 DEF OpenIsUnwritten
<1>13. ObservedIsWritten' BY <1>3 DEF WritesInv, ObservedIsWritten
<1>14. ClaimsEnd' BY <1>3, <1>6 DEF WritesInv, ClaimsEnd, Senders
<1> QED BY <1>8, <1>9, <1>10, <1>11, <1>12, <1>13, <1>14 DEF WritesInv
\* The steps of a request keep the invariant.
LEMMA CallerWrites ==
    ASSUME TypeOK, TypeOK', WritesInv, NEW c \in Callers, CallerStep(c)
    PROVE  WritesInv'
<1>1. OpsOK /\ DataOK /\ OpsOK' BY TypeParts DEF TypeOK, OpsOK
<1>2. CASE Verify(c)
  <2>1. op[c].step = "approval" /\ op[c] # Idle BY <1>2 DEF Verify, Idle
  <2>2. CASE Goto(c, "check")
    <3>1. /\ op'[c].step = "check" /\ op'[c].p = op[c].p
          /\ \A d \in Callers \ {c} : op'[d] = op[d]
        BY <1>1, <2>1, <2>2, GotoLemma DEF OpsOK, Steps
    <3>2. \A d \in Callers : QuietOp(d) BY <2>1, <3>1 DEF QuietOp, Reading, Writes
    <3> QED BY <1>1, <1>2, <3>2, QuietStep DEF Verify, remote, stores
  <2>3. CASE Finish(c)
    <3>1. \A d \in Callers : QuietOp(d) BY <1>1, <2>1, <2>3, FinishLemma DEF QuietOp, Writes, OpsOK
    <3> QED BY <1>1, <1>2, <3>1, QuietStep DEF Verify, remote, stores
  <2> QED BY <1>2, <2>2, <2>3 DEF Verify
<1>3. CASE Check(c)
  <2>1. /\ op[c].step = "check" /\ op[c] # Idle /\ op[c] \in Op
        /\ UNCHANGED <<plan, records, observed, strays, count, lost, told>>
      BY <1>1, <1>3 DEF Check, Idle, remote, OpsOK
  <2>2. CASE Finish(c) /\ UNCHANGED inFlight
    <3>1. \A d \in Callers : QuietOp(d) BY <1>1, <2>1, <2>2, FinishLemma DEF QuietOp, Writes, OpsOK
    <3> QED BY <1>1, <2>1, <2>2, <3>1, QuietStep
  <2>3. CASE op' = [op EXCEPT ![c].n = @ + 1] /\ UNCHANGED inFlight
    <3>1. op'[c] = [op[c] EXCEPT !.n = @ + 1] /\ \A d \in Callers \ {c} : op'[d] = op[d]
        BY <1>1, <2>3 DEF OpsOK
    <3>2. op'[c].step = "check" /\ op'[c].p = op[c].p BY <2>1, <3>1 DEF Op
    <3>3. \A d \in Callers : QuietOp(d) BY <2>1, <3>1, <3>2 DEF QuietOp, Reading, Writes
    <3> QED BY <1>1, <2>1, <2>3, <3>3, QuietStep
  <2>4. CASE Kind(op[c].p) = "commit" /\ Goto(c, "build") /\ UNCHANGED inFlight
    <3>1. /\ op'[c].step = "build" /\ op'[c].p = op[c].p
          /\ \A d \in Callers \ {c} : op'[d] = op[d]
        BY <1>1, <2>1, <2>4, GotoLemma DEF OpsOK, Steps
    <3>2. op[c].p \notin Planned BY <2>4 DEF Planned
    <3>3. \A d \in Callers : QuietOp(d) BY <2>1, <3>1, <3>2 DEF QuietOp, Reading, Writes
    <3> QED BY <1>1, <2>1, <2>4, <3>3, QuietStep
  <2>5. CASE Kind(op[c].p) # "commit" /\ TryClaim(op[c].p) /\ inFlight' = inFlight \cup {op[c].p}
             /\ Goto(c, "sent")
    <3>1. op[c].p \in Planned BY <1>1, <2>1, <2>5 DEF OpsOK, Planned
    <3> QED BY <1>1, <2>1, <2>5, <3>1, ClaimStep DEF DataOK
  <2> QED BY <1>3, <2>2, <2>3, <2>4, <2>5 DEF Check, Claimed
<1>4. CASE Build(c)
  <2>1. op[c].step = "build" /\ op[c] # Idle BY <1>4 DEF Build, Idle
  <2>2. /\ op'[c].step = "sent" /\ op'[c].p = op[c].p
        /\ \A d \in Callers \ {c} : op'[d] = op[d]
      BY <1>1, <1>4, <2>1, GotoLemma DEF Build, OpsOK, Steps
  <2>3. \A d \in Callers : QuietOp(d) BY <2>1, <2>2 DEF QuietOp
  <2> QED BY <1>1, <1>4, <2>3, QuietStep DEF Build, remote, stores
<1>5. CASE Receive(c) BY <1>1, <1>5, ReceiveStep
<1>6. CASE Confirm(c) BY <1>1, <1>6, ConfirmStep
<1>7. CASE Refuse(c) BY <1>1, <1>7, ReleaseStep DEF Refuse, AnswerRefused, remote
<1> QED BY <1>2, <1>3, <1>4, <1>5, <1>6, <1>7 DEF CallerStep

\* Every step keeps the invariant.
LEMMA StepWrites == TypeOK /\ TypeOK' /\ WritesInv /\ [Next]_vars => WritesInv'
<1> SUFFICES ASSUME TypeOK, TypeOK', WritesInv, [Next]_vars PROVE WritesInv' OBVIOUS
<1>0. OpsOK /\ DataOK /\ OpsOK' BY TypeParts DEF TypeOK, OpsOK
<1>1. CASE UNCHANGED vars
  <2>1. \A d \in Callers : QuietOp(d) BY <1>1 DEF QuietOp, vars
  <2> QED BY <1>0, <1>1, <2>1, QuietStep DEF vars, stores
<1>2. CASE \E p \in Plans : \E kind \in AllKinds : Plan(p, kind) BY <1>2, PlanWrites
<1>3. ASSUME NEW c \in Callers, NEW p \in Plans, Execute(c, p) PROVE WritesInv'
  <2>1. /\ UNCHANGED <<plan, inFlight, observed, strays, count, lost>> /\ records' \subseteq records
        /\ told' \subseteq told \cup observed
      BY <1>3 DEF Execute, Pruned, remote
  <2>2. CASE UNCHANGED op
    <3>1. \A d \in Callers : QuietOp(d) BY <2>2 DEF QuietOp
    <3> QED BY <1>0, <2>1, <3>1, QuietStep
  <2>3. CASE /\ p \in records' \ observed \/ Kind(p) = "commit"
             /\ op' = [op EXCEPT ![c] = [step |-> "approval", p |-> p, n |-> 1]]
    <3>1. /\ op'[c] = [step |-> "approval", p |-> p, n |-> 1]
          /\ \A d \in Callers \ {c} : op'[d] = op[d]
        BY <1>0, <2>3 DEF OpsOK
    <3>2. op'[c].step = "approval" /\ op'[c].p = p BY <3>1
    <3>3. p \in records' \/ p \notin Planned BY <2>3 DEF Planned
    <3>4. op[c] = Idle BY <1>3 DEF Execute
    <3>5. \A d \in Callers : QuietOp(d) BY <3>1, <3>2, <3>3, <3>4 DEF QuietOp, Reading, Writes, Idle
    <3> QED BY <1>0, <2>1, <3>5, QuietStep
  <2> QED BY <1>3, <2>2, <2>3 DEF Execute
<1>4. CASE \E c \in Callers : CallerStep(c) BY <1>4, CallerWrites
<1>5. ASSUME NEW c \in Callers, Fail(c) PROVE WritesInv'
  <2>1. Finish(c) /\ UNCHANGED <<plan, records, observed, told, count, strays, lost>>
      BY <1>5 DEF Fail, remote
  <2>2. CASE op[c].step = "sent" BY <1>0, <1>5, <2>1, <2>2, ReleaseStep DEF Fail
  <2>3. CASE op[c].step \in {"check", "build"}
    <3>1. UNCHANGED inFlight BY <1>5, <2>3 DEF Fail
    <3>2. \A d \in Callers : QuietOp(d) BY <1>0, <2>1, <2>3, FinishLemma DEF QuietOp, Writes, OpsOK
    <3> QED BY <1>0, <2>1, <3>1, <3>2, QuietStep
  <2> QED BY <1>5, <2>2, <2>3 DEF Fail
<1>6. CASE \E c \in Callers : Lose(c) BY <1>0, <1>6, LoseStep
<1>7. CASE \E p \in Plans : Arrive(p) BY <1>7, ArriveStep
<1>8. CASE Restart BY <1>8, RestartStep
<1>9. CASE Others
  <2>1. UNCHANGED <<stores, op, strays, count, told, lost>>
      BY <1>9 DEF Others, ChangeIssue, ChangeMain, ChangeTarget, PushBranch, ResetBranch, ChangePr,
           ChangePull, ChangeText, ChangeLabels, Change
  <2>2. \A d \in Callers : QuietOp(d) BY <2>1 DEF QuietOp
  <2> QED BY <1>0, <2>1, <2>2, QuietStep DEF stores
<1> QED BY <1>1, <1>2, <1>3, <1>4, <1>5, <1>6, <1>7, <1>8, <1>9 DEF Next

\* The invariant holds in every state that can be reached.
LEMMA WritesInvariant == Spec => [](TypeOK /\ WritesInv)
<1> QED BY InitType, InitWrites, StepType, StepWrites, PTL DEF Spec

\* Requests that race to execute a plan, retries and restarts write a plan once,
\* and once more at most for every answer that was lost.
THEOREM PlansWriteOnce == Spec => []OncePerPlan
<1>1. TypeOK /\ WritesInv => OncePerPlan
  <2> SUFFICES ASSUME TypeOK, WritesInv, NEW p \in Planned PROVE count[p] <= 1 + lost[p] BY DEF OncePerPlan
  <2>1. p \in Plans BY DEF Planned, Made
  <2>2. count[p] \in Nat /\ strays[p] \in Nat /\ lost[p] \in Nat BY <2>1 DEF TypeOK
  <2> QED BY <2>2 DEF WritesInv, WritesBounded
<1> QED BY <1>1, WritesInvariant, PTL

\* What a client is told, and a store believes, to be observed has been applied.
THEOREM ObservedWritten == Spec => []ObservedIsWritten
<1>1. WritesInv => ObservedIsWritten BY DEF WritesInv
<1> QED BY <1>1, WritesInvariant, PTL

\* A plan that can be found is not claimed for longer than it is executed.
THEOREM ClaimsAreReleased == Spec => []ClaimsEnd
<1>1. WritesInv => ClaimsEnd BY DEF WritesInv
<1> QED BY <1>1, WritesInvariant, PTL
-----------------------------------------------------------------------------
(***************************************************************************)
(* What GitHub refuses by itself.                                          *)
(***************************************************************************)

\* A branch is a prefix of itself with one more commit.
LEMMA AppendKeeps ==
    ASSUME NEW b \in Seq(Commit), NEW e \in Commit
    PROVE  IsPrefix(b, Append(b, e))
<1>1. Append(b, e) \in Seq(Commit) /\ Len(Append(b, e)) = Len(b) + 1
      /\ \A i \in 1..Len(b) : Append(b, e)[i] = b[i]
    BY AppendProperties
<1>2. Len(b) \in Nat BY LenProperties
<1>3. SubSeq(b, 1, Len(b)) = SubSeq(Append(b, e), 1, Len(b)) BY <1>1, <1>2
<1> QED BY <1>1, <1>2, <1>3 DEF IsPrefix

\* A prefix agrees with what it is a prefix of.
LEMMA PrefixLemma ==
    ASSUME NEW b \in Seq(Commit), NEW d \in Seq(Commit), IsPrefix(b, d)
    PROVE  Len(b) <= Len(d) /\ \A i \in 1..Len(b) : b[i] = d[i]
<1>1. Len(b) \in Nat /\ Len(d) \in Nat /\ Len(b) <= Len(d) BY LenProperties DEF IsPrefix
<1>2. SubSeq(b, 1, Len(b)) = SubSeq(d, 1, Len(b)) BY DEF IsPrefix
<1>3. \A i \in 1..Len(b) : SubSeq(b, 1, Len(b))[i] = b[i] /\ SubSeq(d, 1, Len(b))[i] = d[i]
    BY <1>1, SubSeqProperties
<1> QED BY <1>1, <1>2, <1>3

\* The repository is changed by a write that GitHub takes, and then the write
\* is counted and stands, or by others, and then none stands; all other steps leave it and the plans, but for a
\* new plan.
Counted(p) == Taken(p) /\ Apply(p) /\ UNCHANGED plan
Untouched == UNCHANGED <<gh, fresh, plan, count, standing>>
LEMMA StepKinds ==
    ASSUME TypeOK, [Next]_vars
    PROVE  \/ Untouched
           \/ \E p \in Made : Counted(p)
           \/ \E p \in Plans, kind \in AllKinds : Plan(p, kind)
           \/ Others
<1>0. OpsOK /\ DataOK BY TypeParts
<1>1. ASSUME NEW c \in Callers, Receive(c) PROVE Untouched \/ \E p \in Made : Counted(p)
  <2>1. op[c].p \in Made BY <1>0, <1>1, WritesLemma DEF Receive, Writes
  <2> QED BY <1>1, <2>1 DEF Receive, stores, Untouched, Counted
<1>2. ASSUME NEW p \in Plans, Arrive(p) PROVE Untouched \/ (p \in Made /\ Counted(p))
    BY <1>0, <1>2 DEF Arrive, DataOK, stores, Untouched, Counted
<1>3. CASE \E c \in Callers : Verify(c) \/ Check(c) \/ Build(c) \/ Confirm(c) \/ Refuse(c)
    BY <1>3 DEF Verify, Check, Build, Confirm, Refuse, remote, stores, Untouched
<1>4. CASE \E c \in Callers : Fail(c) \/ Lose(c) \/ \E p \in Plans : Execute(c, p)
    BY <1>4 DEF Fail, Lose, Execute, remote, Untouched
<1>5. CASE Restart BY <1>5 DEF Restart, Untouched
<1>6. CASE \E p \in Plans, kind \in AllKinds : Plan(p, kind) BY <1>6
<1>7. CASE UNCHANGED vars BY <1>7 DEF vars, stores, Untouched
<1> QED BY <1>1, <1>2, <1>3, <1>4, <1>5, <1>6, <1>7 DEF Next, CallerStep

\* A write that GitHub takes replaces only what its plan was made from.
LEMMA TakenIsHarmless ==
    ASSUME TypeOK, NEW p \in Made, Taken(p), Apply(p), UNCHANGED plan
    PROVE  Harmless(p)
<1>1. /\ p \in Plans /\ Kind(p) \in AllKinds /\ Saw(p) \in Repository /\ plan[p].new \in Nat
      /\ gh \in Repository /\ fresh \in Nat
    BY MadeLemma DEF TypeOK
<1>2. gh' = Written(p) BY DEF Apply
<1>3. NewCommit(p) \in Commit BY <1>1 DEF NewCommit, Commit
<1>4. gh.branch \in Seq(Commit) /\ Saw(p).branch \in Seq(Commit) BY <1>1 DEF Repository
<1>5. CASE Kind(p) = "branch"
  <2>1. gh'.target = Saw(p).main BY <1>1, <1>2, <1>5 DEF Written, BranchWrite, Repository
  <2> QED BY <1>5, <2>1 DEF Harmless, Taken, BranchTaken
<1>6. CASE Kind(p) = "file"
  <2>1. gh'.branch = Append(gh.branch, NewCommit(p)) BY <1>1, <1>2, <1>6 DEF Written, FileWrite, Repository
  <2>2. IsPrefix(gh.branch, gh'.branch) BY <1>3, <1>4, <2>1, AppendKeeps
  <2> QED BY <1>6, <2>2 DEF Harmless, Taken, FileTaken
<1>7. CASE Kind(p) = "commit"
  <2>1. gh'.branch = CommitBuilt(p) BY <1>1, <1>2, <1>7 DEF Written, CommitWrite, Repository
  <2>2. IsPrefix(Saw(p).branch, gh'.branch) BY <1>3, <1>4, <2>1, AppendKeeps DEF CommitBuilt
  <2>3. IsPrefix(gh.branch, gh'.branch) BY <1>7, <2>1 DEF Taken, CommitTaken
  <2> QED BY <1>7, <2>2, <2>3 DEF Harmless
<1>8. CASE Kind(p) = "pr" BY <1>8 DEF Harmless, Taken, PrTaken
<1>9. CASE Kind(p) \in {"comment", "text", "labels"} BY <1>9 DEF Harmless
<1> QED BY <1>1, <1>5, <1>6, <1>7, <1>8, <1>9 DEF AllKinds

\* Branches, files and pull requests of others are never replaced by a write
\* whose plan was made from something else, late or repeated as it may be.
THEOREM NothingIsOverwritten == Spec => NothingOverwritten
<1>1. TypeOK /\ [Next]_vars => [\A p \in Plans : count'[p] # count[p] => Harmless(p)]_vars
  <2> SUFFICES ASSUME TypeOK, [Next]_vars, NEW p \in Plans, count'[p] # count[p]
               PROVE  Harmless(p)
      OBVIOUS
  <2>1. PICK q \in Made : Counted(q)
      BY StepKinds DEF Untouched, Plan, Others, ChangeIssue, ChangeMain, ChangeTarget, PushBranch,
         ResetBranch, ChangePr, ChangePull, ChangeText, ChangeLabels, Change
  <2>2. q = p BY <2>1 DEF Counted, Apply, TypeOK
  <2> QED BY <2>1, <2>2, TakenIsHarmless DEF Counted
<1> QED BY <1>1, TypeCorrect, PTL DEF Spec, NothingOverwritten
(***************************************************************************)
(* After the write of a plan, the repository does not take it again as     *)
(* long as it stands: the plan is spent.                                   *)
(***************************************************************************)
Numbered(branch, n) == \A i \in 1..Len(branch) : branch[i].id <= n

\* The ids of commits are given out once; a plan for a file changes it, and a
\* plan for a branch has something to start it from.
NumbersInv ==
    /\ Numbered(gh.branch, fresh)
    /\ \A p \in Made : /\ Numbered(Saw(p).branch, fresh)
                       /\ Kind(p) = "file" => plan[p].new # Blob(Saw(p).branch)
                       /\ Kind(p) = "branch" => Saw(p).main # Absent

Spent(p) ==
    /\ Kind(p) = "branch" => gh.target # Absent
    /\ Kind(p) = "file" => Blob(gh.branch) # Blob(Saw(p).branch)
    /\ Kind(p) = "pr" => gh.pr
    /\ Kind(p) = "commit" => Len(gh.branch) > Len(Saw(p).branch)

Guarded == {p \in Made : Kind(p) \in {"branch", "file", "pr", "commit"}}
RepeatsInv == \A p \in standing \cap Guarded : Spent(p)

\* A branch with one more numbered commit is numbered.
LEMMA AppendNumbered ==
    ASSUME NEW b \in Seq(Commit), NEW e \in Commit, NEW n \in Nat, NEW m \in Nat,
           Numbered(b, n), n <= m, e.id <= m
    PROVE  Numbered(Append(b, e), m)
<1>1. /\ Len(Append(b, e)) = Len(b) + 1 /\ Len(b) \in Nat
      /\ \A i \in 1..Len(b) : Append(b, e)[i] = b[i]
      /\ Append(b, e)[Len(b) + 1] = e
    BY AppendProperties, LenProperties
<1>2. \A i \in 1..Len(b) : b[i] \in Commit BY ElementOfSeq
<1>3. \A i \in 1..Len(b) : b[i].id \in Nat BY <1>2 DEF Commit
<1>4. ASSUME NEW i \in 1..Len(Append(b, e)) PROVE Append(b, e)[i].id <= m
  <2>1. CASE i \in 1..Len(b) BY <1>1, <1>3, <2>1 DEF Numbered
  <2>2. CASE i = Len(b) + 1 BY <1>1, <2>2
  <2> QED BY <1>1, <1>4, <2>1, <2>2
<1> QED BY <1>4 DEF Numbered

\* A larger number bounds a branch, too.
LEMMA NumberedMore ==
    ASSUME NEW b \in Seq(Commit), NEW n \in Nat, NEW m \in Nat, Numbered(b, n), n <= m
    PROVE  Numbered(b, m)
<1>1. \A i \in 1..Len(b) : b[i] \in Commit BY ElementOfSeq
<1>2. \A i \in 1..Len(b) : b[i].id \in Nat BY <1>1 DEF Commit
<1> QED BY <1>2 DEF Numbered

\* The types of what a plan is about.
LEMMA PlanTypes ==
    ASSUME TypeOK, NEW p \in Made
    PROVE  /\ p \in Plans /\ Kind(p) \in AllKinds /\ Saw(p) \in Repository /\ plan[p].new \in Nat
           /\ Saw(p).branch \in Seq(Commit) /\ gh.branch \in Seq(Commit)
           /\ Len(Saw(p).branch) \in Nat /\ Len(gh.branch) \in Nat
           /\ gh \in Repository /\ fresh \in Nat /\ NewCommit(p) \in Commit
           /\ NewCommit(p).id = fresh + 1 /\ NewCommit(p).blob = plan[p].new
<1>1. /\ p \in Plans /\ Kind(p) \in AllKinds /\ Saw(p) \in Repository /\ plan[p].new \in Nat
      /\ gh \in Repository /\ fresh \in Nat
    BY MadeLemma DEF TypeOK
<1>2. Saw(p).branch \in Seq(Commit) /\ gh.branch \in Seq(Commit) BY <1>1 DEF Repository
<1>3. NewCommit(p) \in Commit BY <1>1 DEF NewCommit, Commit
<1> QED BY <1>1, <1>2, <1>3, LenProperties DEF NewCommit

\* A branch with one more commit has the version of the file that the commit leaves.
LEMMA AppendBlob ==
    ASSUME NEW b \in Seq(Commit), NEW e \in Commit
    PROVE  /\ Append(b, e) \in Seq(Commit) /\ Len(Append(b, e)) = Len(b) + 1
           /\ Blob(Append(b, e)) = e.blob
<1>1. /\ Append(b, e) \in Seq(Commit) /\ Append(b, e) # Absent
      /\ Len(Append(b, e)) = Len(b) + 1
      /\ Append(b, e)[Len(b) + 1] = e
    BY AppendProperties DEF Absent
<1> QED BY <1>1, BlobLemma

\* What GitHub takes for a commit of several files is a branch that has
\* nothing the client did not see.
LEMMA CommitExtends ==
    ASSUME TypeOK, NumbersInv, NEW p \in Made, Kind(p) = "commit", Taken(p)
    PROVE  /\ Len(gh.branch) <= Len(Saw(p).branch)
           /\ \A i \in 1..Len(gh.branch) : gh.branch[i] = Saw(p).branch[i]
           /\ gh.branch # Absent
<1>1. IsPrefix(gh.branch, CommitBuilt(p)) /\ gh.branch # Absent BY DEF Taken, CommitTaken
<1>2. /\ CommitBuilt(p) \in Seq(Commit) /\ Len(CommitBuilt(p)) = Len(Saw(p).branch) + 1
      /\ \A i \in 1..Len(Saw(p).branch) : CommitBuilt(p)[i] = Saw(p).branch[i]
      /\ CommitBuilt(p)[Len(Saw(p).branch) + 1] = NewCommit(p)
    BY PlanTypes, AppendProperties DEF CommitBuilt
<1>3. /\ Len(gh.branch) <= Len(Saw(p).branch) + 1
      /\ \A i \in 1..Len(gh.branch) : gh.branch[i] = CommitBuilt(p)[i]
    BY <1>1, <1>2, PlanTypes, PrefixLemma
<1>4. Len(gh.branch) # Len(Saw(p).branch) + 1
  <2> SUFFICES ASSUME Len(gh.branch) = Len(Saw(p).branch) + 1 PROVE FALSE OBVIOUS
  <2>1. Len(gh.branch) \in 1..Len(gh.branch) BY PlanTypes
  <2>2. gh.branch[Len(gh.branch)].id = fresh + 1 BY <1>2, <1>3, <2>1, PlanTypes
  <2>3. gh.branch[Len(gh.branch)].id <= fresh BY <2>1 DEF NumbersInv, Numbered
  <2> QED BY <2>2, <2>3, PlanTypes
<1>5. Len(gh.branch) \in Nat /\ Len(Saw(p).branch) \in Nat BY PlanTypes
<1>6. Len(gh.branch) <= Len(Saw(p).branch) BY <1>3, <1>4, <1>5
<1>7. ASSUME NEW i \in 1..Len(gh.branch) PROVE gh.branch[i] = Saw(p).branch[i]
  <2>1. i \in 1..Len(Saw(p).branch) BY <1>5, <1>6
  <2> QED BY <1>2, <1>3, <2>1
<1> QED BY <1>1, <1>6, <1>7

\* A write that GitHub takes was not spent before, and is spent afterwards.
LEMMA TakenIsSpent ==
    ASSUME TypeOK, NumbersInv, NEW p \in Guarded, Taken(p), Apply(p), UNCHANGED plan
    PROVE  ~Spent(p) /\ Spent(p)'
<1>1. /\ p \in Made /\ gh' = Written(p) BY DEF Guarded, Apply
<1>2. /\ p \in Plans /\ Saw(p) \in Repository /\ plan[p].new \in Nat /\ gh \in Repository
      /\ Saw(p).branch \in Seq(Commit) /\ gh.branch \in Seq(Commit)
      /\ Len(Saw(p).branch) \in Nat /\ Len(gh.branch) \in Nat
      /\ NewCommit(p) \in Commit /\ NewCommit(p).blob = plan[p].new
    BY <1>1, PlanTypes
<1>3. Kind(p)' = Kind(p) /\ Saw(p)' = Saw(p) BY <1>2, PlanUnchanged
<1>4. CASE Kind(p) = "branch"
  <2>1. gh'.target = Saw(p).main BY <1>1, <1>2, <1>4 DEF Written, BranchWrite, Repository
  <2>2. Saw(p).main # Absent BY <1>1, <1>4 DEF NumbersInv
  <2> QED BY <1>3, <1>4, <2>1, <2>2 DEF Spent, Taken, BranchTaken, Absent
<1>5. CASE Kind(p) = "pr"
  <2>1. gh'.pr = TRUE BY <1>1, <1>2, <1>5 DEF Written, PrWrite, Repository
  <2> QED BY <1>3, <1>5, <2>1 DEF Spent, Taken, PrTaken
<1>6. CASE Kind(p) = "file"
  <2>1. gh'.branch = Append(gh.branch, NewCommit(p)) BY <1>1, <1>2, <1>6 DEF Written, FileWrite, Repository
  <2>2. Blob(gh'.branch) = plan[p].new BY <1>2, <2>1, AppendBlob
  <2>3. plan[p].new # Blob(Saw(p).branch) BY <1>1, <1>6 DEF NumbersInv
  <2>4. Spent(p)' <=> Blob(gh'.branch) # Blob(Saw(p).branch) BY <1>3, <1>6 DEF Spent
  <2>5. ~Spent(p) BY <1>6 DEF Spent, Taken, FileTaken
  <2> QED BY <2>2, <2>3, <2>4, <2>5
<1>7. CASE Kind(p) = "commit"
  <2>1. gh'.branch = CommitBuilt(p) BY <1>1, <1>2, <1>7 DEF Written, CommitWrite, Repository
  <2>2. Len(CommitBuilt(p)) = Len(Saw(p).branch) + 1 BY <1>2, AppendProperties DEF CommitBuilt
  <2>3. Len(gh.branch) <= Len(Saw(p).branch) BY <1>1, <1>7, CommitExtends
  <2>4. Len(gh'.branch) > Len(Saw(p).branch) BY <1>2, <2>1, <2>2
  <2> QED BY <1>2, <1>3, <1>7, <2>3, <2>4 DEF Spent
<1> QED BY <1>4, <1>5, <1>6, <1>7 DEF Guarded

\* The write of another plan does not make a spent one possible again, unless
\* it restores the version of the file that this one was made from.
LEMMA SpentStaysSpent ==
    ASSUME TypeOK, TypeOK', NumbersInv, NEW q \in Made, Taken(q), Apply(q), UNCHANGED plan,
           NEW p \in Guarded, Spent(p), ~Restores(q, p)
    PROVE  Spent(p)'
<1>1. p \in Made /\ gh' = Written(q) BY DEF Guarded, Apply
<1>2. p \in Plans /\ Len(Saw(p).branch) \in Nat /\ Len(gh.branch) \in Nat BY <1>1, PlanTypes
<1>3. /\ q \in Plans /\ Kind(q) \in AllKinds /\ Saw(q) \in Repository
      /\ gh \in Repository /\ Saw(q).branch \in Seq(Commit) /\ gh.branch \in Seq(Commit)
      /\ Len(Saw(q).branch) \in Nat
      /\ NewCommit(q) \in Commit /\ NewCommit(q).blob = plan[q].new
    BY PlanTypes
<1>4. Kind(p)' = Kind(p) /\ Saw(p)' = Saw(p) BY <1>2, PlanUnchanged
<1>5. gh'.target = gh.target \/ gh'.target # Absent
  <2>1. Kind(q) = "branch" => gh'.target = Saw(q).main /\ Saw(q).main # Absent
      BY <1>1, <1>3 DEF Written, BranchWrite, Repository, NumbersInv
  <2>2. Kind(q) # "branch" => gh'.target = gh.target
      BY <1>1, <1>3 DEF AllKinds, Written, CommentWrite, FileWrite, PrWrite, TextWrite, LabelsWrite,
         CommitWrite, Repository
  <2> QED BY <2>1, <2>2
<1>6. gh.pr => gh'.pr
    BY <1>1, <1>3 DEF AllKinds, Written, CommentWrite, BranchWrite, FileWrite, PrWrite, TextWrite,
       LabelsWrite, CommitWrite, Repository
<1>7. \/ gh'.branch = gh.branch
      \/ /\ Blob(gh'.branch) = plan[q].new /\ Len(gh'.branch) > Len(gh.branch)
         /\ Kind(q) \in {"file", "commit"}
  <2>1. CASE Kind(q) = "file"
    <3>1. gh'.branch = Append(gh.branch, NewCommit(q)) BY <1>1, <1>3, <2>1 DEF Written, FileWrite, Repository
    <3> QED BY <1>2, <1>3, <2>1, <3>1, AppendBlob
  <2>2. CASE Kind(q) = "commit"
    <3>1. gh'.branch = Append(Saw(q).branch, NewCommit(q))
        BY <1>1, <1>3, <2>2 DEF Written, CommitWrite, CommitBuilt, Repository
    <3>2. Len(gh.branch) <= Len(Saw(q).branch) BY <2>2, CommitExtends
    <3>3. Blob(gh'.branch) = plan[q].new /\ Len(gh'.branch) = Len(Saw(q).branch) + 1
        BY <1>3, <3>1, AppendBlob
    <3> QED BY <1>2, <1>3, <2>2, <3>2, <3>3
  <2>3. CASE Kind(q) \notin {"file", "commit"}
      BY <1>1, <1>3, <2>3 DEF AllKinds, Written, CommentWrite, BranchWrite, PrWrite, TextWrite,
         LabelsWrite, Repository
  <2> QED BY <2>1, <2>2, <2>3
<1>8. Kind(p) = "file" => Blob(gh'.branch) # Blob(Saw(p).branch)
    BY <1>7 DEF Spent, Restores
<1>9. Kind(p) = "commit" => Len(gh'.branch) > Len(Saw(p).branch)
  <2>1. gh'.branch \in Seq(Commit) BY DEF TypeOK, Repository
  <2>2. Len(gh'.branch) \in Nat BY <2>1, LenProperties
  <2> QED BY <1>2, <1>7, <2>2 DEF Spent
<1> QED BY <1>4, <1>5, <1>6, <1>8, <1>9 DEF Spent

\* The numbers stay right.
LEMMA StepNumbers ==
    ASSUME TypeOK, TypeOK', NumbersInv, [Next]_vars
    PROVE  NumbersInv'
<1>1. /\ fresh \in Nat /\ fresh' \in Nat /\ gh \in Repository /\ gh' \in Repository
      /\ gh.branch \in Seq(Commit) /\ gh'.branch \in Seq(Commit)
    BY DEF TypeOK, Repository
<1>2. ASSUME UNCHANGED plan, fresh' >= fresh, Numbered(gh'.branch, fresh') PROVE NumbersInv'
  <2>1. Made' = Made /\ \A p \in Plans : Kind(p)' = Kind(p) /\ Saw(p)' = Saw(p) BY <1>2, PlanUnchanged
  <2>2. \A p \in Made : p \in Plans /\ Saw(p).branch \in Seq(Commit) BY PlanTypes
  <2>3. \A p \in Made : Numbered(Saw(p).branch, fresh') BY <1>1, <1>2, <2>2, NumberedMore DEF NumbersInv
  <2>4. \A p \in Made : Numbered(Saw(p)'.branch, fresh') BY <2>1, <2>2, <2>3
  <2>5. \A p \in Made : /\ Kind(p)' = "file" => plan'[p].new # Blob(Saw(p)'.branch)
                        /\ Kind(p)' = "branch" => Saw(p)'.main # Absent
      BY <1>2, <2>1, <2>2 DEF NumbersInv
  <2>6. ASSUME NEW p \in Made'
        PROVE  /\ Numbered(Saw(p)'.branch, fresh')
               /\ Kind(p)' = "file" => plan'[p].new # Blob(Saw(p)'.branch)
               /\ Kind(p)' = "branch" => Saw(p)'.main # Absent
      BY <2>1, <2>4, <2>5, <2>6
  <2>7. Numbered(gh'.branch, fresh') BY <1>2
  <2> QED BY <2>6, <2>7 DEF NumbersInv, Numbered, Blob
<1>3. CASE Untouched BY <1>1, <1>2, <1>3 DEF Untouched, NumbersInv
<1>4. ASSUME NEW q \in Made, Counted(q) PROVE NumbersInv'
  <2>1. /\ q \in Plans /\ Kind(q) \in AllKinds /\ Saw(q) \in Repository /\ plan[q].new \in Nat
        /\ Saw(q).branch \in Seq(Commit)
        /\ NewCommit(q) \in Commit /\ NewCommit(q).id = fresh + 1 /\ NewCommit(q).blob = plan[q].new
      BY PlanTypes
  <2>2. gh' = Written(q) /\ fresh' = fresh + 1 /\ UNCHANGED plan BY <1>4 DEF Counted, Apply
  <2>4. fresh + 1 \in Nat /\ fresh <= fresh + 1 BY <1>1
  <2>5. CASE Kind(q) = "file"
    <3>1. gh'.branch = Append(gh.branch, NewCommit(q)) BY <1>1, <2>1, <2>2, <2>5 DEF Written, FileWrite, Repository
    <3>2. Numbered(Append(gh.branch, NewCommit(q)), fresh + 1)
        BY <1>1, <2>1, <2>4, AppendNumbered DEF NumbersInv
    <3> QED BY <1>2, <2>2, <2>4, <3>1, <3>2
  <2>6. CASE Kind(q) = "commit"
    <3>1. gh'.branch = Append(Saw(q).branch, NewCommit(q))
        BY <1>1, <2>1, <2>2, <2>6 DEF Written, CommitWrite, CommitBuilt, Repository
    <3>2. Numbered(Append(Saw(q).branch, NewCommit(q)), fresh + 1)
        BY <1>1, <2>1, <2>4, AppendNumbered DEF NumbersInv
    <3> QED BY <1>2, <2>2, <2>4, <3>1, <3>2
  <2>7. CASE Kind(q) \notin {"file", "commit"}
    <3>1. gh'.branch = gh.branch
        BY <1>1, <2>1, <2>2, <2>7 DEF AllKinds, Written, CommentWrite, BranchWrite, PrWrite, TextWrite,
           LabelsWrite, Repository
    <3>2. Numbered(gh.branch, fresh + 1) BY <1>1, <2>4, NumberedMore DEF NumbersInv
    <3> QED BY <1>2, <2>2, <2>4, <3>1, <3>2
  <2> QED BY <2>5, <2>6, <2>7
<1>5. ASSUME NEW p \in Plans, NEW kind \in AllKinds, Plan(p, kind) PROVE NumbersInv'
  <2>1. /\ p \notin Made /\ Made' = Made \cup {p}
        /\ \A q \in Plans \ {p} : plan'[q] = plan[q] /\ Kind(q)' = Kind(q) /\ Saw(q)' = Saw(q)
        /\ Kind(p)' = kind /\ Saw(p)' = gh /\ Plannable(kind, plan'[p].new)
      BY <1>5, PlanStep
  <2>2. gh' = gh /\ fresh' \in {fresh, fresh + 1} BY <1>5 DEF Plan
  <2>3. Numbered(gh.branch, fresh') BY <1>1, <2>2, NumberedMore DEF NumbersInv
  <2>4. /\ kind = "branch" => gh.main # Absent
        /\ kind = "file" => plan'[p].new # Blob(gh.branch)
      BY <2>1 DEF Plannable, BranchPlan, FilePlan
  <2>5. \A q \in Made : q \in Plans \ {p} /\ Saw(q).branch \in Seq(Commit) BY <2>1, PlanTypes
  <2>6. \A q \in Made : Numbered(Saw(q).branch, fresh') BY <1>1, <2>2, <2>5, NumberedMore DEF NumbersInv
  <2>7. ASSUME NEW q \in Made'
        PROVE  /\ Numbered(Saw(q)'.branch, fresh')
               /\ Kind(q)' = "file" => plan'[q].new # Blob(Saw(q)'.branch)
               /\ Kind(q)' = "branch" => Saw(q)'.main # Absent
    <3>1. CASE q = p BY <2>1, <2>2, <2>3, <2>4, <3>1
    <3>2. CASE q \in Made BY <2>1, <2>2, <2>5, <2>6, <3>2 DEF NumbersInv
    <3> QED BY <2>1, <2>7, <3>1, <3>2
  <2>8. Numbered(gh'.branch, fresh') BY <2>2, <2>3
  <2> QED BY <2>7, <2>8 DEF NumbersInv, Numbered, Blob
<1>6. CASE Others
  <2>1. UNCHANGED plan /\ fresh' >= fresh
      BY <1>1, <1>6 DEF Others, ChangeIssue, ChangeMain, ChangeTarget, PushBranch, ResetBranch, ChangePr,
         ChangePull, ChangeText, ChangeLabels, Change, stores
  <2>2. CASE PushBranch
    <3>1. PICK blob \in Versions \cup {Blob(gh.branch)} : gh' = [gh EXCEPT !.branch = Pushed(@, blob)]
        BY <2>2 DEF PushBranch, Change
    <3>2. fresh' = fresh + 1 /\ fresh + 1 \in Nat /\ fresh <= fresh + 1 BY <1>1, <2>2 DEF PushBranch
    <3>3. blob \in Nat
      <4>1. Blob(gh.branch) \in Nat BY <1>1, BlobLemma
      <4> QED BY <4>1, VersionsType
    <3> DEFINE e == [id |-> fresh + 1, blob |-> blob]
    <3>4. e \in Commit /\ e.id <= fresh + 1 BY <3>2, <3>3 DEF Commit
    <3>5. gh'.branch = Append(gh.branch, e) BY <1>1, <3>1 DEF Pushed, Repository
    <3> HIDE DEF e
    <3>6. Numbered(Append(gh.branch, e), fresh + 1)
        BY <1>1, <3>2, <3>4, AppendNumbered DEF NumbersInv
    <3> QED BY <1>2, <2>1, <3>2, <3>5, <3>6
  <2>3. CASE ResetBranch
    <3>1. PICK n \in 0..(Len(gh.branch) - 1) : gh' = [gh EXCEPT !.branch = SubSeq(@, 1, n)]
        BY <2>3 DEF ResetBranch, Change
    <3>2. gh'.branch = SubSeq(gh.branch, 1, n) /\ fresh' = fresh BY <1>1, <2>3, <3>1 DEF Repository, ResetBranch
    <3>3. Len(gh.branch) \in Nat /\ n \in Nat /\ n <= Len(gh.branch) BY <1>1, LenProperties
    <3>4. /\ Len(SubSeq(gh.branch, 1, n)) = n
          /\ \A i \in 1..n : SubSeq(gh.branch, 1, n)[i] = gh.branch[i]
        BY <1>1, <3>3
    <3>5. Numbered(gh'.branch, fresh') BY <3>2, <3>3, <3>4 DEF NumbersInv, Numbered
    <3> QED BY <1>2, <2>1, <3>5
  <2>4. CASE ~PushBranch /\ ~ResetBranch
    <3>1. gh'.branch = gh.branch
        BY <1>1, <1>6, <2>4 DEF Others, ChangeIssue, ChangeMain, ChangeTarget, ChangePr, ChangePull,
           ChangeText, ChangeLabels, Change, Repository
    <3>2. Numbered(gh'.branch, fresh') BY <1>1, <2>1, <3>1, NumberedMore DEF NumbersInv
    <3> QED BY <1>2, <2>1, <3>2
  <2> QED BY <2>2, <2>3, <2>4
<1> QED BY <1>3, <1>4, <1>5, <1>6, StepKinds
\* What stands is spent.
LEMMA StepRepeats ==
    ASSUME TypeOK, TypeOK', NumbersInv, RepeatsInv, [Next]_vars
    PROVE  RepeatsInv'
<1>1. Guarded \subseteq Made /\ Made \subseteq Plans /\ standing \subseteq Made BY DEF Guarded, Made, TypeOK
<1>2. CASE Untouched
  <2>1. Guarded' = Guarded /\ \A p \in Plans : Kind(p)' = Kind(p) /\ Saw(p)' = Saw(p)
      BY <1>2, PlanUnchanged DEF Untouched, Guarded, Made
  <2>2. \A p \in Guarded : Spent(p) => Spent(p)' BY <1>1, <1>2, <2>1 DEF Untouched, Spent, Blob
  <2> QED BY <1>2, <2>1, <2>2 DEF Untouched, RepeatsInv
<1>3. ASSUME NEW q \in Made, Counted(q) PROVE RepeatsInv'
  <2>1. UNCHANGED plan /\ standing' = {p \in standing : ~Restores(q, p)} \cup {q}
      BY <1>3 DEF Counted, Apply
  <2>2. Guarded' = Guarded BY <1>1, <2>1, PlanUnchanged DEF Guarded, Made
  <2>3. ASSUME NEW p \in Guarded, p \in standing, ~Restores(q, p) PROVE Spent(p)'
      BY <1>3, <2>3, SpentStaysSpent DEF RepeatsInv, Counted
  <2>4. ASSUME q \in Guarded PROVE Spent(q)' BY <1>3, <2>4, TakenIsSpent DEF Counted
  <2> QED BY <2>1, <2>2, <2>3, <2>4 DEF RepeatsInv
<1>4. ASSUME NEW p \in Plans, NEW kind \in AllKinds, Plan(p, kind) PROVE RepeatsInv'
  <2>1. /\ p \notin Made /\ Made' = Made \cup {p}
        /\ \A q \in Plans \ {p} : Kind(q)' = Kind(q) /\ Saw(q)' = Saw(q)
      BY <1>4, PlanStep
  <2>2. UNCHANGED <<gh, standing>> BY <1>4 DEF Plan
  <2>3. ASSUME NEW q \in standing, q \in Guarded' PROVE Spent(q)'
    <3>1. q \in Plans \ {p} /\ q \in Guarded BY <1>1, <2>1, <2>3 DEF Guarded
    <3>2. Spent(q) BY <2>3, <3>1 DEF RepeatsInv
    <3> QED BY <2>1, <2>2, <3>1, <3>2 DEF Spent, Blob
  <2> QED BY <2>2, <2>3 DEF RepeatsInv
<1>5. CASE Others
  <2>1. standing' = {}
      BY <1>5 DEF Others, ChangeIssue, ChangeMain, ChangeTarget, PushBranch, ResetBranch, ChangePr,
         ChangePull, ChangeText, ChangeLabels, Change
  <2> QED BY <2>1 DEF RepeatsInv
<1> QED BY <1>2, <1>3, <1>4, <1>5, StepKinds

\* The first state is numbered, and nothing has been written.
LEMMA InitRepeats == Init => NumbersInv /\ RepeatsInv
<1> SUFFICES ASSUME Init PROVE NumbersInv /\ RepeatsInv OBVIOUS
<1>1. Made = {} /\ standing = {} BY DEF Init, Made
<1>2. gh.branch = <<InitCommit, [id |-> 2, blob |-> 1]>> /\ fresh = 2 BY DEF Init, Start
<1>3. \A i \in 1..2 : gh.branch[i].id <= 2 BY <1>2 DEF InitCommit
<1>4. Len(gh.branch) = 2 BY <1>2
<1> QED BY <1>1, <1>2, <1>3, <1>4 DEF NumbersInv, Numbered, RepeatsInv

\* Whatever answers are lost, requests late or servers restarted: a branch, a
\* file, a pull request and a commit are written again only if, since the last
\* time, somebody else has changed the repository or another plan has restored
\* the version of the file that this one was made from.
THEOREM RepeatsAreUndone == Spec => RepeatsNeedUndoing
<1>1. Init => NumbersInv /\ RepeatsInv BY InitRepeats
<1>2. TypeOK /\ TypeOK' /\ NumbersInv /\ RepeatsInv /\ [Next]_vars => NumbersInv' /\ RepeatsInv'
    BY StepNumbers, StepRepeats
<1>3. TypeOK /\ NumbersInv /\ RepeatsInv /\ [Next]_vars
        => [\A p \in standing :
              Kind(p) \in {"branch", "file", "pr", "commit"} => count'[p] = count[p]]_vars
  <2> SUFFICES ASSUME TypeOK, NumbersInv, RepeatsInv, [Next]_vars, NEW p \in standing,
                      Kind(p) \in {"branch", "file", "pr", "commit"}, count'[p] # count[p]
               PROVE  FALSE
      OBVIOUS
  <2>1. PICK q \in Made : Counted(q)
      BY StepKinds DEF Untouched, Plan, Others, ChangeIssue, ChangeMain, ChangeTarget, PushBranch,
         ResetBranch, ChangePr, ChangePull, ChangeText, ChangeLabels, Change
  <2>2. q = p BY <2>1 DEF Counted, Apply, TypeOK
  <2>3. p \in Guarded /\ Spent(p) BY DEF Guarded, RepeatsInv, TypeOK
  <2> QED BY <2>1, <2>2, <2>3, TakenIsSpent DEF Counted
<1> QED BY <1>1, <1>2, <1>3, TypeCorrect, PTL DEF Spec, RepeatsNeedUndoing
=============================================================================

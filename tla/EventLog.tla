------------------------------ MODULE EventLog ------------------------------
(***************************************************************************)
(* What the other components of the server may rely on when they push to   *)
(* the event storage, and no more.  An event is in the store as soon as    *)
(* its push is processed; some time later it may also be kept, and only    *)
(* what is kept outlives the process.  Components that push events and     *)
(* derive their state from them are modelled over this abstraction.        *)
(***************************************************************************)
EXTENDS Integers

CONSTANTS
    Ids, Event,     \* event ids; what is stored under one
    NoEvent,        \* nothing is stored under an id
    Damage          \* kept events may be damaged by a partial write

VARIABLES
    store,          \* id -> the event under it, or NoEvent
    number,         \* id -> its revision, 0 if nothing is stored
    top,            \* the revision the last event took
    kept            \* the ids that outlive the process

logVars == <<store, number, top, kept>>

StoredIds == {id \in Ids : store[id] # NoEvent}

\* What is kept is in the store.
LogTypeOK ==
    /\ store \in [Ids -> Event \cup {NoEvent}]
    /\ number \in [Ids -> Nat]
    /\ top \in Nat
    /\ kept \subseteq StoredIds

LogInit ==
    /\ store = [id \in Ids |-> NoEvent]
    /\ number = [id \in Ids |-> 0]
    /\ top = 0
    /\ kept = {}

\* Events of new ids enter the store and take the next revisions, one each; what
\* is stored under other ids is not touched.
Commit ==
    LET new == {id \in Ids : store[id] = NoEvent /\ store'[id] # NoEvent} IN
    /\ store' \in [Ids -> Event \cup {NoEvent}] /\ number' \in [Ids -> Nat] /\ top' \in Nat
    /\ new # {}
    /\ \A id \in Ids \ new : store'[id] = store[id] /\ number'[id] = number[id]
    /\ {number'[id] : id \in new} = (top + 1)..top'
    /\ \A a, b \in new : number'[a] = number'[b] => a = b
    /\ kept' = kept

\* A write to disk keeps some more of the store; it may damage the newest of
\* the kept events, and no other.
Keep ==
    /\ kept' \subseteq StoredIds
    /\ \A a \in kept \ kept' : Damage /\ \A b \in kept : number[b] <= number[a]

\* The oldest of the kept events are given up.
GiveUp == kept' \subseteq kept /\ \A a \in kept', b \in kept \ kept' : number[b] < number[a]

\* The process is replaced by one that knows what was kept, numbered as it
\* was, and goes on from the highest revision it knows.
Reload ==
    /\ Keep
    /\ store' = [id \in Ids |-> IF id \in kept' THEN store[id] ELSE NoEvent]
    /\ number' = [id \in Ids |-> IF id \in kept' THEN number[id] ELSE 0]
    /\ top' \in {0} \cup {number[id] : id \in kept'}
    /\ \A id \in kept' : number[id] <= top'

LogNext ==
    \/ Commit
    \/ Keep /\ UNCHANGED <<store, number, top>>
    \/ GiveUp /\ UNCHANGED <<store, number, top>>
    \/ Reload

LogSpec == LogInit /\ [][LogNext]_logVars
=============================================================================

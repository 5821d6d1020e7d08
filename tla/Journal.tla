------------------------------- MODULE Journal -------------------------------
(***************************************************************************)
(* What the checkpoint of a stack promises as long as its object exists:   *)
(* a write-ahead record of the cloud.  An operation is written down before *)
(* it is performed, one at a time and only for an object that is held by   *)
(* its finalizer; it becomes part of the record as it turned out.  Workers,*)
(* caches, versions, failures and restarts are not to be seen here.        *)
(***************************************************************************)
CONSTANT Resources

VARIABLES
    open,      \* the object exists, and the record with it
    held,      \* the object has its finalizer
    record,    \* the resources on record
    pending,   \* the operation written down and not yet concluded
    cloud      \* the resources that exist

journalVars == <<open, held, record, pending, cloud>>

Init == open = TRUE /\ held = FALSE /\ record = {} /\ pending = {} /\ cloud = {}

\* The finalizer is set once, while there is nothing to guard.
Hold ==
    /\ open /\ ~held
    /\ held' = TRUE
    /\ UNCHANGED <<open, record, pending, cloud>>

Begin(r) ==
    /\ open /\ held /\ pending = {}
    /\ pending' = {r}
    /\ UNCHANGED <<open, held, record, cloud>>

\* The pending operation, and no other, creates its resource or deletes it.
Perform(r) ==
    /\ open /\ pending = {r}
    /\ cloud' \in {cloud \cup {r}, cloud \ {r}}
    /\ UNCHANGED <<open, held, record, pending>>

\* The record takes over what the operation left in the cloud.
Conclude(r) ==
    /\ open /\ pending = {r}
    /\ record' = (record \ {r}) \cup (cloud \cap {r})
    /\ pending' = {}
    /\ UNCHANGED <<open, held, cloud>>

\* The object goes, and an object that was never held leaves nothing.
LetGo ==
    /\ open /\ open' = FALSE
    /\ ~held => record = {} /\ cloud = {}
    /\ UNCHANGED <<record, pending, cloud>>

\* Of an object that is gone nothing is promised, but that it does not return.
Afterwards == ~open /\ ~open'

Next ==
    \/ Hold \/ LetGo \/ Afterwards
    \/ \E r \in Resources : Begin(r) \/ Perform(r) \/ Conclude(r)

Spec == Init /\ [][Next]_journalVars
=============================================================================

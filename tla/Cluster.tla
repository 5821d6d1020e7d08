------------------------------- MODULE Cluster -------------------------------
(***************************************************************************)
(* What the reconciler stands on and does not contain: the API server, the *)
(* user, the garbage collector, and the informer cache and work queue that *)
(* controller-runtime gives each running manager.  All of it is external;  *)
(* it is modelled from how src/ uses it.                                   *)
(*                                                                         *)
(* One custom object is followed, with the Secret that holds the           *)
(* checkpoint of its stack.  Both are kept as the log of their versions:   *)
(* the index of a version is its resourceVersion, the last one is current. *)
(* A cache is an index into the log, so it lags and never goes back.       *)
(***************************************************************************)
EXTENDS Naturals, Sequences, FiniteSets

CONSTANTS
    Managers,     \* the running controller processes (more than one: leader
                  \* election is off, or an old pod is not yet gone)
    Resources,    \* the resources a program may declare
    Root,         \* the one that stands for the stack (pulumi:pulumi:Stack): on
                  \* record like the others, and of no provider
    Programs,     \* the resource sets the user's specs can call for
    MaxGen,       \* bound: last generation the user's edits reach
    MaxTouches    \* bound: metadata-only writes by others

ASSUME ClusterAssumption ==
    /\ Managers # {}
    /\ Programs # {} /\ Programs \subseteq SUBSET Resources
    /\ Root \in Resources /\ \A program \in Programs : Root \in program
    /\ MaxGen \in Nat \ {0} /\ MaxTouches \in Nat

VARIABLES
    objs,      \* versions of the custom object
    secrets,   \* versions of the checkpoint Secret
    seen,      \* per manager: the version its cache shows of each
    queued,    \* per manager: whether the object's key is in the work queue
    touches    \* metadata writes made so far

clusterVars == <<objs, secrets, seen, queued, touches>>

Ready == {"Unknown", "False", "True"}

ObjectVersion ==
    [there : BOOLEAN, gen : Nat \ {0}, goal : Programs, deleting : BOOLEAN,
     fin : BOOLEAN, observed : Nat, ready : Ready, out : SUBSET Resources]

\* A checkpoint: the generation it was saved for, the resources it records and
\* the operations that were begun and not yet reported (data.checkpoint and
\* data.generation of the Secret).
Snapshot ==
    [there : BOOLEAN, gen : Nat, res : SUBSET Resources, pending : SUBSET Resources]

NoSecret == [there |-> FALSE, gen |-> 0, res |-> {}, pending |-> {}]

\* The current version of a log.
Cur(log) == log[Len(log)]

ClusterInit ==
    /\ \E goal \in Programs :
         objs = << [there |-> TRUE, gen |-> 1, goal |-> goal, deleting |-> FALSE,
                    fin |-> FALSE, observed |-> 0, ready |-> "Unknown", out |-> {}] >>
    /\ secrets = << NoSecret >>
    /\ seen = [m \in Managers |-> [obj |-> 1, secret |-> 1]]
    /\ queued = [m \in Managers |-> TRUE]
    /\ touches = 0

----------------------------------------------------------------------------
(* The user and other controllers.                                         *)

\* A change of the spec bumps the generation; it is legal while deletion waits.
EditSpec ==
    /\ Cur(objs).there /\ Cur(objs).gen < MaxGen
    /\ \E goal \in Programs \ {Cur(objs).goal} :
         objs' = Append(objs, [Cur(objs) EXCEPT !.goal = goal, !.gen = @ + 1])
    /\ UNCHANGED <<secrets, seen, queued, touches>>

\* Deletion only marks an object that has a finalizer, and bumps its generation.
Delete ==
    /\ Cur(objs).there /\ ~Cur(objs).deleting
    /\ objs' = Append(objs,
                 IF Cur(objs).fin
                 THEN [Cur(objs) EXCEPT !.deleting = TRUE, !.gen = @ + 1]
                 ELSE [Cur(objs) EXCEPT !.there = FALSE])
    /\ UNCHANGED <<secrets, seen, queued, touches>>

\* A label, an annotation, another controller's condition: a new
\* resourceVersion that changes nothing this controller reads.
Touch ==
    /\ Cur(objs).there /\ touches < MaxTouches
    /\ objs' = Append(objs, Cur(objs))
    /\ touches' = touches + 1
    /\ UNCHANGED <<secrets, seen, queued>>

User == EditSpec \/ Delete \/ Touch

\* The Secret is owned by the object (NewControllerRef): it is collected once
\* the object is gone, whenever it was created.
CollectGarbage ==
    /\ ~Cur(objs).there /\ Cur(secrets).there
    /\ secrets' = Append(secrets, NoSecret)
    /\ UNCHANGED <<objs, seen, queued, touches>>

----------------------------------------------------------------------------
(* The caches of a manager: one informer for objects, one for Secrets, each *)
(* delivering its log in order, neither waiting for the other.             *)

\* GenerationChangedPredicate lets through deletions and the updates that
\* changed the generation.
Notable_DeleteOnly(old, new) == ~new.there    \* mutant: updates are filtered out
Notable(old, new) == old.gen # new.gen \/ ~new.there

WatchObject(m) ==
    LET i == seen[m].obj IN
    /\ i < Len(objs)
    /\ seen' = [seen EXCEPT ![m].obj = i + 1]
    /\ queued' = [queued EXCEPT ![m] = @ \/ Notable(objs[i], objs[i + 1])]
    /\ UNCHANGED <<objs, secrets, touches>>

\* Nobody watches Secrets for events: the cache moves, the queue does not.
WatchSecret(m) ==
    /\ seen[m].secret < Len(secrets)
    /\ seen' = [seen EXCEPT ![m].secret = @ + 1]
    /\ UNCHANGED <<objs, secrets, queued, touches>>
=============================================================================

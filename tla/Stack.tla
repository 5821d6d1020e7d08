-------------------------------- MODULE Stack --------------------------------
(***************************************************************************)
(* The stack of the custom object (pkg/backend): the checkpoint loaded     *)
(* from the Secret the cache shows, and the engine operation that saves    *)
(* the checkpoint before and after every change it makes in the cloud.     *)
(*                                                                         *)
(* The engine is external (pulumi v3.4.0).  pkg/backend runs it serially   *)
(* (UpdateOptions has no Parallel) and hands it a SnapshotPersister: each  *)
(* step saves the operation as pending, performs it, and saves its result. *)
(***************************************************************************)
EXTENDS Cluster

CONSTANTS
    Flushes,       \* what the engine's snapshot manager writes when it is
                   \* closed: "keep" or "forget" the pending operations of the
                   \* checkpoint it was opened on; {} if it writes nothing
    MaxSnapshots   \* bound: checkpoints are flushed below this many versions

ASSUME StackAssumption ==
    /\ Flushes \subseteq {"keep", "forget"}
    /\ MaxSnapshots \in Nat

VARIABLES
    cloud,   \* the resources that exist at the cloud providers (Root, which
             \* has no provider, exists in name)
    work     \* per manager: the reconciliation it is in

stackVars == <<cloud, work>>

Phases == {"idle", "finalizer", "load", "preview", "plan", "engine", "apply",
           "confirm", "result", "release"}

\* rv: the version of the object in memory (obj); handle: the version of the
\* Secret the stack holds (snapHandle), a version with ~there standing for no
\* handle; changes: the preview's HasChanges, and later that the update ran;
\* ok: the provider's answer to the last operation.
Work == [pc : Phases, rv : Nat, handle : Nat, changes : BOOLEAN, ok : BOOLEAN]

Idle == [pc |-> "idle", rv |-> 1, handle |-> 1, changes |-> FALSE, ok |-> FALSE]

StackInit ==
    /\ cloud = {}
    /\ work = [m \in Managers |-> Idle]

At(m, phase) == work[m].pc = phase
Obj(m) == objs[work[m].rv]
Snap(m) == secrets[work[m].handle]

Goto(m, phase) == work' = [work EXCEPT ![m] = [@ EXCEPT !.pc = phase]]

\* ReconcileObject returns; the key goes back into the queue on Requeue or error.
Return(m, requeue) ==
    /\ work' = [work EXCEPT ![m] = Idle]
    /\ queued' = [queued EXCEPT ![m] = @ \/ requeue]

\* A call that fails or conflicts ends the reconciliation with a retry.
GiveUp_NoRetry(m) == Return(m, FALSE)    \* mutant: the failure is swallowed
GiveUp(m) == Return(m, TRUE)

----------------------------------------------------------------------------
(* Snapshot storage.                                                       *)

\* The API server takes a Create when there is no Secret and an Update when the
\* handle's resourceVersion is the current one.
Matches_Blind(m) == TRUE    \* mutant: the resourceVersion is not sent
Matches(m) == IF Snap(m).there THEN work[m].handle = Len(secrets)
                               ELSE ~Cur(secrets).there

\* What setSnapshot writes: the serialised checkpoint, and the generation of the
\* object in memory.
Checkpoint(m, res, pending) ==
    [there |-> TRUE, gen |-> Obj(m).gen, res |-> res, pending |-> pending]

\* Save retains the new handle.
Save(m, res, pending, w) ==
    /\ Matches(m)
    /\ secrets' = Append(secrets, Checkpoint(m, res, pending))
    /\ work' = [work EXCEPT ![m] = [w EXCEPT !.handle = Len(secrets) + 1]]

\* The integrity check of GetSnapshot: the checkpoint was saved for a later
\* generation than that of the object in memory.
Mismatch_Unchecked(snap, o) == FALSE    \* mutant: the check is dropped
Mismatch(snap, o) == snap.gen > o.gen

\* GetSnapshot reads the Secret, or that there is none, through the cache.
GetSnapshot(m) == secrets[seen[m].secret]

\* A mismatch is retried.
LoadStack(m) ==
    /\ At(m, "load")
    /\ \/ Mismatch(GetSnapshot(m), Obj(m)) /\ GiveUp(m)
       \/ /\ ~Mismatch(GetSnapshot(m), Obj(m))
          /\ work' = [work EXCEPT ![m] = [@ EXCEPT !.pc = "preview", !.handle = seen[m].secret]]
          /\ UNCHANGED queued
    /\ UNCHANGED <<objs, secrets, seen, touches, cloud>>

----------------------------------------------------------------------------
(* Engine operations.                                                      *)

\* The resources the operation works towards: Update's program, or none for
\* Destroy.
Want(o) == IF o.deleting THEN {} ELSE o.goal

\* The snapshot manager writes the checkpoint once more when it is closed, if it
\* kept a write back since its last save.
Flush(m) ==
    /\ Len(secrets) < MaxSnapshots /\ Matches(m)
    /\ \E how \in Flushes :
         secrets' = Append(secrets, Checkpoint(m, Snap(m).res,
                                      IF how = "keep" THEN Snap(m).pending ELSE {}))

\* runEngineAction closes the snapshot manager of every operation, the dry run
\* too, and ignores a failure; the worker goes on as w.
CloseSnapshots(m, w) ==
    \/ work' = [work EXCEPT ![m] = w] /\ UNCHANGED secrets
    \/ Flush(m) /\ work' = [work EXCEPT ![m] = [w EXCEPT !.handle = Len(secrets) + 1]]

\* It is closed after an operation that failed or was refused, too.
Abandon(m) == GiveUp(m) /\ (Flush(m) \/ UNCHANGED secrets)

\* HasChanges of the preview's summary counts the root like any resource.
HasChanges_Declared(m) == Snap(m).res \ {Root} # Want(Obj(m)) \ {Root}    \* mutant: it does not
HasChanges(m) == Snap(m).res # Want(Obj(m))

\* A preview is not refused for what the checkpoint has pending.
Previewed(m) == [work[m] EXCEPT !.pc = "plan", !.changes = HasChanges(m)]

Preview(m) ==
    /\ At(m, "preview")
    /\ CloseSnapshots(m, Previewed(m))
    /\ UNCHANGED <<objs, seen, queued, touches, cloud>>

\* Creations come first, deletions after them; the root, parent of all others, is
\* created before and deleted after them.
NextSteps(m) ==
    LET new == Want(Obj(m)) \ Snap(m).res
        old == Snap(m).res \ Want(Obj(m))
    IN  IF Root \in new THEN {Root}
        ELSE IF new # {} THEN new
        ELSE IF old = {Root} THEN old
        ELSE old \ {Root}

\* The resources the checkpoint records after the step on r.
After(m, r) == IF r \in Want(Obj(m)) THEN Snap(m).res \cup {r} ELSE Snap(m).res \ {r}

\* An operation whose checkpoint has operations pending is refused.
Interrupted(m) == Snap(m).pending # {}

Refuse(m) ==
    /\ At(m, "engine") /\ Interrupted(m)
    /\ Abandon(m)
    /\ UNCHANGED <<objs, seen, touches, cloud>>

\* Save of the pending operation; a conflict ends the operation.
BeginStep(m) ==
    /\ At(m, "engine") /\ ~Interrupted(m)
    /\ \E r \in NextSteps(m) :
         \/ /\ Save(m, Snap(m).res, {r}, [work[m] EXCEPT !.pc = "apply"])
            /\ UNCHANGED queued
         \/ ~Matches(m) /\ GiveUp(m) /\ UNCHANGED secrets
    /\ UNCHANGED <<objs, seen, touches, cloud>>

Effect(m) == IF Snap(m).pending \subseteq Want(Obj(m)) THEN cloud \cup Snap(m).pending
                                                    ELSE cloud \ Snap(m).pending

\* The provider performs the pending operation.
Apply(m) ==
    /\ At(m, "apply")
    /\ cloud' = Effect(m)
    /\ work' = [work EXCEPT ![m] = [@ EXCEPT !.pc = "confirm", !.ok = TRUE]]
    /\ UNCHANGED clusterVars

\* Save of the outcome: the result of a step that succeeded, and in either case
\* an operation no longer pending.  A failed step, or a conflict, ends the
\* operation.
EndStep(m) ==
    /\ At(m, "confirm")
    /\ \/ /\ work[m].ok
          /\ \E r \in Snap(m).pending :
               Save(m, After(m, r), {}, [work[m] EXCEPT !.pc = "engine", !.ok = FALSE])
          /\ UNCHANGED queued
       \/ /\ ~work[m].ok /\ Matches(m)
          /\ secrets' = Append(secrets, Checkpoint(m, Snap(m).res, {}))
          /\ GiveUp(m)
       \/ ~Matches(m) /\ GiveUp(m) /\ UNCHANGED secrets
    /\ UNCHANGED <<objs, seen, touches, cloud>>

Finished(m) == At(m, "engine") /\ ~Interrupted(m) /\ NextSteps(m) = {}

EngineDone(m) ==
    /\ Finished(m)
    /\ CloseSnapshots(m, [work[m] EXCEPT !.pc = "result"])
    /\ UNCHANGED <<objs, seen, queued, touches, cloud>>

Engine(m) == Refuse(m) \/ BeginStep(m) \/ Apply(m) \/ EndStep(m) \/ EngineDone(m)
=============================================================================

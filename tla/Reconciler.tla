----------------------------- MODULE Reconciler -----------------------------
(***************************************************************************)
(* PulumiReconciler.ReconcileObject run by each manager's worker, with the *)
(* sample's UpdateStatus, over the stack (Stack) and the cluster (Cluster):*)
(* finalizer, load, preview, status, update or destroy, status, finalizer. *)
(*                                                                         *)
(* Every call to the API server or a provider is a step of its own, so all *)
(* managers, the user, the caches and failures interleave between calls.   *)
(***************************************************************************)
EXTENDS Stack

CONSTANTS
    Faults,      \* the kinds of failure that can happen
    MaxFaults    \* bound: how many of them do

ASSUME ReconcilerAssumption ==
    /\ Faults \subseteq {"provider", "call", "save", "lost", "crash"}
    /\ MaxFaults \in Nat

VARIABLE faults

vars == <<clusterVars, stackVars, faults>>

Init == ClusterInit /\ StackInit /\ faults = 0

Suffer(kind) == kind \in Faults /\ faults < MaxFaults /\ faults' = faults + 1

----------------------------------------------------------------------------
(* Writes of the object.                                                   *)

Fresh(m) == work[m].rv = Len(objs)

\* An update that changes nothing makes no new version.
Written(o) == IF o = Cur(objs) THEN objs ELSE Append(objs, o)

PutObject_Forced(m, o, w) ==    \* mutant: the status is written over a conflict
    /\ objs' = Written(o)
    /\ work' = [work EXCEPT ![m] = [w EXCEPT !.rv = Len(Written(o))]]
    /\ UNCHANGED queued

\* The object in memory becomes the version the server answers with; a conflict
\* (or an object that is gone) ends the reconciliation with a retry.
PutObject(m, o, w) ==
    \/ /\ Fresh(m)
       /\ objs' = Written(o)
       /\ work' = [work EXCEPT ![m] = [w EXCEPT !.rv = Len(Written(o))]]
       /\ UNCHANGED queued
    \/ ~Fresh(m) /\ GiveUp(m) /\ UNCHANGED objs

NeedsFinalizer_Never(o) == FALSE    \* mutant: the finalizer is not added
NeedsFinalizer(o) == ~o.deleting /\ ~o.fin
WithFinalizer(o) == [o EXCEPT !.fin = TRUE]

\* UpdateStatus while planning: the condition tells whether changes are pending.
Planned_Ready(o, changes) ==    \* mutant: it does not
    [o EXCEPT !.ready = "True", !.observed = o.gen]
Planned(o, changes) ==
    [o EXCEPT !.ready = IF changes THEN "False" ELSE "True", !.observed = o.gen]

\* UpdateStatus after the operation: the outputs, and nothing of the condition.
Executed(o) == [o EXCEPT !.out = Want(o), !.observed = o.gen]

\* Removing the last finalizer of an object marked for deletion deletes it.
Released(o) == [o EXCEPT !.fin = FALSE, !.there = FALSE]

----------------------------------------------------------------------------
(* The worker of manager m.                                                *)

Found_Always(m) == TRUE    \* mutant: a Get that finds nothing is not noticed
Found(m) == objs[seen[m].obj].there

Start(m) ==
    /\ At(m, "idle") /\ queued[m]
    /\ queued' = [queued EXCEPT ![m] = FALSE]
    /\ \/ /\ Found(m)
          /\ work' = [work EXCEPT ![m] = [Idle EXCEPT !.pc = "finalizer", !.rv = seen[m].obj]]
       \/ ~Found(m) /\ UNCHANGED work
    /\ UNCHANGED <<objs, secrets, seen, touches, cloud, faults>>

AddFinalizer(m) ==
    /\ At(m, "finalizer")
    /\ \/ /\ NeedsFinalizer(Obj(m))
          /\ PutObject(m, WithFinalizer(Obj(m)), [work[m] EXCEPT !.pc = "load"])
       \/ ~NeedsFinalizer(Obj(m)) /\ Goto(m, "load") /\ UNCHANGED <<objs, queued>>
    /\ UNCHANGED <<secrets, seen, touches, cloud, faults>>

PlanStatus(m) ==
    /\ At(m, "plan")
    /\ PutObject(m, Planned(Obj(m), work[m].changes),
         [work[m] EXCEPT !.pc = IF work[m].changes THEN "engine" ELSE "release"])
    /\ UNCHANGED <<secrets, seen, touches, cloud, faults>>

ResultStatus(m) ==
    /\ At(m, "result")
    /\ PutObject(m, Executed(Obj(m)), [work[m] EXCEPT !.pc = "release"])
    /\ UNCHANGED <<secrets, seen, touches, cloud, faults>>

\* An update that ran is followed by another reconciliation.
Requeues_Always(m) == TRUE    \* mutant: whether or not anything ran
Requeues_Never(m) == FALSE    \* mutant: the requeue is forgotten
Requeues(m) == work[m].changes

\* The end: the finalizer of an object marked for deletion goes, whatever ran.
RemovesFinalizer(o) == o.deleting /\ o.fin

Release(m) ==
    /\ At(m, "release")
    /\ \/ /\ RemovesFinalizer(Obj(m)) /\ Fresh(m)
          /\ objs' = Append(objs, Released(Obj(m)))
          /\ Return(m, FALSE)
       \/ RemovesFinalizer(Obj(m)) /\ ~Fresh(m) /\ GiveUp(m) /\ UNCHANGED objs
       \/ ~RemovesFinalizer(Obj(m)) /\ Return(m, Requeues(m)) /\ UNCHANGED objs
    /\ UNCHANGED <<secrets, seen, touches, cloud, faults>>

Step(m) ==
    \/ Start(m) \/ AddFinalizer(m) \/ PlanStatus(m) \/ ResultStatus(m) \/ Release(m)
    \/ (LoadStack(m) \/ Preview(m) \/ Engine(m)) /\ UNCHANGED faults

----------------------------------------------------------------------------
(* Failures.  Each ends the reconciliation with an error, and so a retry,  *)
(* save for the flush whose answer is lost.                                *)

\* The provider refuses the pending operation and does nothing; the root has none.
ApplyFails(m) ==
    /\ At(m, "apply") /\ Snap(m).pending # {Root} /\ Suffer("provider")
    /\ work' = [work EXCEPT ![m] = [@ EXCEPT !.pc = "confirm", !.ok = FALSE]]
    /\ UNCHANGED <<clusterVars, cloud>>

\* A call to the API server fails before it has any effect, or LoadStack does; the
\* save of a checkpoint is a call of its own kind.
CallFails(m) ==
    /\ GiveUp(m)
    /\ \/ /\ Suffer("call")
          /\ \/ At(m, "finalizer") /\ NeedsFinalizer(Obj(m))
             \/ At(m, "release") /\ RemovesFinalizer(Obj(m))
             \/ work[m].pc \in {"load", "plan", "result"}
       \/ /\ Suffer("save")
          /\ \/ At(m, "confirm")
             \/ At(m, "engine") /\ ~Interrupted(m) /\ NextSteps(m) # {}
    /\ UNCHANGED <<objs, secrets, seen, touches, cloud>>

\* A plugin or the program fails: the preview, or the operation between two steps.
OperationFails(m) ==
    /\ At(m, "preview") \/ (At(m, "engine") /\ ~Interrupted(m))
    /\ Suffer("call") /\ Abandon(m)
    /\ UNCHANGED <<objs, seen, touches, cloud>>

\* A write reaches the server and its answer is lost.
AnswerLost(m) ==
    /\ Suffer("lost") /\ GiveUp(m)
    /\ \/ /\ Fresh(m) /\ UNCHANGED secrets
          /\ \/ /\ At(m, "finalizer") /\ NeedsFinalizer(Obj(m))
                /\ objs' = Append(objs, WithFinalizer(Obj(m)))
             \/ At(m, "plan") /\ objs' = Written(Planned(Obj(m), work[m].changes))
             \/ At(m, "result") /\ objs' = Written(Executed(Obj(m)))
             \/ /\ At(m, "release") /\ RemovesFinalizer(Obj(m))
                /\ objs' = Append(objs, Released(Obj(m)))
       \/ /\ Matches(m) /\ UNCHANGED objs
          /\ \/ /\ At(m, "engine") /\ ~Interrupted(m)
                /\ \E r \in NextSteps(m) :
                     secrets' = Append(secrets, Checkpoint(m, Snap(m).res, {r}))
             \/ /\ At(m, "confirm") /\ work[m].ok
                /\ \E r \in Snap(m).pending :
                     secrets' = Append(secrets, Checkpoint(m, After(m, r), {}))
             \/ /\ At(m, "confirm") /\ ~work[m].ok
                /\ secrets' = Append(secrets, Checkpoint(m, Snap(m).res, {}))
    /\ UNCHANGED <<seen, touches, cloud>>

\* The same of a flush: the error is ignored, and the worker goes on with the
\* handle that the flush made an old one.
FlushLost(m) ==
    /\ Suffer("lost") /\ Flush(m)
    /\ \/ At(m, "preview") /\ work' = [work EXCEPT ![m] = Previewed(m)]
       \/ Finished(m) /\ Goto(m, "result")
    /\ UNCHANGED <<objs, seen, queued, touches, cloud>>

\* The process dies, or is told to stop and its context is cancelled, and is
\* started again: fresh caches, every object queued, nothing of the work left.
Crash(m) ==
    /\ Suffer("crash")
    /\ work' = [work EXCEPT ![m] = Idle]
    /\ seen' = [seen EXCEPT ![m] = [obj |-> Len(objs), secret |-> Len(secrets)]]
    /\ queued' = [queued EXCEPT ![m] = Cur(objs).there]
    /\ UNCHANGED <<objs, secrets, touches, cloud>>

Fault(m) ==
    ApplyFails(m) \/ CallFails(m) \/ OperationFails(m) \/ AnswerLost(m) \/ FlushLost(m) \/ Crash(m)

----------------------------------------------------------------------------
World == User \/ CollectGarbage \/ \E m \in Managers : WatchObject(m) \/ WatchSecret(m)

Next ==
    \/ \E m \in Managers : Step(m) \/ Fault(m)
    \/ World /\ UNCHANGED <<stackVars, faults>>

Spec == Init /\ [][Next]_vars

\* A worker does not stop between two calls, the informers deliver and the
\* garbage collector collects; users and failures owe nothing.
Fairness ==
    /\ \A m \in Managers :
         /\ WF_vars(Step(m))
         /\ WF_vars(WatchObject(m) /\ UNCHANGED <<stackVars, faults>>)
         /\ WF_vars(WatchSecret(m) /\ UNCHANGED <<stackVars, faults>>)
    /\ WF_vars(CollectGarbage /\ UNCHANGED <<stackVars, faults>>)

FairSpec == Spec /\ Fairness

----------------------------------------------------------------------------
(* Properties.                                                             *)

\* The reconciler keeps its types; a worker in a reconciliation holds a version
\* of the object that was there, and status never runs ahead of the spec.
TypeOK ==
    /\ objs \in Seq(ObjectVersion) /\ objs # <<>> /\ objs[1].there
    /\ secrets \in Seq(Snapshot) /\ secrets # <<>>
    /\ seen \in [Managers -> [obj : 1..Len(objs), secret : 1..Len(secrets)]]
    /\ queued \in [Managers -> BOOLEAN]
    /\ touches \in 0..MaxTouches /\ faults \in 0..MaxFaults
    /\ cloud \subseteq Resources
    /\ work \in [Managers -> Work]
    /\ \A m \in Managers :
         /\ work[m].rv \in 1..Len(objs) /\ work[m].handle \in 1..Len(secrets)
         /\ Obj(m).there
    /\ \A i \in 1..Len(objs) : objs[i].observed <= objs[i].gen

Mid(m) == work[m].pc \in {"apply", "confirm"}

\* The checkpoint is a write-ahead log: as long as the object exists, what it
\* records exists at the provider and nothing else does, save for the operations
\* it names as pending (kubeStack.Save before and after each step).
CheckpointExact ==
    Cur(objs).there =>
        \A r \in Resources \ Cur(secrets).pending : r \in cloud <=> r \in Cur(secrets).res

\* Optimistic concurrency on the Secret is the only lock between managers: two
\* of them are never both inside an operation on the same stack
\* (setSnapshot's Create and Update against a known resourceVersion).
ExclusiveEngine ==
    Cur(objs).there => \A m, n \in Managers : Mid(m) /\ Mid(n) => m = n

\* While the object has no finalizer nothing of it can be left behind: no cloud
\* resource, no checkpoint (ReconcileObject adds the finalizer before LoadStack).
FinalizerGuardsCloud ==
    Cur(objs).there /\ ~Cur(objs).fin => cloud = {} /\ ~Cur(secrets).there

\* "Avoid going backwards in terms of goal state" (GetSnapshot): no manager, on
\* whatever stale object, replaces a checkpoint by one of an older generation.
SnapshotNeverGoesBackwards ==
    [][Cur(secrets).there /\ Cur(secrets').there => Cur(secrets').gen >= Cur(secrets).gen]_vars

\* Once the checkpoint was saved for a generation marked for deletion, no
\* manager that still works for an earlier one begins to create a resource.
NoResurrection ==
    [][(\E o \in {objs[i] : i \in 1..Len(objs)} : o.deleting /\ o.gen <= Cur(secrets).gen)
       /\ Cur(secrets').there
         => Cur(secrets').pending \subseteq Cur(secrets).pending \cup Cur(secrets).res]_vars

\* A worker that lets the object go while it holds the checkpoint that is the
\* current one leaves nothing, whatever crash or failure left an operation pending
\* in it: the preview counts the root, and Destroy is refused (ReconcileObject).
LetsGo(m) == At(m, "release") /\ work'[m] # work[m] /\ Cur(objs).there /\ ~Cur(objs').there

CleanRelease ==
    [][\A m \in Managers :
         LetsGo(m) /\ Snap(m) = Cur(secrets) => cloud \subseteq {Root}]_vars

\* Status is never taken back to an earlier generation, by whatever stale version
\* of the object a manager holds (UpdateStatus writes obj.Generation).
ObservedNeverGoesBackwards ==
    [][Cur(objs').observed >= Cur(objs).observed]_vars

\* A worker that writes status while it holds the current checkpoint writes the
\* truth: Ready, or the outputs of its generation, mean that the cloud is what the
\* generation calls for, up to what that checkpoint has pending.
Provisioned(m) ==
    \A r \in Resources \ Cur(secrets).pending : r \in cloud <=> r \in Want(Obj(m))

WritesStatus(m) == work'[m] # work[m] /\ (At(m, "plan") \/ At(m, "result")) /\ objs' # objs

TrueWhenCurrent ==
    [][\A m \in Managers :
         WritesStatus(m) /\ Snap(m) = Cur(secrets)
             /\ (Cur(objs').ready = "True" \/ Cur(objs').out # Cur(objs).out)
           => Provisioned(m)]_vars

\* The user leaves the first spec alone.
Undisturbed == Cur(objs).gen = 1

Quiet(m) == At(m, "idle") /\ ~queued[m] /\ seen[m].obj = Len(objs)
Settled == \A m \in Managers : Quiet(m)

\* A manager rests only when nothing is left to do: no conflict, failure or lost
\* answer is dropped, and no event is taken for news that is old
\* (ReconcileObject's requeues, GenerationChangedPredicate).
NothingForgotten ==
    \A m \in Managers : Quiet(m) /\ Cur(objs).there =>
        ~Cur(objs).deleting /\ Cur(objs).observed = Cur(objs).gen

(* Liveness, under FairSpec.                                               *)

\* The checkpoint names an operation that nobody is in, and changes are called
\* for: every Update and Destroy is refused, and ReconcileObject retries for ever.
\* A crash, a lost answer or a failed save between the two saves of a step leaves
\* it so.
Stranded ==
    /\ Cur(objs).there /\ Cur(secrets).pending # {}
    /\ Cur(secrets).res # Want(Cur(objs))
    /\ \A m \in Managers : ~Mid(m)

\* A deleted object goes: no retry, stale read or failed call holds its finalizer
\* for ever (ReconcileObject's retries and its last block), unless an operation
\* is left pending for good.
DeletionCompletes == Cur(objs).deleting ~> (~Cur(objs).there \/ []Stranded)

\* Reconciling ends: the requeue after an update does not feed itself, although
\* the worker's own writes come back as events (GenerationChangedPredicate).  It
\* does not end where an operation is left pending.
Settles == <>[]Settled \/ <>[]Stranded

\* Each spec is eventually the observed one, if no later one comes
\* (UpdateStatus while planning).
ObservedEventually == []<>(Cur(objs).there => Cur(objs).observed = Cur(objs).gen)

\* An object that is created and left alone ends up provisioned and Ready, unless
\* an operation is left pending for good (ReconcileObject).
Provided == Cur(objs).there => cloud = Cur(objs).goal /\ Cur(objs).ready = "True"

Converges == []Undisturbed => <>[]Provided \/ <>[]Stranded

(* What the documentation promises and the code does not keep.             *)

\* "When the custom object is marked for deletion, the library destroys the
\* current resources" (README): an object that is gone has left nothing.
GoneMeansClean == ~Cur(objs).there => cloud \subseteq {Root}

\* "If any changes were made, updates the status again" (README): once all is
\* settled and the object is Ready, its status shows the outputs of its spec.
OutputsShown ==
    Settled /\ Cur(objs).there /\ Cur(objs).ready = "True" => Cur(objs).out = Cur(objs).goal

\* "Update the status block, such that it reflects current status with respect
\* to a particular generation" (StackChanges): Ready for the current generation
\* means provisioned for it.
TrueStatus ==
    Settled /\ Cur(objs).there /\ Cur(objs).ready = "True" /\ Cur(objs).observed = Cur(objs).gen
      => cloud = Cur(objs).goal
=============================================================================

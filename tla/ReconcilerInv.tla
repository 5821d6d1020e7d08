---------------------------- MODULE ReconcilerInv ----------------------------
(***************************************************************************)
(* The inductive invariant behind the safety properties of Reconciler, in  *)
(* named parts.  The runs check it; ReconcilerProofs proves it.            *)
(***************************************************************************)
EXTENDS Reconciler

Loaded(m) == ~(work[m].pc \in {"idle", "finalizer", "load"})
Guarded(m) == work[m].pc \notin {"idle", "finalizer"}

\* Absent versions of the Secret record nothing.
AbsentIsEmpty ==
    \A i \in 1..Len(secrets) : ~secrets[i].there => secrets[i] = NoSecret

\* The root is on record before anything else and as long as anything else is:
\* whatever a checkpoint without it has pending is the root.
Rooted(snap) ==
    /\ Root \notin snap.res => snap.res = {} /\ snap.pending \subseteq {Root}
    /\ Root \in snap.pending => snap.res \subseteq {Root}

RootFirst == \A i \in 1..Len(secrets) : Rooted(secrets[i])

\* The history of the object: generations grow, deletion is for good and for the
\* generations after it, and an object marked for deletion has its finalizer.
History ==
    /\ \A i \in 1..Len(objs) :
         /\ objs[i].gen <= Cur(objs).gen
         /\ objs[i].deleting => Cur(objs).deleting
         /\ objs[i].there /\ objs[i].deleting => objs[i].fin
         /\ objs[i].fin /\ Cur(objs).there => Cur(objs).fin
    /\ \A i, j \in 1..Len(objs) :
         objs[i].deleting /\ objs[i].gen <= objs[j].gen => objs[j].deleting

\* What a worker holds: a finalizer before it loads, and a checkpoint not saved
\* for a later generation than the one it works for.
Holding ==
    \A m \in Managers :
      /\ Guarded(m) => Obj(m).fin
      /\ Loaded(m) => Snap(m).gen <= Obj(m).gen

\* The worker in an operation holds the content of the current checkpoint, which
\* names the operation; the cloud is as that phase of the operation has it.
InStep(m) ==
    /\ Snap(m).there /\ Cur(secrets).there
    /\ Snap(m).res = Cur(secrets).res
    /\ Snap(m).pending = Cur(secrets).pending
    /\ \E r \in Resources :
         /\ Snap(m).pending = {r}
         /\ r \in cloud <=> (IF At(m, "confirm") /\ work[m].ok THEN r \in Want(Obj(m))
                                                               ELSE r \in Snap(m).res)

Operations == Cur(objs).there => \A m \in Managers : Mid(m) => InStep(m)

\* A worker on its way to letting go records what its generation wants.
Finishing ==
    \A m \in Managers :
        work[m].pc \in {"result", "release"} \/ (At(m, "plan") /\ ~work[m].changes)
          => Snap(m).res = Want(Obj(m))

\* What holds whatever the snapshot manager writes when it is closed.
Sound == AbsentIsEmpty /\ RootFirst /\ History /\ Holding /\ Finishing /\ FinalizerGuardsCloud

\* What holds unless it forgets pending operations.
Exact == Operations /\ ExclusiveEngine /\ CheckpointExact

\* The version of the object that the manager's cache shows.
Shown(m) == objs[seen[m].obj]

\* Status only moves on, and an object that is gone stays gone.
Onwards ==
    \A i \in 1..Len(objs) :
        /\ objs[i].observed <= Cur(objs).observed
        /\ Cur(objs).there => objs[i].there

\* A key that is not queued asks for nothing the cache has shown: the worker that
\* took it works for that generation or a later one, or has been through with it.
Attended ==
    /\ Onwards
    /\ \A m \in Managers : At(m, "release") => Obj(m).observed = Obj(m).gen
    /\ \A m \in Managers : ~queued[m] /\ Cur(objs).there =>
         IF At(m, "idle") THEN ~Shown(m).deleting /\ Shown(m).gen <= Cur(objs).observed
                          ELSE Shown(m).gen <= Obj(m).gen

\* Everything the proofs carry from step to step.
IInv == Sound /\ Exact /\ Attended
=============================================================================

-------------------------- MODULE ReconcilerProofs --------------------------
(***************************************************************************)
(* Proofs of the safety properties of Reconciler for every number of       *)
(* managers, set of resources, set of programs, and bound.                 *)
(***************************************************************************)
EXTENDS ReconcilerInv, TLAPS

----------------------------------------------------------------------------
(* Logs.                                                                   *)

\* What appending a version to a log does to it.
LEMMA LogAppend ==
  ASSUME NEW S, NEW log \in Seq(S), log # <<>>, NEW x \in S
  PROVE  /\ Append(log, x) \in Seq(S) /\ Append(log, x) # <<>>
         /\ Len(Append(log, x)) = Len(log) + 1
         /\ \A i \in 1..Len(log) : Append(log, x)[i] = log[i]
         /\ Cur(Append(log, x)) = x
         /\ 1..Len(log) \subseteq 1..Len(Append(log, x))
         /\ Len(log) \in Nat \ {0} /\ Cur(log) \in S /\ Len(log) \in 1..Len(log)
BY DEF Cur

\* The current version of a log is one of its versions.
LEMMA LogCur ==
  ASSUME NEW S, NEW log \in Seq(S), log # <<>>
  PROVE  /\ Len(log) \in Nat \ {0} /\ Cur(log) \in S /\ Len(log) \in 1..Len(log)
         /\ \A i \in 1..Len(log) : log[i] \in S
BY DEF Cur

\* The current versions of the object and of the Secret are of their types.
LEMMA CurTyped ==
  ASSUME TypeOK
  PROVE  /\ Cur(objs) \in ObjectVersion /\ Cur(objs).observed <= Cur(objs).gen
         /\ Cur(objs).gen \in Nat \ {0}
         /\ Cur(secrets) \in Snapshot
<1>1. Len(objs) \in 1..Len(objs) /\ Cur(objs) \in ObjectVersion /\ Cur(secrets) \in Snapshot
  BY LogCur DEF TypeOK
<1> QED BY <1>1 DEF TypeOK, Cur, ObjectVersion

\* The versions a worker holds are versions of the logs.
LEMMA HeldTyped ==
  ASSUME TypeOK, NEW m \in Managers
  PROVE  /\ work[m] \in Work
         /\ Obj(m) \in ObjectVersion /\ Obj(m).observed <= Obj(m).gen /\ Obj(m).there
         /\ Obj(m).gen \in Nat \ {0} /\ Want(Obj(m)) \subseteq Resources
         /\ Snap(m) \in Snapshot /\ Snap(m).res \subseteq Resources
         /\ Snap(m).pending \subseteq Resources /\ Snap(m).gen \in Nat
         /\ Fresh(m) => Obj(m) = Cur(objs)
         /\ Matches(m) /\ Snap(m).there => Snap(m) = Cur(secrets)
<1>1. /\ work[m] \in Work /\ Obj(m) \in ObjectVersion /\ Snap(m) \in Snapshot
      /\ Obj(m).observed <= Obj(m).gen /\ Obj(m).there
  BY LogCur DEF TypeOK, Obj, Snap
<1>2. Programs \subseteq SUBSET Resources
  BY ClusterAssumption DEF ClusterAssumption
<1>3. Want(Obj(m)) \subseteq Resources
  BY <1>1, <1>2 DEF Want, ObjectVersion
<1>4. /\ Snap(m).res \subseteq Resources /\ Snap(m).pending \subseteq Resources
      /\ Snap(m).gen \in Nat /\ Obj(m).gen \in Nat \ {0}
  BY <1>1 DEF Snapshot, ObjectVersion
<1>5. /\ Fresh(m) => Obj(m) = Cur(objs)
      /\ Matches(m) /\ Snap(m).there => Snap(m) = Cur(secrets)
  BY DEF Fresh, Obj, Matches, Snap, Cur
<1> QED BY <1>1, <1>3, <1>4, <1>5

----------------------------------------------------------------------------
(* How the logs grow.                                                      *)

\* A version of the object that a step may append to its log.
NextVersion(o) ==
  /\ o \in ObjectVersion /\ Cur(objs).there
  /\ o.observed <= o.gen /\ o.observed >= Cur(objs).observed
  /\ o.gen >= Cur(objs).gen
  /\ Cur(objs).deleting => o.deleting
  /\ o.gen = Cur(objs).gen /\ o.deleting => Cur(objs).deleting
  /\ o.there /\ Cur(objs).fin => o.fin
  /\ o.there /\ o.deleting => o.fin

ObjsGrow == objs' = objs \/ \E o \in ObjectVersion : NextVersion(o) /\ objs' = Append(objs, o)

\* What a worker may make of the version it holds.
Edit(o, n) ==
  /\ n \in ObjectVersion
  /\ n.gen = o.gen /\ n.deleting = o.deleting /\ n.goal = o.goal
  /\ n.observed <= n.gen /\ n.observed >= o.observed
  /\ n.there /\ o.fin => n.fin

SecretsGrow ==
  \/ secrets' = secrets
  \/ \E s \in Snapshot :
       /\ secrets' = Append(secrets, s)
       /\ s.there \/ s = NoSecret

\* Each write ReconcileObject makes of the object is an edit: it leaves the
\* spec, the generation and the deletion mark alone.
LEMMA Edits ==
  ASSUME NEW o \in ObjectVersion, o.observed <= o.gen, NEW c \in BOOLEAN
  PROVE  /\ Edit(o, WithFinalizer(o)) /\ WithFinalizer(o).fin
         /\ Edit(o, Planned(o, c)) /\ Planned(o, c).there = o.there
         /\ Edit(o, Executed(o)) /\ Executed(o).there = o.there
         /\ Edit(o, Released(o)) /\ ~Released(o).there
         /\ WithFinalizer(o).there = o.there
         /\ Planned(o, c).fin = o.fin /\ Executed(o).fin = o.fin
<1>1. Want(o) \subseteq Resources
  BY ClusterAssumption DEF ClusterAssumption, Want, ObjectVersion
<1>2. o.gen \in Nat /\ o.gen <= o.gen /\ o.observed \in Nat /\ o.observed <= o.observed
  BY DEF ObjectVersion
<1>3. Edit(o, WithFinalizer(o)) /\ WithFinalizer(o).fin /\ WithFinalizer(o).there = o.there
  BY <1>2 DEF Edit, WithFinalizer, ObjectVersion
<1>4. Edit(o, Planned(o, c)) /\ Planned(o, c).there = o.there /\ Planned(o, c).fin = o.fin
  BY <1>2 DEF Edit, Planned, ObjectVersion, Ready
<1>5. Edit(o, Executed(o)) /\ Executed(o).there = o.there /\ Executed(o).fin = o.fin
  BY <1>1, <1>2 DEF Edit, Executed, ObjectVersion
<1>6. Edit(o, Released(o)) /\ ~Released(o).there
  BY <1>2 DEF Edit, Released, ObjectVersion
<1> QED BY <1>3, <1>4, <1>5, <1>6

\* Writing an edit of the object in memory grows the object's log.
LEMMA EditGrows ==
  ASSUME TypeOK, History, NEW m \in Managers, Fresh(m), NEW n, Edit(Obj(m), n),
         objs' = Append(objs, n) \/ objs' = Written(n)
  PROVE  ObjsGrow
<1>1. n \in ObjectVersion /\ Obj(m) = Cur(objs) /\ Cur(objs).there /\ Cur(objs).gen \in Nat
  BY HeldTyped, CurTyped DEF Edit
<1>2. Cur(objs).deleting => Cur(objs).fin
  BY <1>1, LogCur DEF History, Cur, TypeOK
<1>3. NextVersion(n)
  BY <1>1, <1>2 DEF Edit, NextVersion, ObjectVersion
<1> QED BY <1>1, <1>3 DEF ObjsGrow, Written

\* What users and other controllers do grows the object's log too.
LEMMA UserGrows ==
  ASSUME TypeOK, History, User
  PROVE  ObjsGrow
<1> DEFINE o == Cur(objs)
<1>1. /\ o \in ObjectVersion /\ o.observed <= o.gen /\ o.gen \in Nat \ {0}
      /\ o.there /\ o.deleting => o.fin
  BY CurTyped, LogCur DEF TypeOK, Cur, History
<1>2. [o EXCEPT !.gen = @ + 1] \in ObjectVersion
  BY <1>1 DEF ObjectVersion
<1> SUFFICES ASSUME NEW n \in ObjectVersion, objs' = Append(objs, n), o.there,
                    n.observed = o.observed, n.there => n.fin = o.fin,
                    \/ n.gen = o.gen + 1 /\ n.deleting = o.deleting
                    \/ n.gen = o.gen + 1 /\ n.deleting /\ o.fin
                    \/ n.gen = o.gen /\ n.deleting = o.deleting
             PROVE  ObjsGrow
  <2>1. CASE EditSpec
    <3>1. PICK goal \in Programs : objs' = Append(objs, [o EXCEPT !.goal = goal, !.gen = @ + 1])
      BY <2>1 DEF EditSpec
    <3>2. [o EXCEPT !.goal = goal, !.gen = @ + 1] = [[o EXCEPT !.gen = @ + 1] EXCEPT !.goal = goal]
      OBVIOUS
    <3> DEFINE n == [[o EXCEPT !.gen = @ + 1] EXCEPT !.goal = goal]
    <3>3. /\ n \in ObjectVersion /\ n.observed = o.observed /\ n.fin = o.fin
          /\ n.gen = o.gen + 1 /\ n.deleting = o.deleting
      BY <1>1, <1>2 DEF ObjectVersion
    <3> QED BY <3>1, <3>2, <3>3, <2>1 DEF EditSpec
  <2>2. CASE Delete
    <3>1. [o EXCEPT !.deleting = TRUE, !.gen = @ + 1]
            = [[o EXCEPT !.gen = @ + 1] EXCEPT !.deleting = TRUE]
      OBVIOUS
    <3> DEFINE n == [[o EXCEPT !.gen = @ + 1] EXCEPT !.deleting = TRUE]
               g == [o EXCEPT !.there = FALSE]
    <3>2. /\ n \in ObjectVersion /\ n.observed = o.observed /\ n.fin = o.fin
          /\ n.gen = o.gen + 1 /\ n.deleting
      BY <1>1, <1>2 DEF ObjectVersion
    <3>3. /\ g \in ObjectVersion /\ g.observed = o.observed /\ ~g.there
          /\ g.gen = o.gen /\ g.deleting = o.deleting
      BY <1>1 DEF ObjectVersion
    <3> QED BY <3>1, <3>2, <3>3, <2>2 DEF Delete
  <2>3. CASE Touch
    BY <1>1, <2>3 DEF Touch
  <2> QED BY <2>1, <2>2, <2>3 DEF User
<1> HIDE DEF o
<1>3. NextVersion(n)
  BY <1>1 DEF NextVersion, ObjectVersion, o
<1> QED BY <1>3 DEF ObjsGrow

\* What growth alone gives: old versions stay, an object that is gone stays gone.
LEMMA Grown ==
  ASSUME TypeOK, ObjsGrow, SecretsGrow
  PROVE  /\ objs' \in Seq(ObjectVersion) /\ objs' # <<>> /\ 1..Len(objs) \subseteq 1..Len(objs')
         /\ secrets' \in Seq(Snapshot) /\ secrets' # <<>>
         /\ 1..Len(secrets) \subseteq 1..Len(secrets')
         /\ \A i \in 1..Len(objs) : objs'[i] = objs[i]
         /\ \A i \in 1..Len(secrets) : secrets'[i] = secrets[i]
         /\ \A i \in 1..Len(objs') : objs'[i].observed <= objs'[i].gen
         /\ Cur(objs').there => Cur(objs).there
<1>1. objs \in Seq(ObjectVersion) /\ objs # <<>> /\ secrets \in Seq(Snapshot) /\ secrets # <<>>
      /\ Len(objs) \in Nat \ {0} /\ Len(secrets) \in Nat \ {0}
  BY LogCur DEF TypeOK
<1>2. /\ objs' \in Seq(ObjectVersion) /\ objs' # <<>> /\ 1..Len(objs) \subseteq 1..Len(objs')
      /\ \A i \in 1..Len(objs) : objs'[i] = objs[i]
      /\ \A i \in 1..Len(objs') : objs'[i].observed <= objs'[i].gen
      /\ Cur(objs').there => Cur(objs).there
  <2>1. CASE objs' = objs
    BY <1>1, <2>1 DEF TypeOK
  <2>2. ASSUME NEW o \in ObjectVersion, NextVersion(o), objs' = Append(objs, o)
        PROVE  <1>2
    <3>1. Len(objs') = Len(objs) + 1 /\ objs'[Len(objs')] = o
      BY <1>1, <2>2
    <3> QED BY <1>1, <2>2, <3>1, LogAppend DEF NextVersion, TypeOK, Cur
  <2> QED BY <2>1, <2>2 DEF ObjsGrow
<1>3. /\ secrets' \in Seq(Snapshot) /\ secrets' # <<>>
      /\ 1..Len(secrets) \subseteq 1..Len(secrets')
      /\ \A i \in 1..Len(secrets) : secrets'[i] = secrets[i]
  <2>1. CASE secrets' = secrets
    BY <1>1, <2>1
  <2>2. ASSUME NEW s \in Snapshot, secrets' = Append(secrets, s)
        PROVE  <1>3
    BY <1>1, <2>2, LogAppend
  <2> QED BY <2>1, <2>2 DEF SecretsGrow
<1> QED BY <1>2, <1>3

\* The history of the object stays as it is told when its log grows.
LEMMA HistoryGrows ==
  ASSUME TypeOK, History, ObjsGrow
  PROVE  History'
<1>1. CASE objs' = objs
  BY <1>1 DEF History, Cur
<1>2. ASSUME NEW o \in ObjectVersion, NextVersion(o), objs' = Append(objs, o)
      PROVE  History'
  <2>1. /\ Len(objs) \in Nat \ {0} /\ Len(objs') = Len(objs) + 1 /\ Cur(objs)' = o
        /\ objs'[Len(objs')] = o
        /\ \A i \in 1..Len(objs) : objs'[i] = objs[i] /\ objs[i] \in ObjectVersion
    BY <1>2, LogAppend, LogCur DEF TypeOK, Cur
  <2>2. \A i \in 1..Len(objs') : i \in 1..Len(objs) \/ i = Len(objs')
    BY <2>1
  <2>3. /\ \A i \in 1..Len(objs) :
            /\ objs[i].gen \in Nat /\ objs[i].gen <= Cur(objs).gen
            /\ objs[i].deleting => Cur(objs).deleting
            /\ objs[i].there /\ objs[i].deleting => objs[i].fin
            /\ objs[i].fin /\ Cur(objs).there => Cur(objs).fin
        /\ o.gen \in Nat /\ Cur(objs).gen \in Nat
    BY <2>1, CurTyped DEF History, ObjectVersion
  <2>4. \A i \in 1..Len(objs') :
            /\ objs'[i].gen <= o.gen
            /\ objs'[i].deleting => o.deleting
            /\ objs'[i].there /\ objs'[i].deleting => objs'[i].fin
            /\ objs'[i].fin /\ o.there => o.fin
    BY <1>2, <2>1, <2>2, <2>3 DEF NextVersion
  <2>5. ASSUME NEW i \in 1..Len(objs'), NEW j \in 1..Len(objs'),
               objs'[i].deleting, objs'[i].gen <= objs'[j].gen
        PROVE  objs'[j].deleting
    <3>1. CASE i \in 1..Len(objs) /\ j \in 1..Len(objs)
      BY <2>1, <2>5, <3>1 DEF History
    <3>2. CASE j = Len(objs')
      BY <2>1, <2>4, <2>5, <3>2
    <3>3. CASE i = Len(objs') /\ j \in 1..Len(objs)
      <4>1. o.deleting /\ o.gen <= objs[j].gen /\ objs[j].gen = Cur(objs).gen /\ Cur(objs).gen = o.gen
        BY <1>2, <2>1, <2>3, <2>5, <3>3 DEF NextVersion
      <4>2. Cur(objs).deleting /\ Cur(objs) = objs[Len(objs)] /\ Len(objs) \in 1..Len(objs)
        BY <1>2, <2>1, <4>1 DEF NextVersion, Cur
      <4>3. objs[j].deleting
        BY <4>1, <4>2, <2>3, <3>3 DEF History
      <4> QED BY <2>1, <3>3, <4>3
    <3> QED BY <2>2, <3>1, <3>2, <3>3
  <2> QED BY <2>1, <2>4, <2>5 DEF History
<1> QED BY <1>1, <1>2 DEF ObjsGrow

\* Absent versions of the Secret stay empty when its log grows.
LEMMA AbsentGrows ==
  ASSUME TypeOK, AbsentIsEmpty, SecretsGrow
  PROVE  AbsentIsEmpty'
<1>1. CASE secrets' = secrets
  BY <1>1 DEF AbsentIsEmpty
<1>2. ASSUME NEW s \in Snapshot, secrets' = Append(secrets, s), s.there \/ s = NoSecret
      PROVE  AbsentIsEmpty'
  <2>1. /\ Len(secrets') = Len(secrets) + 1 /\ secrets'[Len(secrets')] = s
        /\ \A i \in 1..Len(secrets) : secrets'[i] = secrets[i]
        /\ Len(secrets) \in Nat
    BY <1>2, LogAppend DEF TypeOK, Cur
  <2>2. \A i \in 1..Len(secrets') : i \in 1..Len(secrets) \/ i = Len(secrets')
    BY <2>1
  <2> QED BY <1>2, <2>1, <2>2 DEF AbsentIsEmpty
<1> QED BY <1>1, <1>2 DEF SecretsGrow

----------------------------------------------------------------------------
(* What the steps of a worker are made of: its new record, fit for what it *)
(* holds, and one effect on the object, the checkpoint or the cloud.       *)

InMid(w) == w.pc \in {"apply", "confirm"}

\* The new record is well typed and sound in the state after the step.
Moved(m, w) ==
  /\ work' = [work EXCEPT ![m] = w]
  /\ w \in Work /\ w.rv \in 1..Len(objs') /\ w.handle \in 1..Len(secrets')
  /\ objs'[w.rv].there
  /\ w.pc \notin {"idle", "finalizer"} => objs'[w.rv].fin
  /\ ~(w.pc \in {"idle", "finalizer", "load"}) => secrets'[w.handle].gen <= objs'[w.rv].gen
  /\ w.pc \in {"result", "release"} \/ (w.pc = "plan" /\ ~w.changes)
       => secrets'[w.handle].res = Want(objs'[w.rv])

SavedAs(m, res, pending) ==
  /\ secrets' = Append(secrets, [there |-> TRUE, gen |-> Obj(m).gen,
                                 res |-> res, pending |-> pending])
  /\ Matches(m) /\ Loaded(m) /\ UNCHANGED <<objs, cloud>>

\* The effects a step of worker m can have, with what it means for its record.
NoEffect(m, w) ==
  /\ UNCHANGED <<secrets, cloud>>
  /\ InMid(w) => /\ Mid(m) /\ UNCHANGED objs /\ ~w.ok
                  /\ w.rv = work[m].rv /\ w.handle = work[m].handle /\ At(m, "apply")
Kept(m, w) == SavedAs(m, Snap(m).res, Snap(m).pending) /\ ~Mid(m) /\ ~InMid(w)
Forgot(m, w) == "forget" \in Flushes /\ SavedAs(m, Snap(m).res, {}) /\ ~Mid(m) /\ ~InMid(w)
Began(m, w) ==
  \E r \in NextSteps(m) :
    /\ SavedAs(m, Snap(m).res, {r}) /\ Snap(m).pending = {} /\ ~Mid(m) /\ Loaded(m)
    /\ InMid(w) => w.pc = "apply" /\ w.rv = work[m].rv /\ w.handle = Len(secrets) + 1
Ended(m, w) ==
  /\ At(m, "confirm") /\ ~InMid(w)
  /\ \/ work[m].ok /\ \E r \in Snap(m).pending : SavedAs(m, After(m, r), {})
     \/ ~work[m].ok /\ SavedAs(m, Snap(m).res, {})
Performed(m, w) ==
  /\ At(m, "apply") /\ cloud' = Effect(m) /\ UNCHANGED <<objs, secrets>>
  /\ w.pc = "confirm" /\ w.ok /\ w.rv = work[m].rv /\ w.handle = work[m].handle

Affected(m, w) ==
  NoEffect(m, w) \/ Kept(m, w) \/ Forgot(m, w) \/ Began(m, w) \/ Ended(m, w) \/ Performed(m, w)

\* The variables that are only typed.
Rest ==
  /\ seen' \in [Managers -> [obj : 1..Len(objs'), secret : 1..Len(secrets')]]
  /\ queued' \in [Managers -> BOOLEAN]
  /\ touches' \in 0..MaxTouches /\ faults' \in 0..MaxFaults

WorkerStep(m) ==
  /\ ObjsGrow /\ SecretsGrow /\ Rest /\ cloud' \subseteq Resources
  /\ \E w \in Work : Moved(m, w) /\ Affected(m, w)

\* Engine operations are about the resources there are.
LEMMA NextStepsTyped ==
  ASSUME TypeOK, NEW m \in Managers
  PROVE  /\ NextSteps(m) \subseteq Resources /\ Effect(m) \subseteq Resources
         /\ \A r \in Resources : After(m, r) \subseteq Resources
BY HeldTyped DEF NextSteps, Effect, After, TypeOK

\* The caches, the queue and the counters keep their types when they are left
\* alone or a failure is counted.
LEMMA RestKept ==
  ASSUME TypeOK, ObjsGrow, SecretsGrow, seen' = seen, touches' = touches,
         faults' \in {faults, faults + 1}, faults' <= MaxFaults,
         queued' \in [Managers -> BOOLEAN]
  PROVE  Rest
<1>1. 1..Len(objs) \subseteq 1..Len(objs') /\ 1..Len(secrets) \subseteq 1..Len(secrets')
  BY Grown
<1>2. seen' \in [Managers -> [obj : 1..Len(objs'), secret : 1..Len(secrets')]]
  BY <1>1 DEF TypeOK
<1> QED BY <1>2, ReconcilerAssumption DEF Rest, TypeOK, ReconcilerAssumption

\* A checkpoint that is saved grows the log of the Secret.
LEMMA SavedGrows ==
  ASSUME TypeOK, NEW m \in Managers, NEW res \in SUBSET Resources, NEW pending \in SUBSET Resources,
         SavedAs(m, res, pending)
  PROVE  /\ ObjsGrow /\ SecretsGrow /\ cloud' \subseteq Resources
         /\ Len(secrets') = Len(secrets) + 1 /\ Len(secrets) + 1 \in 1..Len(secrets')
         /\ Len(secrets) + 1 \in Nat
         /\ secrets'[Len(secrets) + 1] = [there |-> TRUE, gen |-> Obj(m).gen,
                                          res |-> res, pending |-> pending]
<1> DEFINE s == [there |-> TRUE, gen |-> Obj(m).gen, res |-> res, pending |-> pending]
<1>1. s \in Snapshot /\ s.there
  BY HeldTyped DEF Snapshot
<1>2. secrets' = Append(secrets, s) /\ objs' = objs /\ cloud' = cloud
  BY DEF SavedAs
<1>3. secrets \in Seq(Snapshot) /\ secrets # <<>> /\ Len(secrets) \in Nat \ {0}
  BY LogCur DEF TypeOK
<1> HIDE DEF s
<1>4. Len(secrets') = Len(secrets) + 1 /\ secrets'[Len(secrets')] = s
  BY <1>1, <1>2, <1>3
<1> QED BY <1>1, <1>2, <1>3, <1>4 DEF ObjsGrow, SecretsGrow, TypeOK, s

\* Changing one field of a worker's record.
LEMMA WorkEdits ==
  ASSUME NEW w \in Work
  PROVE  /\ w.pc \in Phases /\ w.rv \in Nat /\ w.handle \in Nat
         /\ w.changes \in BOOLEAN /\ w.ok \in BOOLEAN
         /\ \A p \in Phases : LET n == [w EXCEPT !.pc = p] IN
              /\ n \in Work /\ n.pc = p /\ n.rv = w.rv /\ n.handle = w.handle
              /\ n.changes = w.changes /\ n.ok = w.ok
         /\ \A i \in Nat : LET n == [w EXCEPT !.rv = i] IN
              /\ n \in Work /\ n.pc = w.pc /\ n.rv = i /\ n.handle = w.handle
              /\ n.changes = w.changes /\ n.ok = w.ok
         /\ \A i \in Nat : LET n == [w EXCEPT !.handle = i] IN
              /\ n \in Work /\ n.pc = w.pc /\ n.rv = w.rv /\ n.handle = i
              /\ n.changes = w.changes /\ n.ok = w.ok
         /\ \A b \in BOOLEAN : LET n == [w EXCEPT !.changes = b] IN
              /\ n \in Work /\ n.pc = w.pc /\ n.rv = w.rv /\ n.handle = w.handle
              /\ n.changes = b /\ n.ok = w.ok
         /\ \A b \in BOOLEAN : LET n == [w EXCEPT !.ok = b] IN
              /\ n \in Work /\ n.pc = w.pc /\ n.rv = w.rv /\ n.handle = w.handle
              /\ n.changes = w.changes /\ n.ok = b
BY DEF Work

\* A worker that returns, however it came to.
LEMMA Quits ==
  ASSUME TypeOK, ObjsGrow, SecretsGrow, NEW m \in Managers, work' = [work EXCEPT ![m] = Idle]
  PROVE  Idle \in Work /\ Moved(m, Idle) /\ ~InMid(Idle)
<1>1. objs'[1].there /\ 1 \in 1..Len(objs') /\ 1 \in 1..Len(secrets')
  BY Grown, LogCur DEF TypeOK
<1> QED BY <1>1 DEF Moved, Idle, Work, Phases, InMid

\* A worker that returns with every log and the cloud as they were.
LEMMA QuitsCalmly ==
  ASSUME TypeOK, ObjsGrow, UNCHANGED <<secrets, seen, touches, cloud>>, NEW m \in Managers,
         NEW requeue \in BOOLEAN, Return(m, requeue), faults' \in {faults, faults + 1}, faults' <= MaxFaults
  PROVE  WorkerStep(m)
<1>1. SecretsGrow /\ queued' \in [Managers -> BOOLEAN]
  BY DEF SecretsGrow, Return, TypeOK
<1>2. Rest
  BY <1>1, RestKept
<1> QED BY <1>1, <1>2, Quits DEF Return, WorkerStep, Affected, NoEffect, TypeOK

\* The outcome of a write of the object: version n, or a conflict.
PutDone(m, n, w0) ==
  \/ Return(m, TRUE) /\ UNCHANGED objs
  \/ \E rv \in 1..Len(objs') :
       /\ objs'[rv] = n /\ rv \in Nat
       /\ work' = [work EXCEPT ![m] = [w0 EXCEPT !.rv = rv]]

\* A worker that writes the version n of the object, or fails to.
LEMMA Puts ==
  ASSUME TypeOK, History, NEW m \in Managers, NEW n, Edit(Obj(m), n), NEW w0 \in Work,
         PutObject(m, n, w0)
  PROVE  /\ ObjsGrow /\ queued' \in [Managers -> BOOLEAN]
         /\ PutDone(m, n, w0)
<1>1. CASE ~Fresh(m) /\ GiveUp(m) /\ UNCHANGED objs
  BY <1>1 DEF GiveUp, Return, ObjsGrow, TypeOK, PutDone
<1>2. CASE /\ Fresh(m) /\ objs' = Written(n) /\ UNCHANGED queued
           /\ work' = [work EXCEPT ![m] = [w0 EXCEPT !.rv = Len(Written(n))]]
  <2>1. ObjsGrow
    BY <1>2, EditGrows
  <2>2. Len(objs') \in 1..Len(objs') /\ Len(objs') \in Nat /\ objs'[Len(objs')] = n
    <3>1. n \in ObjectVersion /\ objs \in Seq(ObjectVersion) /\ objs # <<>>
      BY DEF Edit, TypeOK
    <3>2. CASE n = Cur(objs)
      BY <1>2, <3>1, <3>2, LogCur DEF Written, Cur
    <3>3. CASE n # Cur(objs)
      BY <1>2, <3>1, <3>3, LogAppend, LogCur DEF Written
    <3> QED BY <3>2, <3>3
  <2> QED BY <1>2, <2>1, <2>2 DEF TypeOK, PutDone
<1> QED BY <1>1, <1>2 DEF PutObject

\* The reconciler's Get.
LEMMA StartStep ==
  ASSUME TypeOK, Sound, NEW m \in Managers, Start(m)
  PROVE  WorkerStep(m)
<1>1. /\ ObjsGrow /\ SecretsGrow /\ Rest /\ cloud' \subseteq Resources
      /\ UNCHANGED <<objs, secrets, cloud>>
  <2>1. ObjsGrow /\ SecretsGrow
    BY DEF Start, ObjsGrow, SecretsGrow
  <2> QED BY <2>1, RestKept DEF Start, TypeOK
<1>2. CASE ~Found(m) /\ UNCHANGED work
  <2>1. work[m].pc = "idle" /\ work' = [work EXCEPT ![m] = work[m]] /\ ~InMid(work[m])
    BY <1>2 DEF TypeOK, Start, At, InMid
  <2>2. work[m] \in Work /\ Moved(m, work[m])
    BY <1>1, <2>1, HeldTyped DEF Moved, TypeOK, Obj
  <2> QED BY <1>1, <2>1, <2>2 DEF WorkerStep, Affected, NoEffect
<1>3. CASE /\ Found(m)
           /\ work' = [work EXCEPT ![m] = [Idle EXCEPT !.pc = "finalizer", !.rv = seen[m].obj]]
  <2> DEFINE w == [Idle EXCEPT !.pc = "finalizer", !.rv = seen[m].obj]
  <2>1. seen[m].obj \in 1..Len(objs) /\ seen[m].obj \in Nat
    BY LogCur DEF TypeOK
  <2>2. Idle \in Work /\ Idle.pc = "idle" /\ Idle.handle = 1
    BY DEF Idle, Work, Phases
  <2>3. w = [[Idle EXCEPT !.pc = "finalizer"] EXCEPT !.rv = seen[m].obj]
    OBVIOUS
  <2>4. /\ w \in Work /\ w.pc = "finalizer" /\ w.rv = seen[m].obj /\ w.handle = 1
    BY <2>1, <2>2, <2>3 DEF Work, Phases
  <2>5. 1 \in 1..Len(secrets') /\ objs'[w.rv].there
    BY <1>1, <1>3, <2>4, LogCur DEF Found, TypeOK
  <2> HIDE DEF w
  <2>6. Moved(m, w) /\ ~InMid(w)
    BY <1>1, <1>3, <2>1, <2>4, <2>5 DEF Moved, InMid, w
  <2> QED BY <1>1, <2>4, <2>6 DEF WorkerStep, Affected, NoEffect
<1> QED BY <1>2, <1>3 DEF Start

\* A step without a failure keeps the count of them within its bound.
LEMMA FaultsStay ==
  ASSUME TypeOK, UNCHANGED faults
  PROVE  faults' \in {faults, faults + 1} /\ faults' <= MaxFaults
BY ReconcilerAssumption DEF TypeOK, ReconcilerAssumption

\* So does a step with one.
LEMMA FaultsGrow ==
  ASSUME TypeOK, NEW kind, Suffer(kind)
  PROVE  faults' \in {faults, faults + 1} /\ faults' <= MaxFaults
BY ReconcilerAssumption DEF TypeOK, Suffer, ReconcilerAssumption

\* A worker that puts a version of the object and goes on.
LEMMA PutStep ==
  ASSUME TypeOK, Sound, NEW m \in Managers, NEW n, Edit(Obj(m), n), n.there, n.fin,
         NEW w0 \in Work, PutObject(m, n, w0), UNCHANGED <<secrets, seen, touches, cloud>>,
         faults' \in {faults, faults + 1}, faults' <= MaxFaults,
         ~InMid(w0), w0.handle = work[m].handle,
         w0.pc # "load" => Loaded(m),
         w0.pc \in {"result", "release"} \/ (w0.pc = "plan" /\ ~w0.changes)
           => Snap(m).res = Want(Obj(m))
  PROVE  WorkerStep(m)
<1>1. ObjsGrow /\ SecretsGrow /\ Rest /\ queued' \in [Managers -> BOOLEAN]
  <2>1. ObjsGrow /\ SecretsGrow /\ queued' \in [Managers -> BOOLEAN]
    BY Puts DEF Sound, SecretsGrow
  <2> QED BY <2>1, RestKept
<1>2. CASE Return(m, TRUE) /\ UNCHANGED objs
  BY <1>1, <1>2, QuitsCalmly
<1>3. ASSUME NEW rv \in 1..Len(objs'), objs'[rv] = n, rv \in Nat,
             work' = [work EXCEPT ![m] = [w0 EXCEPT !.rv = rv]]
      PROVE  WorkerStep(m)
  <2> DEFINE w == [w0 EXCEPT !.rv = rv]
  <2>1. /\ w \in Work /\ w.rv = rv /\ w.pc = w0.pc /\ w.handle = work[m].handle
        /\ w.changes = w0.changes
    BY <1>3, WorkEdits
  <2>2. /\ secrets' = secrets /\ work[m].handle \in 1..Len(secrets)
        /\ n.gen = Obj(m).gen /\ Want(n) = Want(Obj(m))
    BY DEF TypeOK, Edit, Want
  <2>3. ~(w.pc \in {"idle", "finalizer", "load"}) => Snap(m).gen <= n.gen
    BY <2>1, <2>2 DEF Sound, Holding, Loaded
  <2> HIDE DEF w
  <2>4. Moved(m, w) /\ ~InMid(w)
    BY <1>3, <2>1, <2>2, <2>3 DEF Moved, InMid, Snap, w
  <2> QED BY <1>1, <2>1, <2>4 DEF WorkerStep, Affected, NoEffect, TypeOK
<1>4. PutDone(m, n, w0)
  BY Puts DEF Sound
<1> QED BY <1>2, <1>3, <1>4 DEF PutDone

\* Adding the finalizer, with its early return on a conflict.
LEMMA AddFinalizerStep ==
  ASSUME TypeOK, Sound, NEW m \in Managers, AddFinalizer(m)
  PROVE  WorkerStep(m)
<1> DEFINE w == [work[m] EXCEPT !.pc = "load"]
<1>1. /\ w \in Work /\ w.pc = "load" /\ w.handle = work[m].handle /\ w.rv = work[m].rv
      /\ ~InMid(w)
  <2>1. work[m] \in Work /\ "load" \in Phases
    BY HeldTyped DEF Phases
  <2> QED BY <2>1, WorkEdits DEF InMid
<1>2. CASE NeedsFinalizer(Obj(m)) /\ PutObject(m, WithFinalizer(Obj(m)), w)
  <2> HIDE DEF w
  <2>1. Edit(Obj(m), WithFinalizer(Obj(m))) /\ WithFinalizer(Obj(m)).fin /\ WithFinalizer(Obj(m)).there
    BY HeldTyped, Edits
  <2>2. UNCHANGED <<secrets, seen, touches, cloud, faults>>
    BY DEF AddFinalizer
  <2> QED BY <1>1, <1>2, <2>1, <2>2, PutStep, FaultsStay
<1>3. CASE ~NeedsFinalizer(Obj(m)) /\ Goto(m, "load") /\ UNCHANGED <<objs, queued>>
  <2>1. Obj(m).fin /\ Obj(m).there
    BY <1>3, HeldTyped DEF NeedsFinalizer, Sound, History, TypeOK, Obj
  <2>2. work' = [work EXCEPT ![m] = w]
    BY <1>3 DEF Goto
  <2>3. /\ UNCHANGED <<objs, secrets, cloud, seen, touches, faults, queued>>
        /\ ObjsGrow /\ SecretsGrow
    BY <1>3 DEF AddFinalizer, ObjsGrow, SecretsGrow
  <2>4. Rest
    BY <2>3, RestKept, FaultsStay DEF TypeOK
  <2> HIDE DEF w
  <2>5. Moved(m, w)
    BY <1>1, <2>1, <2>2, <2>3 DEF Moved, TypeOK, Obj
  <2> QED BY <1>1, <2>3, <2>4, <2>5 DEF WorkerStep, Affected, NoEffect, TypeOK
<1> QED BY <1>2, <1>3 DEF AddFinalizer

\* LoadStack, whose integrity check makes a worker hold no later generation.
LEMMA LoadStackStep ==
  ASSUME TypeOK, Sound, NEW m \in Managers, LoadStack(m), UNCHANGED faults
  PROVE  WorkerStep(m)
<1> DEFINE i == seen[m].secret
           w == [work[m] EXCEPT !.pc = "preview", !.handle = i]
<1>1. /\ UNCHANGED <<objs, secrets, seen, touches, cloud, faults>> /\ At(m, "load")
      /\ ObjsGrow /\ SecretsGrow
  BY DEF LoadStack, ObjsGrow, SecretsGrow
<1>2. CASE Mismatch(secrets[i], Obj(m)) /\ GiveUp(m)
  BY <1>1, <1>2, QuitsCalmly, FaultsStay DEF GiveUp
<1>3. CASE /\ ~Mismatch(secrets[i], Obj(m)) /\ work' = [work EXCEPT ![m] = w]
           /\ UNCHANGED queued
  <2>1. /\ work[m] \in Work /\ i \in 1..Len(secrets) /\ i \in Nat /\ "preview" \in Phases
        /\ secrets[i] \in Snapshot /\ Obj(m) \in ObjectVersion
    BY HeldTyped, LogCur DEF TypeOK, Phases
  <2>2. w = [[work[m] EXCEPT !.pc = "preview"] EXCEPT !.handle = i]
    OBVIOUS
  <2>3. /\ w \in Work /\ w.pc = "preview" /\ w.rv = work[m].rv /\ w.handle = i
    <3> DEFINE v == [work[m] EXCEPT !.pc = "preview"]
    <3>1. v \in Work /\ v.pc = "preview" /\ v.rv = work[m].rv
      BY <2>1, WorkEdits
    <3>2. w = [v EXCEPT !.handle = i]
      BY <2>2
    <3> HIDE DEF v
    <3> QED BY <2>1, <3>1, <3>2, WorkEdits
  <2>4. secrets[i].gen <= Obj(m).gen
    BY <1>3, <2>1 DEF Mismatch, Snapshot, ObjectVersion
  <2>5. Rest
    BY <1>1, <1>3, RestKept, FaultsStay DEF TypeOK
  <2>6. Obj(m).fin /\ Obj(m).there /\ work[m].rv \in 1..Len(objs)
    BY <1>1, HeldTyped DEF Sound, Holding, Guarded, At, TypeOK
  <2>7. Moved(m, w) /\ ~InMid(w)
    BY <1>1, <1>3, <2>1, <2>3, <2>4, <2>6 DEF Moved, InMid, Obj
  <2> QED BY <1>1, <2>3, <2>5, <2>7 DEF WorkerStep, Affected, NoEffect, TypeOK
<1> QED BY <1>2, <1>3 DEF LoadStack, GetSnapshot

\* The status update while planning.
LEMMA PlanStatusStep ==
  ASSUME TypeOK, Sound, NEW m \in Managers, PlanStatus(m)
  PROVE  WorkerStep(m)
<1> DEFINE p == IF work[m].changes THEN "engine" ELSE "release"
           w == [work[m] EXCEPT !.pc = p]
<1>1. /\ At(m, "plan") /\ UNCHANGED <<secrets, seen, touches, cloud, faults>>
      /\ work[m].changes \in BOOLEAN /\ work[m] \in Work /\ p \in Phases
  BY HeldTyped, WorkEdits DEF PlanStatus, Phases
<1>2. PICK shown \in BOOLEAN : PutObject(m, Planned(Obj(m), shown), w)
  BY <1>1 DEF PlanStatus
<1>3. faults' \in {faults, faults + 1} /\ faults' <= MaxFaults
  BY <1>1, FaultsStay
<1>4. /\ w \in Work /\ w.pc = p /\ w.handle = work[m].handle
  BY <1>1, WorkEdits
<1>5. ~InMid(w) /\ Loaded(m) /\ Obj(m).fin
  BY <1>1, <1>4 DEF InMid, Loaded, At, Sound, Holding, Guarded
<1>6. p = "release" => Snap(m).res = Want(Obj(m))
  BY <1>1 DEF Sound, Finishing
<1>7. /\ Edit(Obj(m), Planned(Obj(m), shown))
      /\ Planned(Obj(m), shown).there /\ Planned(Obj(m), shown).fin
  BY <1>5, HeldTyped, Edits
<1>8. w.pc \in {"result", "release"} \/ (w.pc = "plan" /\ ~w.changes)
        => Snap(m).res = Want(Obj(m))
  BY <1>4, <1>6
<1> HIDE DEF w
<1> QED BY <1>1, <1>2, <1>3, <1>4, <1>5, <1>7, <1>8, PutStep

\* The status update after the operation.
LEMMA ResultStatusStep ==
  ASSUME TypeOK, Sound, NEW m \in Managers, ResultStatus(m)
  PROVE  WorkerStep(m)
<1> DEFINE w == [work[m] EXCEPT !.pc = "release"]
<1>1. /\ At(m, "result") /\ UNCHANGED <<secrets, seen, touches, cloud, faults>>
      /\ work[m] \in Work /\ "release" \in Phases
      /\ PutObject(m, Executed(Obj(m)), w)
  BY HeldTyped DEF ResultStatus, Phases
<1>2. w \in Work /\ w.pc = "release" /\ w.handle = work[m].handle
  BY <1>1, WorkEdits
<1>3. ~InMid(w) /\ Loaded(m) /\ Obj(m).fin /\ Snap(m).res = Want(Obj(m))
  BY <1>1, <1>2 DEF InMid, Loaded, At, Sound, Holding, Guarded, Finishing
<1>4. /\ Edit(Obj(m), Executed(Obj(m)))
      /\ Executed(Obj(m)).there /\ Executed(Obj(m)).fin
  BY <1>3, HeldTyped, Edits
<1> HIDE DEF w
<1> QED BY <1>1, <1>2, <1>3, <1>4, PutStep, FaultsStay

\* The end of ReconcileObject, with or without a finalizer to remove.
LEMMA ReleaseStep ==
  ASSUME TypeOK, Sound, NEW m \in Managers, Release(m)
  PROVE  WorkerStep(m)
<1>1. UNCHANGED <<secrets, seen, touches, cloud, faults>> /\ work[m].changes \in BOOLEAN
      /\ Edit(Obj(m), Released(Obj(m)))
  BY HeldTyped, WorkEdits, Edits DEF Release
<1>2. ObjsGrow
  <2>1. CASE UNCHANGED objs
    BY <2>1 DEF ObjsGrow
  <2>2. CASE Fresh(m) /\ objs' = Append(objs, Released(Obj(m)))
    BY <1>1, <2>2, EditGrows DEF Sound
  <2> QED BY <2>1, <2>2 DEF Release
<1>3. \E requeue \in BOOLEAN : Return(m, requeue)
  BY <1>1 DEF Release, GiveUp, Requeues
<1> QED BY <1>1, <1>2, <1>3, QuitsCalmly, FaultsStay

\* A worker that saves a checkpoint and goes on with the handle of it.
LEMMA SaveStep ==
  ASSUME TypeOK, Sound, NEW m \in Managers, Loaded(m), NEW w0 \in Work, w0.rv = work[m].rv,
         NEW res \in SUBSET Resources, NEW pending \in SUBSET Resources,
         Save(m, res, pending, w0), UNCHANGED <<objs, seen, queued, touches, cloud, faults>>,
         w0.pc \in {"result", "release"} \/ (w0.pc = "plan" /\ ~w0.changes)
           => res = Want(Obj(m))
  PROVE  /\ SavedAs(m, res, pending)
         /\ ObjsGrow /\ SecretsGrow /\ Rest /\ cloud' \subseteq Resources
         /\ \E w \in Work : /\ Moved(m, w) /\ w.pc = w0.pc /\ w.rv = w0.rv
                            /\ w.handle = Len(secrets) + 1
<1>1. SavedAs(m, res, pending)
  BY DEF Save, SavedAs, Checkpoint
<1> DEFINE i == Len(secrets) + 1
           w == [w0 EXCEPT !.handle = i]
<1>2. /\ ObjsGrow /\ SecretsGrow /\ cloud' \subseteq Resources
      /\ i \in 1..Len(secrets') /\ i \in Nat
      /\ secrets'[i] = [there |-> TRUE, gen |-> Obj(m).gen, res |-> res, pending |-> pending]
  BY <1>1, SavedGrows
<1>3. Rest
  BY <1>2, RestKept, FaultsStay DEF TypeOK
<1> HIDE DEF i
<1>4. /\ w \in Work /\ w.pc = w0.pc /\ w.rv = w0.rv /\ w.handle = i /\ w.changes = w0.changes
  BY <1>2, WorkEdits
<1>5. /\ work' = [work EXCEPT ![m] = w] /\ objs' = objs
  BY DEF Save, i
<1>6. Obj(m).fin /\ Obj(m).there /\ work[m].rv \in 1..Len(objs) /\ Obj(m).gen \in Nat
  BY HeldTyped DEF Sound, Holding, Guarded, Loaded, TypeOK
<1> HIDE DEF w
<1>7. Moved(m, w)
  BY <1>2, <1>4, <1>5, <1>6 DEF Moved, Obj
<1> QED BY <1>1, <1>2, <1>3, <1>4, <1>7 DEF i

\* The snapshot manager, as it is closed, saves the checkpoint in hand once more,
\* with or without what it has pending.
LEMMA FlushSaves ==
  ASSUME TypeOK, NEW m \in Managers, Loaded(m), ~Mid(m), Flush(m), UNCHANGED <<objs, cloud>>
  PROVE  \E pending \in SUBSET Resources :
           /\ SavedAs(m, Snap(m).res, pending)
           /\ \A w \in Work : ~InMid(w) => Kept(m, w) \/ Forgot(m, w)
<1>1. PICK how \in Flushes :
        secrets' = Append(secrets, Checkpoint(m, Snap(m).res,
                                     IF how = "keep" THEN Snap(m).pending ELSE {}))
  BY DEF Flush
<1>2. Matches(m) /\ (how = "keep" \/ how = "forget")
  BY StackAssumption DEF Flush, StackAssumption
<1>3. CASE how = "keep"
  <2>1. SavedAs(m, Snap(m).res, Snap(m).pending) /\ Snap(m).pending \in SUBSET Resources
    BY <1>1, <1>2, <1>3, HeldTyped DEF SavedAs, Checkpoint
  <2> QED BY <2>1 DEF Kept
<1>4. CASE how = "forget"
  <2> DEFINE none == {}
  <2>1. none \in SUBSET Resources /\ SavedAs(m, Snap(m).res, none)
    BY <1>1, <1>2, <1>4 DEF SavedAs, Checkpoint
  <2>2. \A w \in Work : ~InMid(w) => Forgot(m, w)
    BY <1>4, <2>1 DEF Forgot
  <2> HIDE DEF none
  <2> QED BY <2>1, <2>2
<1> QED BY <1>2, <1>3, <1>4

\* A worker that goes on with the checkpoint it holds, whatever was flushed.
LEMMA HoldsOn ==
  ASSUME TypeOK, Sound, NEW m \in Managers, Loaded(m), NEW w0 \in Work,
         w0.rv = work[m].rv, w0.handle = work[m].handle, ~InMid(w0),
         w0.pc \in {"result", "release"} \/ (w0.pc = "plan" /\ ~w0.changes)
           => Snap(m).res = Want(Obj(m)),
         SecretsGrow, work' = [work EXCEPT ![m] = w0],
         UNCHANGED <<objs, seen, queued, touches, cloud>>,
         faults' \in {faults, faults + 1}, faults' <= MaxFaults
  PROVE  Moved(m, w0) /\ ObjsGrow /\ Rest /\ cloud' \subseteq Resources
<1>1. ObjsGrow
  BY DEF ObjsGrow
<1>2. Rest /\ cloud' \subseteq Resources
  BY <1>1, RestKept DEF TypeOK
<1>3. /\ Obj(m).fin /\ Obj(m).there /\ work[m].rv \in 1..Len(objs) /\ Snap(m).gen <= Obj(m).gen
      /\ work[m].handle \in 1..Len(secrets)
  BY HeldTyped DEF Sound, Holding, Guarded, Loaded, TypeOK
<1>4. work[m].handle \in 1..Len(secrets') /\ secrets'[work[m].handle] = Snap(m)
  BY <1>1, <1>3, Grown DEF Snap
<1> QED BY <1>1, <1>2, <1>3, <1>4 DEF Moved, Obj

\* Closing the snapshot manager, whether or not it flushes the checkpoint.
LEMMA CloseStep ==
  ASSUME TypeOK, Sound, NEW m \in Managers, Loaded(m), ~Mid(m), NEW w0 \in Work,
         w0.rv = work[m].rv, w0.handle = work[m].handle, w0.pc \in {"plan", "result"},
         w0.pc \in {"result", "release"} \/ (w0.pc = "plan" /\ ~w0.changes)
           => Snap(m).res = Want(Obj(m)),
         CloseSnapshots(m, w0), UNCHANGED <<objs, seen, queued, touches, cloud, faults>>
  PROVE  WorkerStep(m)
<1>1. ~InMid(w0)
  BY DEF InMid
<1>2. CASE work' = [work EXCEPT ![m] = w0] /\ UNCHANGED secrets
  <2>1. SecretsGrow
    BY <1>2 DEF SecretsGrow
  <2>2. Moved(m, w0) /\ ObjsGrow /\ Rest /\ cloud' \subseteq Resources
    BY <1>1, <1>2, <2>1, HoldsOn, FaultsStay
  <2> QED BY <1>1, <1>2, <2>1, <2>2 DEF WorkerStep, Affected, NoEffect
<1>3. CASE Flush(m) /\ work' = [work EXCEPT ![m] = [w0 EXCEPT !.handle = Len(secrets) + 1]]
  <2>1. PICK pending \in SUBSET Resources :
           /\ SavedAs(m, Snap(m).res, pending)
           /\ \A w \in Work : ~InMid(w) => Kept(m, w) \/ Forgot(m, w)
    BY <1>3, FlushSaves
  <2>2. Snap(m).res \in SUBSET Resources
    BY HeldTyped
  <2>3. Save(m, Snap(m).res, pending, w0)
    BY <1>3, <2>1 DEF Save, SavedAs, Checkpoint
  <2>4. /\ ObjsGrow /\ SecretsGrow /\ Rest /\ cloud' \subseteq Resources
        /\ \E w \in Work : Moved(m, w) /\ w.pc = w0.pc
    BY <2>2, <2>3, SaveStep
  <2>5. PICK w \in Work : Moved(m, w) /\ w.pc = w0.pc
    BY <2>4
  <2>6. Kept(m, w) \/ Forgot(m, w)
    BY <1>1, <2>1, <2>5 DEF InMid
  <2> QED BY <2>4, <2>5, <2>6 DEF WorkerStep, Affected
<1> QED BY <1>2, <1>3 DEF CloseSnapshots

\* The record of a worker after its preview, which tells whether there are changes.
LEMMA PreviewedIs ==
  ASSUME TypeOK, NEW m \in Managers
  PROVE  /\ Previewed(m) \in Work /\ Previewed(m).pc = "plan"
         /\ Previewed(m).rv = work[m].rv /\ Previewed(m).handle = work[m].handle
         /\ ~Previewed(m).changes => Snap(m).res = Want(Obj(m))
<1> DEFINE c == HasChanges(m)
           v == [work[m] EXCEPT !.pc = "plan"]
<1>1. /\ work[m] \in Work /\ "plan" \in Phases /\ c \in BOOLEAN
      /\ Previewed(m) = [v EXCEPT !.changes = c]
  BY HeldTyped DEF Phases, Previewed, HasChanges
<1>2. v \in Work /\ v.pc = "plan" /\ v.rv = work[m].rv /\ v.handle = work[m].handle
  BY <1>1, WorkEdits
<1>3. ~c => Snap(m).res = Want(Obj(m))
  BY DEF HasChanges
<1> HIDE DEF v, c
<1> QED BY <1>1, <1>2, <1>3, WorkEdits

\* The record of a worker whose operation is finished: the checkpoint in hand is
\* what its generation wants.
LEMMA FinishedIs ==
  ASSUME TypeOK, NEW m \in Managers, Finished(m)
  PROVE  LET w == [work[m] EXCEPT !.pc = "result"] IN
         /\ w \in Work /\ w.pc = "result" /\ w.rv = work[m].rv /\ w.handle = work[m].handle
         /\ Snap(m).res = Want(Obj(m))
<1>1. work[m] \in Work /\ "result" \in Phases
  BY HeldTyped DEF Phases
<1>2. Snap(m).res = Want(Obj(m))
  <2>1. NextSteps(m) = {}
    BY DEF Finished
  <2>2. Want(Obj(m)) \ Snap(m).res = {}
    BY <2>1 DEF NextSteps
  <2>3. Snap(m).res \ Want(Obj(m)) = {}
    <3>1. Snap(m).res \ Want(Obj(m)) # {Root}
      BY <2>1, <2>2 DEF NextSteps
    <3>2. (Snap(m).res \ Want(Obj(m))) \ {Root} = {}
      BY <2>1, <2>2, <3>1 DEF NextSteps
    <3> QED BY <3>1, <3>2
  <2> QED BY <2>2, <2>3
<1> QED BY <1>1, <1>2, WorkEdits

\* The preview.
LEMMA PreviewStep ==
  ASSUME TypeOK, Sound, NEW m \in Managers, Preview(m), UNCHANGED faults
  PROVE  WorkerStep(m)
<1>1. /\ CloseSnapshots(m, Previewed(m))
      /\ UNCHANGED <<objs, seen, queued, touches, cloud, faults>>
      /\ Loaded(m) /\ ~Mid(m)
  BY DEF Preview, Loaded, Mid, At
<1> QED BY <1>1, PreviewedIs, CloseStep

\* The end of an engine operation.
LEMMA EngineDoneStep ==
  ASSUME TypeOK, Sound, NEW m \in Managers, EngineDone(m), UNCHANGED faults
  PROVE  WorkerStep(m)
<1> DEFINE w == [work[m] EXCEPT !.pc = "result"]
<1>1. /\ CloseSnapshots(m, w) /\ UNCHANGED <<objs, seen, queued, touches, cloud, faults>>
      /\ Loaded(m) /\ ~Mid(m) /\ Finished(m)
  BY DEF EngineDone, Finished, Loaded, Mid, At
<1>2. /\ w \in Work /\ w.pc = "result" /\ w.rv = work[m].rv /\ w.handle = work[m].handle
      /\ Snap(m).res = Want(Obj(m))
  BY <1>1, FinishedIs
<1> HIDE DEF w
<1> QED BY <1>1, <1>2, CloseStep

\* A flush whose answer is lost: the worker goes on with the handle it has.
LEMMA FlushLostStep ==
  ASSUME TypeOK, Sound, NEW m \in Managers, FlushLost(m)
  PROVE  WorkerStep(m)
<1>1. /\ Flush(m) /\ Loaded(m) /\ ~Mid(m) /\ UNCHANGED <<objs, seen, queued, touches, cloud>>
      /\ faults' \in {faults, faults + 1} /\ faults' <= MaxFaults
  BY FaultsGrow DEF FlushLost, Finished, Loaded, Mid, At
<1>2. PICK pending \in SUBSET Resources :
         /\ SavedAs(m, Snap(m).res, pending)
         /\ \A w \in Work : ~InMid(w) => Kept(m, w) \/ Forgot(m, w)
  BY <1>1, FlushSaves
<1>3. SecretsGrow
  BY <1>2, HeldTyped, SavedGrows
<1>4. ASSUME NEW w \in Work, w.rv = work[m].rv, w.handle = work[m].handle,
             w.pc \in {"plan", "result"}, work' = [work EXCEPT ![m] = w],
             w.pc = "result" \/ ~w.changes => Snap(m).res = Want(Obj(m))
      PROVE  WorkerStep(m)
  <2>1. ~InMid(w)
    BY <1>4 DEF InMid
  <2>2. Moved(m, w) /\ ObjsGrow /\ Rest /\ cloud' \subseteq Resources
    BY <1>1, <1>3, <1>4, <2>1, HoldsOn
  <2> QED BY <1>2, <1>3, <2>1, <2>2 DEF WorkerStep, Affected
<1>5. CASE work' = [work EXCEPT ![m] = Previewed(m)]
  BY <1>4, <1>5, PreviewedIs
<1>6. CASE Finished(m) /\ Goto(m, "result")
  <2> DEFINE w == [work[m] EXCEPT !.pc = "result"]
  <2>1. /\ w \in Work /\ w.pc = "result" /\ w.rv = work[m].rv /\ w.handle = work[m].handle
        /\ Snap(m).res = Want(Obj(m)) /\ work' = [work EXCEPT ![m] = w]
    BY <1>6, FinishedIs DEF Goto
  <2> HIDE DEF w
  <2> QED BY <1>4, <2>1
<1> QED BY <1>5, <1>6 DEF FlushLost

\* A worker whose last save was made and that returns all the same.
LEMMA SavedQuits ==
  ASSUME TypeOK, NEW m \in Managers, NEW res \in SUBSET Resources, NEW pending \in SUBSET Resources,
         SavedAs(m, res, pending), Return(m, TRUE), UNCHANGED <<seen, touches>>,
         faults' \in {faults, faults + 1}, faults' <= MaxFaults
  PROVE  /\ ObjsGrow /\ SecretsGrow /\ Rest /\ cloud' \subseteq Resources
         /\ Idle \in Work /\ Moved(m, Idle) /\ ~InMid(Idle)
<1>1. ObjsGrow /\ SecretsGrow /\ cloud' \subseteq Resources
  BY SavedGrows
<1>2. queued' \in [Managers -> BOOLEAN] /\ work' = [work EXCEPT ![m] = Idle]
  BY DEF Return, TypeOK
<1>3. Rest
  BY <1>1, <1>2, RestKept
<1> QED BY <1>1, <1>2, <1>3, Quits

\* An operation that fails or is refused, and flushes its checkpoint or does not.
LEMMA AbandonStep ==
  ASSUME TypeOK, Sound, NEW m \in Managers, Loaded(m), ~Mid(m), Abandon(m),
         UNCHANGED <<objs, seen, touches, cloud>>,
         faults' \in {faults, faults + 1}, faults' <= MaxFaults
  PROVE  WorkerStep(m)
<1>1. Return(m, TRUE)
  BY DEF Abandon, GiveUp
<1>2. CASE UNCHANGED secrets
  BY <1>1, <1>2, QuitsCalmly DEF ObjsGrow
<1>3. CASE Flush(m)
  <2>1. PICK pending \in SUBSET Resources :
           /\ SavedAs(m, Snap(m).res, pending)
           /\ \A w \in Work : ~InMid(w) => Kept(m, w) \/ Forgot(m, w)
    BY <1>3, FlushSaves
  <2>2. /\ ObjsGrow /\ SecretsGrow /\ Rest /\ cloud' \subseteq Resources
        /\ Idle \in Work /\ Moved(m, Idle) /\ ~InMid(Idle)
    BY <1>1, <2>1, HeldTyped, SavedQuits
  <2> QED BY <2>1, <2>2 DEF WorkerStep, Affected
<1> QED BY <1>2, <1>3 DEF Abandon

\* An operation refused for what its checkpoint has pending.
LEMMA RefuseStep ==
  ASSUME TypeOK, Sound, NEW m \in Managers, Refuse(m), UNCHANGED faults
  PROVE  WorkerStep(m)
BY AbandonStep, FaultsStay DEF Refuse, Loaded, Mid, At

\* A preview or an operation that fails.
LEMMA OperationFailsStep ==
  ASSUME TypeOK, Sound, NEW m \in Managers, OperationFails(m)
  PROVE  WorkerStep(m)
BY AbandonStep, FaultsGrow DEF OperationFails, Loaded, Mid, At

\* Saving a pending operation.
LEMMA BeginStepStep ==
  ASSUME TypeOK, Sound, NEW m \in Managers, BeginStep(m), UNCHANGED faults
  PROVE  WorkerStep(m)
<1>1. /\ At(m, "engine") /\ Snap(m).pending = {} /\ ~Mid(m) /\ Loaded(m)
      /\ UNCHANGED <<objs, seen, touches, cloud, faults>>
  BY DEF BeginStep, Interrupted, Mid, Loaded, At
<1>2. PICK r \in NextSteps(m) :
         \/ /\ Save(m, Snap(m).res, {r}, [work[m] EXCEPT !.pc = "apply"])
            /\ UNCHANGED queued
         \/ ~Matches(m) /\ GiveUp(m) /\ UNCHANGED secrets
  BY DEF BeginStep
<1>3. CASE GiveUp(m) /\ UNCHANGED secrets
  BY <1>1, <1>3, QuitsCalmly, FaultsStay DEF GiveUp, ObjsGrow
<1>4. CASE /\ Save(m, Snap(m).res, {r}, [work[m] EXCEPT !.pc = "apply"])
           /\ UNCHANGED queued
  <2> DEFINE w0 == [work[m] EXCEPT !.pc = "apply"]
  <2>1. work[m] \in Work /\ "apply" \in Phases /\ Snap(m).res \in SUBSET Resources
        /\ {r} \in SUBSET Resources
    BY HeldTyped, NextStepsTyped DEF Phases
  <2>2. w0 \in Work /\ w0.pc = "apply" /\ w0.rv = work[m].rv
    BY <2>1, WorkEdits
  <2> HIDE DEF w0
  <2>3. /\ SavedAs(m, Snap(m).res, {r})
        /\ ObjsGrow /\ SecretsGrow /\ Rest /\ cloud' \subseteq Resources
        /\ \E w \in Work : /\ Moved(m, w) /\ w.pc = w0.pc /\ w.rv = w0.rv
                            /\ w.handle = Len(secrets) + 1
    BY <1>1, <1>4, <2>1, <2>2, SaveStep DEF w0
  <2> QED BY <1>1, <2>2, <2>3 DEF WorkerStep, Affected, Began
<1> QED BY <1>2, <1>3, <1>4

\* The provider's answer, good or bad.
LEMMA ApplyStep ==
  ASSUME TypeOK, Sound, NEW m \in Managers, NEW w \in Work,
         At(m, "apply"), UNCHANGED clusterVars, work' = [work EXCEPT ![m] = w],
         w.pc = "confirm", w.rv = work[m].rv, w.handle = work[m].handle,
         \/ w.ok /\ cloud' = Effect(m)
         \/ ~w.ok /\ UNCHANGED cloud,
         faults' \in {faults, faults + 1}, faults' <= MaxFaults
  PROVE  WorkerStep(m)
<1>1. ObjsGrow /\ SecretsGrow /\ queued' \in [Managers -> BOOLEAN]
      /\ cloud' \subseteq Resources /\ UNCHANGED <<objs, secrets, seen, touches>>
  BY NextStepsTyped DEF clusterVars, ObjsGrow, SecretsGrow, TypeOK
<1>2. Rest
  BY <1>1, RestKept
<1>3. /\ Obj(m).fin /\ Obj(m).there /\ work[m].rv \in 1..Len(objs) /\ Snap(m).gen <= Obj(m).gen
      /\ work[m].handle \in 1..Len(secrets) /\ Mid(m)
  BY HeldTyped DEF Sound, Holding, Guarded, Loaded, TypeOK, At, Mid
<1>4. Moved(m, w)
  BY <1>1, <1>3 DEF Moved, Obj, Snap
<1>5. NoEffect(m, w) \/ Performed(m, w)
  BY <1>1, <1>3 DEF NoEffect, Performed
<1> QED BY <1>1, <1>2, <1>4, <1>5 DEF WorkerStep, Affected

\* A worker moved on to another phase of the operation.
LEMMA PcOk ==
  ASSUME TypeOK, NEW m \in Managers, NEW p \in Phases, NEW b \in BOOLEAN
  PROVE  LET w == [work[m] EXCEPT !.pc = p, !.ok = b] IN
         /\ w \in Work /\ w.pc = p /\ w.rv = work[m].rv /\ w.handle = work[m].handle
         /\ w.ok = b
<1> DEFINE w == [work[m] EXCEPT !.pc = p, !.ok = b]
           v == [work[m] EXCEPT !.pc = p]
<1>1. work[m] \in Work
  BY HeldTyped
<1>2. /\ v \in Work /\ v.pc = p /\ v.rv = work[m].rv /\ v.handle = work[m].handle
  BY <1>1, WorkEdits
<1>3. w = [v EXCEPT !.ok = b]
  OBVIOUS
<1> HIDE DEF v
<1> QED BY <1>2, <1>3, WorkEdits

\* Saving the outcome of a pending operation.
LEMMA EndStepStep ==
  ASSUME TypeOK, Sound, NEW m \in Managers, EndStep(m), UNCHANGED faults
  PROVE  WorkerStep(m)
<1>1. /\ At(m, "confirm") /\ Loaded(m) /\ UNCHANGED <<objs, seen, touches, cloud, faults>>
  BY DEF EndStep, Loaded, At
<1>2. CASE GiveUp(m) /\ UNCHANGED secrets
  BY <1>1, <1>2, QuitsCalmly, FaultsStay DEF GiveUp, ObjsGrow
<1>3. CASE /\ ~work[m].ok /\ Matches(m) /\ GiveUp(m)
           /\ secrets' = Append(secrets, [there |-> TRUE, gen |-> Obj(m).gen,
                                          res |-> Snap(m).res, pending |-> {}])
  <2>1. SavedAs(m, Snap(m).res, {}) /\ Snap(m).res \in SUBSET Resources /\ Return(m, TRUE)
    BY <1>1, <1>3, HeldTyped DEF SavedAs, GiveUp
  <2>2. /\ ObjsGrow /\ SecretsGrow /\ Rest /\ cloud' \subseteq Resources
        /\ Idle \in Work /\ Moved(m, Idle) /\ ~InMid(Idle)
    <3> DEFINE none == {}
    <3>1. none \in SUBSET Resources /\ SavedAs(m, Snap(m).res, none)
      BY <2>1
    <3> HIDE DEF none
    <3> QED BY <1>1, <2>1, <3>1, SavedQuits, FaultsStay
  <2> QED BY <1>1, <1>3, <2>1, <2>2 DEF WorkerStep, Affected, Ended
<1>4. ASSUME work[m].ok, NEW r \in Snap(m).pending, UNCHANGED queued,
             Save(m, After(m, r), {}, [work[m] EXCEPT !.pc = "engine", !.ok = FALSE])
      PROVE  WorkerStep(m)
  <2> DEFINE w0 == [work[m] EXCEPT !.pc = "engine", !.ok = FALSE]
  <2>1. work[m] \in Work /\ "engine" \in Phases /\ r \in Resources
        /\ After(m, r) \in SUBSET Resources
    BY HeldTyped, NextStepsTyped DEF Phases
  <2>4. w0 \in Work /\ w0.pc = "engine" /\ w0.rv = work[m].rv
    BY <2>1, PcOk
  <2> DEFINE none == {}
  <2>6. none \in SUBSET Resources
    OBVIOUS
  <2> HIDE DEF w0
  <2>5. /\ SavedAs(m, After(m, r), {})
        /\ ObjsGrow /\ SecretsGrow /\ Rest /\ cloud' \subseteq Resources
        /\ \E w \in Work : Moved(m, w) /\ w.pc = w0.pc
    BY <1>1, <1>4, <2>1, <2>4, <2>6, SaveStep DEF w0
  <2> QED BY <1>1, <1>4, <2>4, <2>5 DEF WorkerStep, Affected, Ended, InMid
<1> QED BY <1>2, <1>3, <1>4 DEF EndStep, Checkpoint

\* A call that fails before it has an effect.
LEMMA CallFailsStep ==
  ASSUME TypeOK, Sound, NEW m \in Managers, CallFails(m)
  PROVE  WorkerStep(m)
<1>1. /\ Return(m, TRUE) /\ UNCHANGED <<objs, secrets, seen, touches, cloud>> /\ ObjsGrow
      /\ \E kind \in {"call", "save"} : Suffer(kind)
  BY DEF CallFails, GiveUp, ObjsGrow
<1>2. faults' \in {faults, faults + 1} /\ faults' <= MaxFaults
  BY <1>1, FaultsGrow
<1> QED BY <1>1, <1>2, QuitsCalmly

\* A write whose answer is lost.
LEMMA AnswerLostStep ==
  ASSUME TypeOK, Sound, NEW m \in Managers, AnswerLost(m)
  PROVE  WorkerStep(m)
<1>1. /\ Return(m, TRUE) /\ UNCHANGED <<seen, touches, cloud>>
      /\ faults' \in {faults, faults + 1} /\ faults' <= MaxFaults
  BY FaultsGrow DEF AnswerLost, GiveUp
<1>2. CASE /\ Fresh(m) /\ UNCHANGED secrets
           /\ \/ objs' = Append(objs, WithFinalizer(Obj(m)))
              \/ objs' = Written(Planned(Obj(m), work[m].changes))
              \/ objs' = Written(Executed(Obj(m)))
              \/ objs' = Append(objs, Released(Obj(m)))
  <2>1. /\ Edit(Obj(m), WithFinalizer(Obj(m)))
        /\ Edit(Obj(m), Planned(Obj(m), work[m].changes))
        /\ Edit(Obj(m), Executed(Obj(m)))
        /\ Edit(Obj(m), Released(Obj(m)))
    BY HeldTyped, Edits, WorkEdits
  <2>2. PICK n : Edit(Obj(m), n) /\ (objs' = Append(objs, n) \/ objs' = Written(n))
    BY <1>2, <2>1
  <2>3. ObjsGrow
    BY <1>2, <2>2, EditGrows DEF Sound
  <2> QED BY <1>1, <1>2, <2>3, QuitsCalmly
<1>3. ASSUME Matches(m), UNCHANGED objs, At(m, "engine"), Snap(m).pending = {},
             NEW r \in NextSteps(m),
             secrets' = Append(secrets, [there |-> TRUE, gen |-> Obj(m).gen,
                                         res |-> Snap(m).res, pending |-> {r}])
      PROVE  WorkerStep(m)
  <2>1. SavedAs(m, Snap(m).res, {r}) /\ Snap(m).res \in SUBSET Resources
        /\ {r} \in SUBSET Resources /\ ~Mid(m) /\ Loaded(m)
    BY <1>1, <1>3, HeldTyped, NextStepsTyped DEF SavedAs, Mid, At, Loaded
  <2>2. /\ ObjsGrow /\ SecretsGrow /\ Rest /\ cloud' \subseteq Resources
        /\ Idle \in Work /\ Moved(m, Idle) /\ ~InMid(Idle)
    BY <1>1, <2>1, SavedQuits
  <2> QED BY <1>3, <2>1, <2>2 DEF WorkerStep, Affected, Began
<1>4. ASSUME Matches(m), UNCHANGED objs, At(m, "confirm"), work[m].ok, NEW r \in Snap(m).pending,
             secrets' = Append(secrets, [there |-> TRUE, gen |-> Obj(m).gen,
                                         res |-> After(m, r), pending |-> {}])
      PROVE  WorkerStep(m)
  <2> DEFINE none == {}
  <2>1. SavedAs(m, After(m, r), none) /\ After(m, r) \in SUBSET Resources
        /\ none \in SUBSET Resources
    BY <1>1, <1>4, HeldTyped, NextStepsTyped DEF SavedAs, Loaded, At
  <2>2. Ended(m, Idle) \/ InMid(Idle)
    BY <1>4, <2>1 DEF Ended
  <2> HIDE DEF none
  <2>3. /\ ObjsGrow /\ SecretsGrow /\ Rest /\ cloud' \subseteq Resources
        /\ Idle \in Work /\ Moved(m, Idle) /\ ~InMid(Idle)
    BY <1>1, <2>1, SavedQuits
  <2> QED BY <2>2, <2>3 DEF WorkerStep, Affected
<1>5. CASE /\ Matches(m) /\ UNCHANGED objs /\ At(m, "confirm") /\ ~work[m].ok
           /\ secrets' = Append(secrets, [there |-> TRUE, gen |-> Obj(m).gen,
                                          res |-> Snap(m).res, pending |-> {}])
  <2> DEFINE none == {}
  <2>1. SavedAs(m, Snap(m).res, none) /\ Snap(m).res \in SUBSET Resources
        /\ none \in SUBSET Resources
    BY <1>1, <1>5, HeldTyped DEF SavedAs, Loaded, At
  <2>2. Ended(m, Idle) \/ InMid(Idle)
    BY <1>5, <2>1 DEF Ended
  <2> HIDE DEF none
  <2>3. /\ ObjsGrow /\ SecretsGrow /\ Rest /\ cloud' \subseteq Resources
        /\ Idle \in Work /\ Moved(m, Idle) /\ ~InMid(Idle)
    BY <1>1, <2>1, SavedQuits
  <2> QED BY <2>2, <2>3 DEF WorkerStep, Affected
<1> QED BY <1>2, <1>3, <1>4, <1>5 DEF AnswerLost, Checkpoint, Interrupted

\* A crash and restart.
LEMMA CrashStep ==
  ASSUME TypeOK, Sound, NEW m \in Managers, Crash(m)
  PROVE  WorkerStep(m)
<1>1. /\ UNCHANGED <<objs, secrets, touches, cloud>> /\ work' = [work EXCEPT ![m] = Idle]
      /\ ObjsGrow /\ SecretsGrow
      /\ faults' \in {faults, faults + 1} /\ faults' <= MaxFaults
  BY FaultsGrow DEF Crash, ObjsGrow, SecretsGrow
<1>2. queued' \in [Managers -> BOOLEAN]
  BY CurTyped DEF Crash, TypeOK, ObjectVersion
<1>3. seen' \in [Managers -> [obj : 1..Len(objs'), secret : 1..Len(secrets')]]
  <2> DEFINE last == [obj |-> Len(objs), secret |-> Len(secrets)]
             Caches == [obj : 1..Len(objs), secret : 1..Len(secrets)]
  <2>1. last \in Caches
    BY LogCur DEF TypeOK
  <2>2. seen \in [Managers -> Caches] /\ seen' = [seen EXCEPT ![m] = last]
    BY DEF Crash, TypeOK
  <2>3. seen' \in [Managers -> Caches] /\ objs' = objs /\ secrets' = secrets
    <3> HIDE DEF last, Caches
    <3> QED BY <1>1, <2>1, <2>2
  <2> QED BY <2>3
<1>4. touches' \in 0..MaxTouches /\ faults' \in 0..MaxFaults
  BY <1>1, ReconcilerAssumption DEF TypeOK, ReconcilerAssumption
<1>5. Rest
  BY <1>2, <1>3, <1>4 DEF Rest
<1>6. Idle \in Work /\ Moved(m, Idle) /\ ~InMid(Idle)
  BY <1>1, Quits
<1>7. cloud' \subseteq Resources
  BY <1>1 DEF TypeOK
<1> QED BY <1>1, <1>5, <1>6, <1>7 DEF WorkerStep, Affected, NoEffect

\* Every step of a worker, failures included, is one of these.
LEMMA WorkerSteps ==
  ASSUME TypeOK, Sound, NEW m \in Managers, Step(m) \/ Fault(m)
  PROVE  WorkerStep(m)
<1>1. CASE Apply(m) /\ UNCHANGED faults
  <2> DEFINE w == [work[m] EXCEPT !.pc = "confirm", !.ok = TRUE]
  <2>1. /\ w \in Work /\ w.pc = "confirm" /\ w.rv = work[m].rv /\ w.handle = work[m].handle
        /\ w.ok
    BY PcOk DEF Phases
  <2>2. /\ At(m, "apply") /\ UNCHANGED clusterVars /\ work' = [work EXCEPT ![m] = w]
        /\ cloud' = Effect(m)
    BY <1>1 DEF Apply
  <2> HIDE DEF w
  <2> QED BY <1>1, <2>1, <2>2, ApplyStep, FaultsStay
<1>2. CASE ApplyFails(m)
  <2> DEFINE w == [work[m] EXCEPT !.pc = "confirm", !.ok = FALSE]
  <2>1. /\ w \in Work /\ w.pc = "confirm" /\ w.rv = work[m].rv /\ w.handle = work[m].handle
        /\ ~w.ok
    BY PcOk DEF Phases
  <2>2. /\ At(m, "apply") /\ UNCHANGED clusterVars /\ work' = [work EXCEPT ![m] = w]
        /\ UNCHANGED cloud /\ Suffer("provider")
    BY <1>2 DEF ApplyFails
  <2> HIDE DEF w
  <2> QED BY <2>1, <2>2, ApplyStep, FaultsGrow
<1> QED BY <1>1, <1>2, StartStep, AddFinalizerStep, LoadStackStep, PreviewStep, PlanStatusStep,
           ResultStatusStep, ReleaseStep, RefuseStep, BeginStepStep, EndStepStep,
           EngineDoneStep, CallFailsStep, OperationFailsStep, AnswerLostStep, FlushLostStep,
           CrashStep
        DEF Step, Fault, Engine

----------------------------------------------------------------------------
(* The steps of the world.                                                 *)

\* A step of the world leaves the workers alone, and the checkpoint too, unless
\* the object is gone.
WorldStep ==
  /\ ObjsGrow /\ SecretsGrow /\ Rest
  /\ UNCHANGED <<work, cloud>>
  /\ \/ secrets' = secrets
     \/ ~Cur(objs).there /\ objs' = objs /\ secrets' = Append(secrets, NoSecret)

\* Every step of the world is one of these.
LEMMA WorldSteps ==
  ASSUME TypeOK, Sound, World, UNCHANGED <<stackVars, faults>>
  PROVE  WorldStep
<1>1. UNCHANGED <<work, cloud>> /\ faults' \in {faults, faults + 1} /\ faults' <= MaxFaults
  BY FaultsStay DEF stackVars
<1>2. CASE User
  <2>1. UNCHANGED <<secrets, seen, queued>> /\ touches' \in 0..MaxTouches
    <3>1. UNCHANGED <<secrets, seen, queued>>
      BY <1>2 DEF User, EditSpec, Delete, Touch
    <3>2. touches' = touches \/ (touches < MaxTouches /\ touches' = touches + 1)
      BY <1>2 DEF User, EditSpec, Delete, Touch
    <3> QED BY <3>1, <3>2, ClusterAssumption DEF TypeOK, ClusterAssumption
  <2>2. ObjsGrow /\ SecretsGrow
    BY <1>2, <2>1, UserGrows DEF Sound, SecretsGrow
  <2>3. 1..Len(objs) \subseteq 1..Len(objs') /\ secrets' = secrets
    BY <2>1, <2>2, Grown
  <2>4. seen' \in [Managers -> [obj : 1..Len(objs'), secret : 1..Len(secrets')]]
    BY <2>1, <2>3 DEF TypeOK
  <2>5. queued' \in [Managers -> BOOLEAN] /\ faults' \in 0..MaxFaults
    BY <1>1, <2>1, ReconcilerAssumption DEF TypeOK, ReconcilerAssumption
  <2>6. Rest
    BY <2>1, <2>4, <2>5 DEF Rest
  <2> QED BY <1>1, <2>1, <2>2, <2>6 DEF WorldStep
<1>3. CASE CollectGarbage
  <2>1. NoSecret \in Snapshot
    BY DEF NoSecret, Snapshot
  <2>2. /\ ObjsGrow /\ SecretsGrow /\ ~Cur(objs).there /\ objs' = objs
        /\ secrets' = Append(secrets, NoSecret)
    BY <1>3, <2>1 DEF CollectGarbage, ObjsGrow, SecretsGrow
  <2>3. Rest
    BY <1>1, <1>3, <2>2, RestKept DEF CollectGarbage, TypeOK
  <2> QED BY <1>1, <2>2, <2>3 DEF WorldStep
<1>4. ASSUME NEW m \in Managers, WatchObject(m) \/ WatchSecret(m)
      PROVE  WorldStep
  <2>1. UNCHANGED <<objs, secrets, touches>> /\ ObjsGrow /\ SecretsGrow
    BY <1>4 DEF WatchObject, WatchSecret, ObjsGrow, SecretsGrow
  <2>2. queued' \in [Managers -> BOOLEAN]
    <3>1. CASE WatchObject(m)
      <4>1. seen[m].obj \in 1..Len(objs) /\ seen[m].obj < Len(objs)
        BY <3>1 DEF WatchObject, TypeOK
      <4>2. (queued[m] \/ Notable(objs[seen[m].obj], objs[seen[m].obj + 1])) \in BOOLEAN
        BY LogCur DEF Notable
      <4> QED BY <3>1, <4>2 DEF WatchObject, TypeOK
    <3>2. CASE WatchSecret(m)
      BY <3>2 DEF WatchSecret, TypeOK
    <3> QED BY <1>4, <3>1, <3>2
  <2>3. seen' \in [Managers -> [obj : 1..Len(objs), secret : 1..Len(secrets)]]
    <3> DEFINE Caches == [obj : 1..Len(objs), secret : 1..Len(secrets)]
    <3>1. seen[m] \in Caches /\ seen \in [Managers -> Caches]
      BY DEF TypeOK
    <3>2. Len(objs) \in Nat /\ Len(secrets) \in Nat
      BY LogCur DEF TypeOK
    <3>3. \E c \in Caches : seen' = [seen EXCEPT ![m] = c]
      <4>1. CASE WatchObject(m)
        <5>1. [seen[m] EXCEPT !.obj = @ + 1] \in Caches
          BY <3>1, <3>2, <4>1 DEF WatchObject
        <5> QED BY <4>1, <5>1, <3>1 DEF WatchObject
      <4>2. CASE WatchSecret(m)
        <5>1. [seen[m] EXCEPT !.secret = @ + 1] \in Caches
          BY <3>1, <3>2, <4>2 DEF WatchSecret
        <5> QED BY <4>2, <5>1, <3>1 DEF WatchSecret
      <4> QED BY <1>4, <4>1, <4>2
    <3> HIDE DEF Caches
    <3>4. seen' \in [Managers -> Caches]
      BY <3>1, <3>3
    <3> QED BY <3>4 DEF Caches
  <2>4. touches' \in 0..MaxTouches /\ faults' \in 0..MaxFaults
    BY <1>1, <2>1, ReconcilerAssumption DEF TypeOK, ReconcilerAssumption
  <2> QED BY <1>1, <2>1, <2>2, <2>3, <2>4 DEF WorldStep, Rest
<1> QED BY <1>2, <1>3, <1>4 DEF World

----------------------------------------------------------------------------
(* Type correctness and the part of the invariant that every step keeps.   *)

\* The initial state satisfies the invariant.
LEMMA Initially ==
  ASSUME Init
  PROVE  TypeOK /\ Sound /\ Exact
<1>1. PICK goal \in Programs :
        objs = << [there |-> TRUE, gen |-> 1, goal |-> goal, deleting |-> FALSE,
                   fin |-> FALSE, observed |-> 0, ready |-> "Unknown", out |-> {}] >>
  BY DEF Init, ClusterInit
<1>2. /\ objs \in Seq(ObjectVersion) /\ Len(objs) = 1 /\ objs # <<>> /\ objs[1].there
      /\ ~objs[1].fin /\ objs[1].observed <= objs[1].gen /\ ~objs[1].deleting
      /\ objs[1].gen = 1
  BY <1>1 DEF ObjectVersion, Ready
<1>3. /\ secrets = << NoSecret >> /\ secrets \in Seq(Snapshot) /\ Len(secrets) = 1
      /\ secrets # <<>>
  BY DEF Init, ClusterInit, NoSecret, Snapshot
<1>4. /\ work = [m \in Managers |-> Idle] /\ cloud = {} /\ touches = 0 /\ faults = 0
      /\ seen \in [Managers -> [obj : 1..Len(objs), secret : 1..Len(secrets)]]
      /\ queued \in [Managers -> BOOLEAN]
      /\ Idle \in Work
  BY <1>2, <1>3 DEF Init, ClusterInit, StackInit, Idle, Work, Phases
<1>5. TypeOK
  BY <1>2, <1>3, <1>4, ClusterAssumption, ReconcilerAssumption
     DEF TypeOK, ClusterAssumption, ReconcilerAssumption, Obj, Idle
<1>6. Sound
  <2>1. AbsentIsEmpty
    BY <1>3 DEF AbsentIsEmpty
  <2>2. RootFirst
    <3>1. Rooted(NoSecret)
      BY DEF Rooted, NoSecret
    <3>2. \A i \in 1..Len(secrets) : secrets[i] = NoSecret
      BY <1>3
    <3> QED BY <3>1, <3>2 DEF RootFirst
  <2>3. History
    BY <1>2 DEF History, Cur
  <2>4. \A m \in Managers : work[m].pc = "idle"
    BY <1>4 DEF Idle
  <2>5. Holding /\ Finishing
    BY <2>4 DEF Holding, Finishing, Guarded, Loaded, At
  <2>6. FinalizerGuardsCloud
    BY <1>3, <1>4 DEF FinalizerGuardsCloud, Cur, NoSecret
  <2> QED BY <2>1, <2>2, <2>3, <2>5, <2>6 DEF Sound
<1>7. Exact
  BY <1>3, <1>4 DEF Exact, Operations, ExclusiveEngine, CheckpointExact, Mid, Idle,
     Cur, NoSecret
<1> QED BY <1>5, <1>6, <1>7

\* A step of a worker or of the world, or a stutter.
LEMMA Steps ==
  ASSUME TypeOK, Sound, [Next]_vars
  PROVE  WorldStep \/ \E m \in Managers : WorkerStep(m)
<1>1. CASE UNCHANGED vars
  <2>1. /\ UNCHANGED <<objs, secrets, seen, queued, touches, work, cloud, faults>>
        /\ ObjsGrow /\ SecretsGrow
    BY <1>1 DEF vars, clusterVars, stackVars, ObjsGrow, SecretsGrow
  <2>2. Rest
    BY <2>1 DEF Rest, TypeOK
  <2> QED BY <2>1, <2>2 DEF WorldStep
<1> QED BY <1>1, WorldSteps, WorkerSteps DEF Next

\* A worker that a step leaves alone keeps what it holds.
LEMMA Bystander ==
  ASSUME TypeOK, ObjsGrow, SecretsGrow, NEW n \in Managers, work'[n] = work[n]
  PROVE  /\ Obj(n)' = Obj(n) /\ Snap(n)' = Snap(n) /\ work'[n].rv \in 1..Len(objs')
         /\ work'[n].handle \in 1..Len(secrets')
<1>1. /\ work[n].rv \in 1..Len(objs) /\ work[n].handle \in 1..Len(secrets)
      /\ \A i \in 1..Len(objs) : objs'[i] = objs[i]
      /\ \A i \in 1..Len(secrets) : secrets'[i] = secrets[i]
      /\ 1..Len(objs) \subseteq 1..Len(objs') /\ 1..Len(secrets) \subseteq 1..Len(secrets')
  BY Grown DEF TypeOK
<1> QED BY <1>1 DEF Obj, Snap

\* What a worker holds after a step, whichever worker made it.
LEMMA HeldStep ==
  ASSUME TypeOK, Sound, ObjsGrow, SecretsGrow,
         \/ work' = work
         \/ \E m \in Managers, w \in Work : Moved(m, w)
  PROVE  /\ work' \in [Managers -> Work] /\ Holding' /\ Finishing'
         /\ \A n \in Managers : /\ work'[n].rv \in 1..Len(objs')
                                /\ work'[n].handle \in 1..Len(secrets')
                                /\ Obj(n)'.there
<1>1. work \in [Managers -> Work]
  BY DEF TypeOK
<1>2. work' \in [Managers -> Work]
  BY <1>1 DEF Moved
<1>3. ASSUME NEW n \in Managers
      PROVE  /\ work'[n].rv \in 1..Len(objs') /\ work'[n].handle \in 1..Len(secrets')
             /\ Obj(n)'.there
             /\ Guarded(n)' => Obj(n)'.fin
             /\ Loaded(n)' => Snap(n)'.gen <= Obj(n)'.gen
             /\ work'[n].pc \in {"result", "release"} \/ (At(n, "plan")' /\ ~work'[n].changes)
                  => Snap(n)'.res = Want(Obj(n)')
  <2>1. CASE work'[n] = work[n]
    BY <2>1, Bystander, HeldTyped DEF Sound, Holding, Finishing, Guarded, Loaded, At
  <2>2. ASSUME NEW w \in Work, Moved(n, w)
        PROVE  <1>3!2
    <3>1. work'[n] = w
      BY <1>1, <2>2 DEF Moved
    <3> QED BY <2>2, <3>1 DEF Moved, Obj, Snap, Guarded, Loaded, At
  <2>3. ASSUME NEW m \in Managers, NEW w \in Work, Moved(m, w), m # n
        PROVE  work'[n] = work[n]
    BY <1>1, <2>3 DEF Moved
  <2> QED BY <2>1, <2>2, <2>3
<1>4. Holding' /\ Finishing'
  BY <1>3 DEF Holding, Finishing, Want
<1> QED BY <1>2, <1>3, <1>4

\* A worker past its finalizer step works for an object that has one.
LEMMA GuardedHasFinalizer ==
  ASSUME TypeOK, Sound, NEW m \in Managers, Guarded(m), Cur(objs).there
  PROVE  Cur(objs).fin
<1>1. Obj(m).fin /\ work[m].rv \in 1..Len(objs)
  BY DEF Sound, Holding, TypeOK
<1> QED BY <1>1 DEF Sound, History, Obj

\* Without a finalizer, no cloud resource and no checkpoint, after a step too.
LEMMA GuardStep ==
  ASSUME TypeOK, Sound, WorldStep \/ \E m \in Managers : WorkerStep(m)
  PROVE  FinalizerGuardsCloud'
<1> SUFFICES ASSUME Cur(objs)'.there, ~Cur(objs)'.fin
             PROVE  cloud' = {} /\ ~Cur(secrets)'.there
  BY DEF FinalizerGuardsCloud
<1>1. ObjsGrow /\ SecretsGrow
  BY DEF WorldStep, WorkerStep
<1>2. Cur(objs).there /\ ~Cur(objs).fin
  <2>1. CASE objs' = objs
    BY <2>1 DEF Cur
  <2>2. ASSUME NEW o \in ObjectVersion, NextVersion(o), objs' = Append(objs, o)
        PROVE  <1>2
    <3>1. Cur(objs)' = o
      BY <2>2, LogAppend DEF TypeOK, Cur
    <3> QED BY <2>2, <3>1 DEF NextVersion
  <2> QED BY <1>1, <2>1, <2>2 DEF ObjsGrow
<1>3. cloud = {} /\ ~Cur(secrets).there
  BY <1>2 DEF Sound, FinalizerGuardsCloud
<1>4. CASE WorldStep
  BY <1>2, <1>3, <1>4 DEF WorldStep, Cur
<1>5. ASSUME NEW m \in Managers, NEW w \in Work, Affected(m, w)
      PROVE  cloud' = {} /\ ~Cur(secrets)'.there
  <2>1. ~Guarded(m)
    BY <1>2, GuardedHasFinalizer
  <2>2. ~Loaded(m) /\ ~Mid(m)
    BY <2>1 DEF Guarded, Loaded, Mid
  <2>3. NoEffect(m, w)
    BY <1>5, <2>2 DEF Affected, Kept, Forgot, Began, Ended, Performed, SavedAs, Mid, At
  <2> QED BY <1>3, <2>3 DEF NoEffect, Cur
<1> QED BY <1>4, <1>5 DEF WorkerStep

\* The operation a worker begins keeps the root first on record and last.
LEMMA NextStepRooted ==
  ASSUME TypeOK, NEW m \in Managers, Rooted(Snap(m)), NEW r \in NextSteps(m)
  PROVE  /\ Root \notin Snap(m).res => r = Root
         /\ r = Root => Snap(m).res \subseteq {Root}
<1>1. Want(Obj(m)) = {} \/ Root \in Want(Obj(m))
  BY HeldTyped, ClusterAssumption DEF ClusterAssumption, Want, ObjectVersion
<1>2. Root \notin Snap(m).res => Snap(m).res = {}
  BY DEF Rooted
<1>3. CASE Root \notin Snap(m).res
  <2>1. Want(Obj(m)) # {}
    BY <1>2, <1>3 DEF NextSteps
  <2> QED BY <1>1, <1>2, <1>3, <2>1 DEF NextSteps
<1>4. CASE Root \in Snap(m).res
  <2>1. r = Root => Want(Obj(m)) = {} /\ Snap(m).res \ Want(Obj(m)) = {Root}
    BY <1>1, <1>4 DEF NextSteps
  <2> QED BY <1>4, <2>1
<1> QED BY <1>3, <1>4

\* What a worker's step appends to the log of the Secret has the root first.
LEMMA RootSaved ==
  ASSUME TypeOK, Sound, NEW m \in Managers, NEW w, Affected(m, w)
  PROVE  \/ secrets' = secrets
         \/ \E s \in Snapshot : secrets' = Append(secrets, s) /\ Rooted(s)
<1> DEFINE S(res, pending) == [there |-> TRUE, gen |-> Obj(m).gen, res |-> res, pending |-> pending]
<1>1. /\ Rooted(Snap(m)) /\ Snap(m).res \subseteq Resources /\ Snap(m).pending \subseteq Resources
      /\ Obj(m).gen \in Nat /\ NextSteps(m) \subseteq Resources
      /\ \A r \in Resources : After(m, r) \subseteq Resources
  BY HeldTyped, NextStepsTyped DEF Sound, RootFirst, Snap, TypeOK
<1>2. ASSUME NEW res \in SUBSET Resources, NEW pending \in SUBSET Resources
      PROVE  /\ S(res, pending) \in Snapshot
             /\ S(res, pending).res = res /\ S(res, pending).pending = pending
  BY <1>1, <1>2 DEF Snapshot
<1>3. ASSUME NEW res \in SUBSET Resources, NEW pending \in SUBSET Resources,
             SavedAs(m, res, pending),
             Root \notin res => res = {} /\ pending \subseteq {Root},
             Root \in pending => res \subseteq {Root}
      PROVE  \E s \in Snapshot : secrets' = Append(secrets, s) /\ Rooted(s)
  <2>1. secrets' = Append(secrets, S(res, pending))
    BY <1>3 DEF SavedAs
  <2>2. S(res, pending) \in Snapshot /\ Rooted(S(res, pending))
    BY <1>2, <1>3 DEF Rooted
  <2> HIDE DEF S
  <2> QED BY <2>1, <2>2
<1> HIDE DEF S
<1> DEFINE none == {}
<1>4. none \in SUBSET Resources /\ none \subseteq {Root} /\ Root \notin none
  OBVIOUS
<1>5. CASE Kept(m, w)
  BY <1>1, <1>3, <1>5 DEF Kept, Rooted
<1>6. CASE Forgot(m, w)
  <2>1. SavedAs(m, Snap(m).res, none)
    BY <1>6 DEF Forgot
  <2> HIDE DEF none
  <2> QED BY <1>1, <1>3, <1>4, <2>1 DEF Rooted
<1>7. CASE Began(m, w)
  <2>1. PICK r \in NextSteps(m) : SavedAs(m, Snap(m).res, {r})
    BY <1>7 DEF Began
  <2> DEFINE one == {r}
  <2>2. /\ one \in SUBSET Resources /\ SavedAs(m, Snap(m).res, one)
        /\ Root \notin Snap(m).res => Snap(m).res = {} /\ one \subseteq {Root}
        /\ Root \in one => Snap(m).res \subseteq {Root}
    BY <1>1, <2>1, NextStepRooted DEF Rooted
  <2> HIDE DEF one
  <2> QED BY <1>1, <1>3, <2>2
<1>8. CASE Ended(m, w)
  <2>1. CASE \E r \in Snap(m).pending : SavedAs(m, After(m, r), none)
    <3>1. PICK r \in Snap(m).pending : SavedAs(m, After(m, r), none)
      BY <2>1
    <3>2. Root \notin After(m, r) => After(m, r) = {}
      BY <1>1, <3>1 DEF Rooted, After
    <3> HIDE DEF none
    <3> QED BY <1>1, <1>3, <1>4, <3>1, <3>2
  <2>2. CASE SavedAs(m, Snap(m).res, none)
    <3> HIDE DEF none
    <3> QED BY <1>1, <1>3, <1>4, <2>2 DEF Rooted
  <2> QED BY <1>8, <2>1, <2>2 DEF Ended
<1> QED BY <1>5, <1>6, <1>7, <1>8 DEF Affected, NoEffect, Performed

\* After a step, too, the root is on record before anything else.
LEMMA RootStep ==
  ASSUME TypeOK, Sound, WorldStep \/ \E m \in Managers : WorkerStep(m)
  PROVE  RootFirst'
<1>1. \/ secrets' = secrets
      \/ \E s \in Snapshot : secrets' = Append(secrets, s) /\ Rooted(s)
  <2>1. NoSecret \in Snapshot /\ Rooted(NoSecret)
    BY DEF NoSecret, Snapshot, Rooted
  <2>2. CASE WorldStep
    BY <2>1, <2>2 DEF WorldStep
  <2>3. ASSUME NEW m \in Managers, WorkerStep(m) PROVE <1>1
    BY <2>3, RootSaved DEF WorkerStep
  <2> QED BY <2>2, <2>3
<1>2. CASE secrets' = secrets
  BY <1>2 DEF Sound, RootFirst
<1>3. ASSUME NEW s \in Snapshot, secrets' = Append(secrets, s), Rooted(s)
      PROVE  RootFirst'
  <2>1. /\ Len(secrets') = Len(secrets) + 1 /\ secrets'[Len(secrets')] = s
        /\ \A i \in 1..Len(secrets) : secrets'[i] = secrets[i]
        /\ Len(secrets) \in Nat
    BY <1>3, LogAppend DEF TypeOK, Cur
  <2>2. \A i \in 1..Len(secrets') : i \in 1..Len(secrets) \/ i = Len(secrets')
    BY <2>1
  <2>3. \A i \in 1..Len(secrets) : Rooted(secrets[i])
    BY DEF Sound, RootFirst
  <2>4. \A i \in 1..Len(secrets') : Rooted(secrets'[i])
    BY <1>3, <2>1, <2>2, <2>3
  <2> QED BY <2>4 DEF RootFirst, Rooted
<1> QED BY <1>1, <1>2, <1>3

\* Type correctness and the unconditional part of the invariant are inductive.
LEMMA SoundStep ==
  ASSUME TypeOK, Sound, [Next]_vars
  PROVE  TypeOK' /\ Sound'
<1>1. WorldStep \/ \E m \in Managers : WorkerStep(m)
  BY Steps
<1>2. /\ ObjsGrow /\ SecretsGrow /\ Rest /\ cloud' \subseteq Resources
      /\ work' = work \/ \E m \in Managers, w \in Work : Moved(m, w)
  BY <1>1 DEF WorldStep, WorkerStep, TypeOK
<1>3. /\ objs' \in Seq(ObjectVersion) /\ objs' # <<>> /\ objs'[1].there
      /\ secrets' \in Seq(Snapshot) /\ secrets' # <<>>
      /\ \A i \in 1..Len(objs') : objs'[i].observed <= objs'[i].gen
  <2>1. 1 \in 1..Len(objs)
    BY LogCur DEF TypeOK
  <2> QED BY <1>2, <2>1, Grown DEF TypeOK
<1>4. /\ work' \in [Managers -> Work] /\ Holding' /\ Finishing'
      /\ \A n \in Managers : /\ work'[n].rv \in 1..Len(objs')
                             /\ work'[n].handle \in 1..Len(secrets')
                             /\ Obj(n)'.there
  BY <1>2, HeldStep
<1>5. TypeOK'
  BY <1>2, <1>3, <1>4 DEF TypeOK, Rest
<1>6. AbsentIsEmpty' /\ RootFirst' /\ History' /\ FinalizerGuardsCloud'
  BY <1>1, <1>2, AbsentGrows, RootStep, HistoryGrows, GuardStep DEF Sound
<1> QED BY <1>4, <1>5, <1>6 DEF Sound

\* Every reachable state is well typed: workers hold versions that exist, and
\* status is never observed ahead of the spec (any number of managers).
THEOREM TypeCorrect == Spec => []TypeOK
<1>1. Init => TypeOK /\ Sound
  BY Initially
<1>2. TypeOK /\ Sound /\ [Next]_vars => (TypeOK /\ Sound)'
  BY SoundStep
<1> QED BY <1>1, <1>2, PTL DEF Spec

\* What every worker of ReconcileObject holds, whatever the snapshot manager
\* writes as runEngineAction closes it, pending operations dropped included.
THEOREM Soundness == Spec => []Sound
<1>1. Init => TypeOK /\ Sound
  BY Initially
<1>2. TypeOK /\ Sound /\ [Next]_vars => (TypeOK /\ Sound)'
  BY SoundStep
<1> QED BY <1>1, <1>2, PTL DEF Spec

\* As long as the object has no finalizer, nothing exists that deleting it would
\* leave behind, however many managers run and whatever fails.
THEOREM FinalizerGuards == Spec => []FinalizerGuardsCloud
<1>1. Sound => FinalizerGuardsCloud
  BY DEF Sound
<1> QED BY <1>1, Soundness, PTL

----------------------------------------------------------------------------
(* Action properties: what a save may replace.                             *)

\* A save that the API server takes replaces the checkpoint the worker holds.
LEMMA MatchesCur ==
  ASSUME TypeOK, Sound, NEW m \in Managers, Matches(m)
  PROVE  /\ Snap(m).there = Cur(secrets).there
         /\ Snap(m).res = Cur(secrets).res /\ Snap(m).pending = Cur(secrets).pending
         /\ Snap(m).gen = Cur(secrets).gen
<1>1. CASE Snap(m).there
  BY <1>1, HeldTyped
<1>2. CASE ~Snap(m).there
  <2>1. ~Cur(secrets).there
    BY <1>2 DEF Matches
  <2>2. work[m].handle \in 1..Len(secrets) /\ Len(secrets) \in 1..Len(secrets)
    BY LogCur DEF TypeOK
  <2>3. Snap(m) = NoSecret /\ Cur(secrets) = NoSecret
    BY <1>2, <2>1, <2>2 DEF Sound, AbsentIsEmpty, Snap, Cur
  <2> QED BY <2>3
<1> QED BY <1>1, <1>2

\* What a save makes of the current checkpoint.
LEMMA SavedCur ==
  ASSUME TypeOK, Sound, NEW m \in Managers, NEW res \in SUBSET Resources,
         NEW pending \in SUBSET Resources, SavedAs(m, res, pending)
  PROVE  /\ Cur(secrets)' = [there |-> TRUE, gen |-> Obj(m).gen, res |-> res, pending |-> pending]
         /\ Matches(m) /\ Snap(m).gen <= Obj(m).gen
<1>1. Cur(secrets)' = [there |-> TRUE, gen |-> Obj(m).gen, res |-> res, pending |-> pending]
  BY SavedGrows DEF Cur
<1> QED BY <1>1 DEF SavedAs, Sound, Holding

\* The checkpoint a worker's step leaves: the one that was, or one saved.
LEMMA Saves ==
  ASSUME TypeOK, Sound, NEW m \in Managers, NEW w, Affected(m, w)
  PROVE  \/ secrets' = secrets
         \/ \E res, pending \in SUBSET Resources :
              /\ SavedAs(m, res, pending)
              /\ pending \subseteq Snap(m).pending \cup NextSteps(m)
<1>1. /\ Snap(m).res \in SUBSET Resources /\ Snap(m).pending \in SUBSET Resources
      /\ NextSteps(m) \subseteq Resources
      /\ \A r \in Resources : After(m, r) \in SUBSET Resources
  BY HeldTyped, NextStepsTyped
<1> DEFINE none == {}
<1>2. none \in SUBSET Resources /\ none \subseteq Snap(m).pending \cup NextSteps(m)
  OBVIOUS
<1> DEFINE Goal == \E res, pending \in SUBSET Resources :
                     /\ SavedAs(m, res, pending)
                     /\ pending \subseteq Snap(m).pending \cup NextSteps(m)
<1>3. CASE Kept(m, w)
  BY <1>1, <1>3 DEF Kept
<1>4. CASE Forgot(m, w)
  <2>1. SavedAs(m, Snap(m).res, none)
    BY <1>4 DEF Forgot
  <2> HIDE DEF none
  <2> QED BY <1>1, <1>2, <2>1
<1>5. CASE Began(m, w)
  <2>1. PICK r \in NextSteps(m) : SavedAs(m, Snap(m).res, {r})
    BY <1>5 DEF Began
  <2> DEFINE one == {r}
  <2>2. one \in SUBSET Resources /\ one \subseteq Snap(m).pending \cup NextSteps(m)
        /\ SavedAs(m, Snap(m).res, one)
    BY <1>1, <2>1
  <2> HIDE DEF one
  <2> QED BY <1>1, <2>2
<1>6. CASE Ended(m, w)
  <2>1. \E res \in SUBSET Resources : SavedAs(m, res, none)
    BY <1>1, <1>6 DEF Ended
  <2> HIDE DEF none
  <2> QED BY <1>2, <2>1
<1> QED BY <1>3, <1>4, <1>5, <1>6 DEF Affected, NoEffect, Performed

\* A step that leaves a checkpoint leaves the one there was, or one it saved.
LEMMA SecretSteps ==
  ASSUME TypeOK, Sound, [Next]_vars, Cur(secrets)'.there
  PROVE  \/ secrets' = secrets
         \/ \E m \in Managers : \E res, pending \in SUBSET Resources :
              /\ SavedAs(m, res, pending)
              /\ pending \subseteq Snap(m).pending \cup NextSteps(m)
<1>1. CASE WorldStep
  <2>1. CASE secrets' = Append(secrets, NoSecret)
    <3>1. NoSecret \in Snapshot /\ ~NoSecret.there
      BY DEF NoSecret, Snapshot
    <3>2. Cur(secrets)' = NoSecret
      BY <2>1, <3>1, LogAppend DEF TypeOK, Cur
    <3> QED BY <3>1, <3>2
  <2> QED BY <1>1, <2>1 DEF WorldStep
<1>2. ASSUME NEW m \in Managers, NEW w, Affected(m, w)
      PROVE  \/ secrets' = secrets
             \/ \E res, pending \in SUBSET Resources :
                  /\ SavedAs(m, res, pending)
                  /\ pending \subseteq Snap(m).pending \cup NextSteps(m)
  BY <1>2, Saves
<1> QED BY <1>1, <1>2, Steps DEF WorkerStep

\* No manager replaces a checkpoint by one of an older generation.
LEMMA NeverBackwards ==
  ASSUME TypeOK, Sound, [Next]_vars, Cur(secrets).there, Cur(secrets)'.there
  PROVE  Cur(secrets)'.gen >= Cur(secrets).gen
<1>1. Cur(secrets).gen \in Nat
  BY CurTyped DEF Snapshot
<1>2. CASE secrets' = secrets
  BY <1>1, <1>2 DEF Cur
<1>3. ASSUME NEW m \in Managers, NEW res \in SUBSET Resources, NEW pending \in SUBSET Resources,
             SavedAs(m, res, pending)
      PROVE  Cur(secrets)'.gen >= Cur(secrets).gen
  <2>1. /\ Cur(secrets)'.gen = Obj(m).gen /\ Cur(secrets).gen = Snap(m).gen
        /\ Snap(m).gen <= Obj(m).gen /\ Obj(m).gen \in Nat
    <3>1. /\ Cur(secrets)' = [there |-> TRUE, gen |-> Obj(m).gen, res |-> res, pending |-> pending]
          /\ Matches(m) /\ Snap(m).gen <= Obj(m).gen
      BY <1>3, SavedCur
    <3>2. Cur(secrets)'.gen = Obj(m).gen /\ Cur(secrets)'.pending = pending
      BY <3>1
    <3>3. /\ Snap(m).res = Cur(secrets).res /\ Snap(m).pending = Cur(secrets).pending
          /\ Snap(m).gen = Cur(secrets).gen
      BY <3>1, MatchesCur
    <3>4. Obj(m).gen \in Nat /\ Snap(m).gen \in Nat
      BY HeldTyped
    <3> QED BY <3>1, <3>2, <3>3, <3>4
  <2> QED BY <1>1, <2>1
<1> QED BY <1>2, <1>3, SecretSteps

\* No creation is begun once a checkpoint was saved for a generation that is
\* marked for deletion.
LEMMA NeverResurrected ==
  ASSUME TypeOK, Sound, [Next]_vars, Cur(secrets)'.there,
         NEW i \in 1..Len(objs), objs[i].deleting, objs[i].gen <= Cur(secrets).gen
  PROVE  Cur(secrets)'.pending \subseteq Cur(secrets).pending \cup Cur(secrets).res
<1>1. CASE secrets' = secrets
  BY <1>1 DEF Cur
<1>2. ASSUME NEW m \in Managers, NEW res \in SUBSET Resources, NEW pending \in SUBSET Resources,
             SavedAs(m, res, pending), pending \subseteq Snap(m).pending \cup NextSteps(m)
      PROVE  Cur(secrets)'.pending \subseteq Cur(secrets).pending \cup Cur(secrets).res
  <2>1. /\ Cur(secrets)'.pending = pending /\ Cur(secrets).gen = Snap(m).gen
        /\ Cur(secrets).res = Snap(m).res /\ Cur(secrets).pending = Snap(m).pending
        /\ Snap(m).gen <= Obj(m).gen /\ Obj(m).gen \in Nat /\ Snap(m).gen \in Nat
    <3>1. /\ Cur(secrets)' = [there |-> TRUE, gen |-> Obj(m).gen, res |-> res, pending |-> pending]
          /\ Matches(m) /\ Snap(m).gen <= Obj(m).gen
      BY <1>2, SavedCur
    <3>2. Cur(secrets)'.gen = Obj(m).gen /\ Cur(secrets)'.pending = pending
      BY <3>1
    <3>3. /\ Snap(m).res = Cur(secrets).res /\ Snap(m).pending = Cur(secrets).pending
          /\ Snap(m).gen = Cur(secrets).gen
      BY <3>1, MatchesCur
    <3>4. Obj(m).gen \in Nat /\ Snap(m).gen \in Nat
      BY HeldTyped
    <3> QED BY <3>1, <3>2, <3>3, <3>4
  <2>2. objs[i].gen \in Nat /\ work[m].rv \in 1..Len(objs)
    <3>1. objs[i] \in ObjectVersion /\ work[m].rv \in 1..Len(objs)
      BY LogCur DEF TypeOK
    <3> QED BY <3>1 DEF ObjectVersion
  <2>3. objs[i].gen <= Obj(m).gen
    BY <2>1, <2>2
  <2>4. Obj(m).deleting
    BY <2>2, <2>3 DEF Sound, History, Obj
  <2>5. NextSteps(m) \subseteq Snap(m).res
    BY <2>4 DEF NextSteps, Want
  <2> QED BY <1>2, <2>1, <2>5
<1> QED BY <1>1, <1>2, SecretSteps

\* "Avoid going backwards in terms of goal state": no manager, on whatever stale
\* object, replaces a checkpoint by one of an older generation.
THEOREM NoGoingBackwards == Spec => SnapshotNeverGoesBackwards
<1>1. Init => TypeOK /\ Sound
  BY Initially
<1>2. TypeOK /\ Sound /\ [Next]_vars => (TypeOK /\ Sound)'
  BY SoundStep
<1>3. TypeOK /\ Sound /\ [Next]_vars =>
        [Cur(secrets).there /\ Cur(secrets').there => Cur(secrets').gen >= Cur(secrets).gen]_vars
  <2> SUFFICES ASSUME TypeOK, Sound, [Next]_vars, Cur(secrets).there, Cur(secrets').there
               PROVE  Cur(secrets').gen >= Cur(secrets).gen
    OBVIOUS
  <2>1. Cur(secrets') = Cur(secrets)'
    BY DEF Cur
  <2> QED BY <2>1, NeverBackwards
<1> QED BY <1>1, <1>2, <1>3, PTL DEF Spec, SnapshotNeverGoesBackwards

\* Managers that still work for a generation before the deletion create nothing
\* once the checkpoint was saved for the deletion.
THEOREM NothingResurrected == Spec => NoResurrection
<1> DEFINE Held == (\E o \in {objs[i] : i \in 1..Len(objs)} : o.deleting /\ o.gen <= Cur(secrets).gen)
                   /\ Cur(secrets').there
                     => Cur(secrets').pending \subseteq Cur(secrets).pending \cup Cur(secrets).res
<1>1. Init => TypeOK /\ Sound
  BY Initially
<1>2. TypeOK /\ Sound /\ [Next]_vars => (TypeOK /\ Sound)'
  BY SoundStep
<1>3. TypeOK /\ Sound /\ [Next]_vars => [Held]_vars
  <2> SUFFICES ASSUME TypeOK, Sound, [Next]_vars, NEW i \in 1..Len(objs), objs[i].deleting,
                      objs[i].gen <= Cur(secrets).gen, Cur(secrets').there
               PROVE  Cur(secrets').pending \subseteq Cur(secrets).pending \cup Cur(secrets).res
    OBVIOUS
  <2>1. Cur(secrets') = Cur(secrets)'
    BY DEF Cur
  <2> QED BY <2>1, NeverResurrected
<1> QED BY <1>1, <1>2, <1>3, PTL DEF Spec, NoResurrection

----------------------------------------------------------------------------
(* Exactness, as long as no snapshot manager forgets pending operations.   *)

\* What it takes for a worker in an operation to be left alone by a step.
LEMMA InStepKept ==
  ASSUME TypeOK, ObjsGrow, SecretsGrow, cloud' = cloud,
         Cur(secrets)'.res = Cur(secrets).res, Cur(secrets)'.pending = Cur(secrets).pending,
         Cur(secrets)'.there, NEW n \in Managers, work'[n] = work[n], InStep(n)
  PROVE  InStep(n)'
<1>1. Obj(n)' = Obj(n) /\ Snap(n)' = Snap(n)
  BY Bystander
<1> QED BY <1>1 DEF InStep, At, Want

\* The step of a worker that saves nothing and changes nothing in the cloud.
LEMMA CalmExact ==
  ASSUME TypeOK, Sound, Exact, ObjsGrow, SecretsGrow, NEW m \in Managers, NEW w \in Work,
         Moved(m, w), NoEffect(m, w), Cur(objs).there
  PROVE  /\ \A n \in Managers : Mid(n)' => Mid(n) /\ InStep(n)'
         /\ CheckpointExact'
<1>1. secrets' = secrets /\ cloud' = cloud /\ Cur(secrets)' = Cur(secrets)
  BY DEF NoEffect, Cur
<1>2. work \in [Managers -> Work] /\ work' = [work EXCEPT ![m] = w]
  BY DEF TypeOK, Moved
<1>3. ASSUME NEW n \in Managers, Mid(n)'
      PROVE  Mid(n) /\ InStep(n)'
  <2>1. CASE n # m
    <3>1. work'[n] = work[n] /\ Mid(n)
      BY <1>2, <1>3, <2>1 DEF Mid
    <3>2. InStep(n)
      BY <3>1 DEF Exact, Operations
    <3>3. Cur(secrets)'.there
      BY <1>1, <3>2 DEF InStep
    <3> QED BY <1>1, <3>1, <3>2, <3>3, InStepKept
  <2>2. CASE n = m
    <3>1. work'[m] = w /\ InMid(w)
      BY <1>2, <1>3, <2>2 DEF Mid, InMid
    <3>2. /\ Mid(m) /\ objs' = objs /\ ~w.ok
          /\ w.rv = work[m].rv /\ w.handle = work[m].handle /\ At(m, "apply")
      BY <3>1 DEF NoEffect
    <3>3. Obj(m)' = Obj(m) /\ Snap(m)' = Snap(m)
      BY <1>1, <3>1, <3>2 DEF Obj, Snap
    <3>4. InStep(m)
      BY <3>2 DEF Exact, Operations
    <3>5. InStep(m)'
      BY <1>1, <3>1, <3>2, <3>3, <3>4 DEF InStep, At
    <3> QED BY <2>2, <3>2, <3>5
  <2> QED BY <2>1, <2>2
<1>4. CheckpointExact'
  BY <1>1 DEF Exact, CheckpointExact
<1> QED BY <1>3, <1>4

\* Exactness in the next state, when the object was there in this one.
ExactNext ==
  /\ \A n \in Managers : Mid(n)' => InStep(n)'
  /\ \A n, k \in Managers : Mid(n)' /\ Mid(k)' => n = k
  /\ \A r \in Resources \ Cur(secrets)'.pending : r \in cloud' <=> r \in Cur(secrets)'.res

\* Rewriting the checkpoint as it was, when an operation is closed.
LEMMA KeptExact ==
  ASSUME TypeOK, Sound, Exact, ObjsGrow, SecretsGrow, NEW m \in Managers, NEW w \in Work,
         Moved(m, w), Kept(m, w), Cur(objs).there
  PROVE  ExactNext
<1>1. /\ SavedAs(m, Snap(m).res, Snap(m).pending) /\ Matches(m) /\ cloud' = cloud
      /\ Snap(m).res \in SUBSET Resources /\ Snap(m).pending \in SUBSET Resources
  BY HeldTyped DEF Kept, SavedAs
<1>2. Cur(secrets)' = [there |-> TRUE, gen |-> Obj(m).gen, res |-> Snap(m).res,
                       pending |-> Snap(m).pending]
  BY <1>1, SavedCur
<1>3. /\ Cur(secrets)'.there /\ Cur(secrets)'.res = Cur(secrets).res
      /\ Cur(secrets)'.pending = Cur(secrets).pending
  <2>1. Snap(m).res = Cur(secrets).res /\ Snap(m).pending = Cur(secrets).pending
    BY <1>1, MatchesCur
  <2> QED BY <1>2, <2>1
<1>4. ASSUME NEW n \in Managers, Mid(n)'
      PROVE  Mid(n) /\ InStep(n)'
  <2>1. work' = [work EXCEPT ![m] = w] /\ work \in [Managers -> Work] /\ ~InMid(w)
    BY DEF Moved, Kept, TypeOK
  <2>2. n # m /\ work'[n] = work[n] /\ Mid(n)
    BY <1>4, <2>1 DEF Mid, InMid
  <2>3. InStep(n)
    BY <2>2 DEF Exact, Operations
  <2> QED BY <1>1, <1>3, <2>2, <2>3, InStepKept
<1>5. \A n, k \in Managers : Mid(n)' /\ Mid(k)' => n = k
  BY <1>4 DEF Exact, ExclusiveEngine
<1>6. \A r \in Resources \ Cur(secrets)'.pending : r \in cloud' <=> r \in Cur(secrets)'.res
  BY <1>1, <1>3 DEF Exact, CheckpointExact
<1> QED BY <1>4, <1>5, <1>6 DEF ExactNext

\* A worker that begins an operation finds nobody else in one.
LEMMA BeganExact ==
  ASSUME TypeOK, Sound, Exact, ObjsGrow, SecretsGrow, NEW m \in Managers, NEW w \in Work,
         Moved(m, w), Began(m, w), Cur(objs).there
  PROVE  ExactNext
<1>1. PICK r \in NextSteps(m) : SavedAs(m, Snap(m).res, {r})
  BY DEF Began
<1>2. /\ Snap(m).pending = {} /\ ~Mid(m) /\ Matches(m) /\ objs' = objs /\ cloud' = cloud
      /\ r \in Resources /\ Snap(m).res \in SUBSET Resources
  BY <1>1, NextStepsTyped, HeldTyped DEF Began, SavedAs
<1>3. Cur(secrets)' = [there |-> TRUE, gen |-> Obj(m).gen, res |-> Snap(m).res, pending |-> {r}]
  <2> DEFINE one == {r}
  <2>1. one \in SUBSET Resources /\ SavedAs(m, Snap(m).res, one)
    BY <1>1, <1>2
  <2> HIDE DEF one
  <2>2. Cur(secrets)' = [there |-> TRUE, gen |-> Obj(m).gen, res |-> Snap(m).res, pending |-> one]
    BY <1>2, <2>1, SavedCur
  <2> QED BY <2>2 DEF one
<1>4. Cur(secrets).pending = {} /\ Cur(secrets).res = Snap(m).res
  BY <1>2, MatchesCur
<1>5. \A n \in Managers : ~Mid(n)
  <2>1. ASSUME NEW n \in Managers, Mid(n)
        PROVE  FALSE
    <3>1. InStep(n)
      BY <2>1 DEF Exact, Operations
    <3> QED BY <1>4, <3>1 DEF InStep
  <2> QED BY <2>1
<1>6. work' = [work EXCEPT ![m] = w] /\ work \in [Managers -> Work]
  BY DEF Moved, TypeOK
<1>7. \A x \in Resources : x \in cloud <=> x \in Snap(m).res
  BY <1>4 DEF Exact, CheckpointExact
<1>8. ASSUME NEW n \in Managers, Mid(n)'
      PROVE  n = m /\ InStep(n)'
  <2>1. n = m /\ work'[m] = w /\ InMid(w)
    BY <1>5, <1>6, <1>8 DEF Mid, InMid
  <2>2. w.pc = "apply" /\ w.rv = work[m].rv /\ w.handle = Len(secrets) + 1
    BY <2>1 DEF Began
  <2>3. Len(secrets') = Len(secrets) + 1
    <3> DEFINE one == {r}
    <3>1. one \in SUBSET Resources /\ SavedAs(m, Snap(m).res, one)
      BY <1>1, <1>2
    <3> HIDE DEF one
    <3> QED BY <1>2, <3>1, SavedGrows
  <2>4. Snap(m)' = Cur(secrets)'
    BY <2>1, <2>2, <2>3 DEF Snap, Cur
  <2>5. InStep(m)'
    BY <1>2, <1>3, <1>7, <2>1, <2>2, <2>4 DEF InStep, At
  <2> QED BY <2>1, <2>5
<1>9. \A x \in Resources \ Cur(secrets)'.pending : x \in cloud' <=> x \in Cur(secrets)'.res
  BY <1>2, <1>3, <1>7
<1> QED BY <1>8, <1>9 DEF ExactNext

\* A worker in an operation is the only one, and what the operation is.
LEMMA Alone ==
  ASSUME TypeOK, Exact, Cur(objs).there, NEW m \in Managers, Mid(m)
  PROVE  /\ InStep(m) /\ \A n \in Managers : Mid(n) => n = m
         /\ \A x \in Resources \ Snap(m).pending : x \in cloud <=> x \in Snap(m).res
<1>1. InStep(m)
  BY DEF Exact, Operations
<1> QED BY <1>1 DEF Exact, ExclusiveEngine, CheckpointExact, InStep

\* The provider performs the operation that the checkpoint names.
LEMMA PerformedExact ==
  ASSUME TypeOK, Sound, Exact, ObjsGrow, SecretsGrow, NEW m \in Managers, NEW w \in Work,
         Moved(m, w), Performed(m, w), Cur(objs).there
  PROVE  ExactNext
<1>1. Mid(m) /\ objs' = objs /\ secrets' = secrets /\ cloud' = Effect(m)
  BY DEF Performed, Mid, At
<1>2. /\ InStep(m) /\ \A n \in Managers : Mid(n) => n = m
      /\ \A x \in Resources \ Snap(m).pending : x \in cloud <=> x \in Snap(m).res
  BY <1>1, Alone
<1>3. PICK r \in Resources : Snap(m).pending = {r}
  BY <1>2 DEF InStep
<1>4. r \in cloud' <=> r \in Want(Obj(m))
  BY <1>1, <1>3 DEF Effect
<1>5. \A x \in Resources \ {r} : x \in cloud' <=> x \in cloud
  BY <1>1, <1>3 DEF Effect
<1>6. /\ work' = [work EXCEPT ![m] = w] /\ work \in [Managers -> Work]
      /\ w.pc = "confirm" /\ w.ok /\ w.rv = work[m].rv /\ w.handle = work[m].handle
  BY DEF Moved, TypeOK, Performed
<1>7. /\ Obj(m)' = Obj(m) /\ Snap(m)' = Snap(m) /\ Cur(secrets)' = Cur(secrets)
      /\ work'[m] = w
  BY <1>1, <1>6 DEF Obj, Snap, Cur
<1>8. InStep(m)'
  BY <1>2, <1>3, <1>4, <1>6, <1>7 DEF InStep, At
<1>9. \A n \in Managers : Mid(n)' => n = m
  BY <1>2, <1>6 DEF Mid
<1>10. \A x \in Resources \ Cur(secrets)'.pending : x \in cloud' <=> x \in Cur(secrets)'.res
  BY <1>2, <1>3, <1>5, <1>7 DEF InStep
<1> QED BY <1>8, <1>9, <1>10 DEF ExactNext

\* A worker that ends its operation records what the cloud then has.
LEMMA EndedExact ==
  ASSUME TypeOK, Sound, Exact, ObjsGrow, SecretsGrow, NEW m \in Managers, NEW w \in Work,
         Moved(m, w), Ended(m, w), Cur(objs).there
  PROVE  ExactNext
<1>1. At(m, "confirm") /\ Mid(m) /\ ~InMid(w)
  BY DEF Ended, Mid, At
<1>2. /\ InStep(m) /\ \A n \in Managers : Mid(n) => n = m
      /\ \A x \in Resources \ Snap(m).pending : x \in cloud <=> x \in Snap(m).res
  BY <1>1, Alone
<1>3. PICK r \in Resources : /\ Snap(m).pending = {r}
                             /\ work[m].ok => (r \in cloud <=> r \in Want(Obj(m)))
                             /\ ~work[m].ok => (r \in cloud <=> r \in Snap(m).res)
  BY <1>1, <1>2 DEF InStep
<1> DEFINE none == {}
<1>4. none \in SUBSET Resources
  OBVIOUS
<1>5. PICK res \in SUBSET Resources :
        /\ SavedAs(m, res, none)
        /\ \A x \in Resources : x \in cloud <=> x \in res
  <2>1. CASE work[m].ok
    <3>1. SavedAs(m, After(m, r), none) /\ After(m, r) \in SUBSET Resources
      BY <1>3, <2>1, NextStepsTyped DEF Ended
    <3>2. ASSUME NEW x \in Resources
          PROVE  x \in cloud <=> x \in After(m, r)
      <4>1. CASE x = r
        BY <1>3, <2>1, <4>1 DEF After
      <4>2. CASE x # r
        <5>1. x \in cloud <=> x \in Snap(m).res
          BY <1>2, <1>3, <4>2
        <5> QED BY <4>2, <5>1 DEF After
      <4> QED BY <4>1, <4>2
    <3> HIDE DEF none
    <3> QED BY <3>1, <3>2
  <2>2. CASE ~work[m].ok
    <3>1. SavedAs(m, Snap(m).res, none) /\ Snap(m).res \in SUBSET Resources
      BY <2>2, HeldTyped DEF Ended
    <3>2. \A x \in Resources : x \in cloud <=> x \in Snap(m).res
      BY <1>2, <1>3, <2>2
    <3> HIDE DEF none
    <3> QED BY <3>1, <3>2
  <2> QED BY <2>1, <2>2
<1> HIDE DEF none
<1>6. Cur(secrets)'.res = res /\ cloud' = cloud
  <2>1. Cur(secrets)' = [there |-> TRUE, gen |-> Obj(m).gen, res |-> res, pending |-> none]
    BY <1>4, <1>5, SavedCur
  <2> QED BY <1>5, <2>1 DEF SavedAs
<1>7. work' = [work EXCEPT ![m] = w] /\ work \in [Managers -> Work]
  BY DEF Moved, TypeOK
<1>8. \A n \in Managers : ~Mid(n)'
  BY <1>1, <1>2, <1>7 DEF Mid, InMid
<1> QED BY <1>5, <1>6, <1>8 DEF ExactNext

\* The exact part of the invariant is inductive.
LEMMA ExactStep ==
  ASSUME TypeOK, Sound, Exact, "forget" \notin Flushes, [Next]_vars
  PROVE  Exact'
<1>1. TypeOK' /\ (WorldStep \/ \E m \in Managers : WorkerStep(m))
  BY SoundStep, Steps
<1>2. ObjsGrow /\ SecretsGrow
  BY <1>1 DEF WorldStep, WorkerStep
<1> SUFFICES ASSUME Cur(objs)'.there
             PROVE  ExactNext
  BY DEF Exact, Operations, ExclusiveEngine, CheckpointExact, ExactNext
<1>3. Cur(objs).there
  <2>1. Cur(objs') = Cur(objs)'
    BY DEF Cur
  <2> QED BY <1>2, <2>1, Grown
<1>4. CASE WorldStep
  <2>1. /\ secrets' = secrets /\ Cur(secrets)' = Cur(secrets) /\ work' = work /\ cloud' = cloud
    BY <1>3, <1>4 DEF WorldStep, Cur
  <2>2. ASSUME NEW n \in Managers, Mid(n)'
        PROVE  Mid(n) /\ InStep(n)'
    <3>1. Mid(n) /\ work'[n] = work[n]
      BY <2>1, <2>2 DEF Mid
    <3>2. InStep(n) /\ Cur(secrets)'.there
      BY <1>3, <2>1, <3>1 DEF Exact, Operations, InStep
    <3> QED BY <1>2, <2>1, <3>1, <3>2, InStepKept
  <2> QED BY <1>3, <2>1, <2>2 DEF ExactNext, Exact, ExclusiveEngine, CheckpointExact
<1>5. ASSUME NEW m \in Managers, NEW w \in Work, Moved(m, w), Affected(m, w)
      PROVE  ExactNext
  <2>1. CASE NoEffect(m, w)
    <3>1. Cur(secrets)' = Cur(secrets) /\ cloud' = cloud
      BY <2>1 DEF NoEffect, Cur
    <3>2. \A n \in Managers : Mid(n)' => Mid(n) /\ InStep(n)'
      BY <1>2, <1>3, <1>5, <2>1, CalmExact
    <3> QED BY <1>3, <3>1, <3>2 DEF ExactNext, Exact, ExclusiveEngine, CheckpointExact
  <2> QED BY <1>2, <1>3, <1>5, <2>1, KeptExact, BeganExact, EndedExact, PerformedExact
          DEF Affected, Forgot
<1> QED BY <1>1, <1>4, <1>5 DEF WorkerStep

\* Everything the runs check of the invariant, for every number of managers.
LEMMA Invariant ==
  ASSUME "forget" \notin Flushes
  PROVE  Spec => [](TypeOK /\ Sound /\ Exact)
<1>1. Init => TypeOK /\ Sound /\ Exact
  BY Initially
<1>2. TypeOK /\ Sound /\ Exact /\ [Next]_vars => (TypeOK /\ Sound /\ Exact)'
  BY SoundStep, ExactStep
<1> QED BY <1>1, <1>2, PTL DEF Spec

\* The checkpoint is a write-ahead log of the cloud, whatever crashes, fails or
\* runs beside it (update.Save before and after each step), unless the snapshot
\* manager drops pending operations when runEngineAction closes it.
THEOREM WriteAhead ==
  ASSUME "forget" \notin Flushes
  PROVE  Spec => []CheckpointExact
<1>1. Exact => CheckpointExact
  BY DEF Exact
<1> QED BY <1>1, Invariant, PTL

\* The resourceVersion of the Secret (setSnapshot's Create and Update) is lock
\* enough between any number of managers, under the same condition.
THEOREM Exclusion ==
  ASSUME "forget" \notin Flushes
  PROVE  Spec => []ExclusiveEngine
<1>1. Exact => ExclusiveEngine
  BY DEF Exact
<1> QED BY <1>1, Invariant, PTL

\* A step that changes a worker is the worker's own.
LEMMA OwnStep ==
  ASSUME TypeOK, Sound, [Next]_vars, NEW m \in Managers, work'[m] # work[m]
  PROVE  Step(m) \/ Fault(m)
<1>1. ~UNCHANGED vars /\ ~UNCHANGED stackVars
  BY DEF vars, stackVars
<1>2. PICK n \in Managers : Step(n) \/ Fault(n)
  BY <1>1 DEF Next
<1>3. PICK w \in Work : Moved(n, w)
  BY <1>2, WorkerSteps DEF WorkerStep
<1>4. n = m
  BY <1>3 DEF Moved, TypeOK
<1> QED BY <1>2, <1>4

\* A worker that lets the object go is about to release it, and its stack is
\* destroyed: with the root gone, nothing but the root can be pending.
LEMMA Releases ==
  ASSUME TypeOK, Sound, Exact, [Next]_vars, NEW m \in Managers, LetsGo(m),
         Snap(m) = Cur(secrets)
  PROVE  cloud \subseteq {Root}
<1>1. /\ At(m, "release") /\ work'[m] # work[m] /\ Cur(objs).there /\ objs' # objs
      /\ ~Cur(objs').there
  BY DEF LetsGo
<1>2. Step(m) \/ Fault(m)
  BY <1>1, OwnStep
<1>3. Obj(m).deleting
  <2>1. Release(m) \/ AnswerLost(m)
    BY <1>1, <1>2 DEF Step, Fault, Start, AddFinalizer, PlanStatus, ResultStatus, LoadStack,
       Preview, Engine, Refuse, BeginStep, Apply, EndStep, EngineDone, ApplyFails, CallFails,
       OperationFails, FlushLost, Crash, At, clusterVars
  <2> QED BY <1>1, <2>1 DEF Release, AnswerLost, RemovesFinalizer, At
<1>4. Snap(m).res = {}
  BY <1>1, <1>3 DEF Sound, Finishing, Want, At
<1>5. Snap(m).pending \subseteq {Root}
  BY <1>4 DEF Sound, RootFirst, Rooted, Snap, TypeOK
<1> QED BY <1>1, <1>4, <1>5 DEF Exact, CheckpointExact, TypeOK

\* ReconcileObject does not remove the finalizer while the checkpoint in hand is
\* the current one and the cloud still has something, whatever was left pending:
\* the preview of Destroy counts the root, and the operation is refused.
THEOREM ReleasedClean ==
  ASSUME "forget" \notin Flushes
  PROVE  Spec => CleanRelease
<1>1. TypeOK /\ Sound /\ Exact /\ [Next]_vars =>
        [\A m \in Managers :
           LetsGo(m) /\ Snap(m) = Cur(secrets) => cloud \subseteq {Root}]_vars
  BY Releases
<1> QED BY <1>1, Invariant, PTL DEF CleanRelease, Spec
=============================================================================

---------------------- MODULE ReconcilerProgressProofs ----------------------
(***************************************************************************)
(* Proofs that the managers forget nothing and that status is told as it   *)
(* is: what is left of the liveness of Reconciler without fairness, and    *)
(* what a status says that was written with the current checkpoint in hand.*)
(***************************************************************************)
EXTENDS ReconcilerProofs

----------------------------------------------------------------------------
(* The object's log goes onwards.                                          *)

\* Growing the log takes neither the status nor the end of the object back.
LEMMA CurGrows ==
  ASSUME TypeOK, ObjsGrow
  PROVE  /\ Cur(objs').there => Cur(objs).there
         /\ Cur(objs').observed >= Cur(objs).observed
         /\ Cur(objs').observed \in Nat /\ Cur(objs).observed \in Nat
<1>1. Cur(objs).observed \in Nat /\ Cur(objs).observed >= Cur(objs).observed
  BY CurTyped DEF ObjectVersion
<1>2. CASE objs' = objs
  BY <1>1, <1>2
<1>3. ASSUME NEW o \in ObjectVersion, NextVersion(o), objs' = Append(objs, o)
      PROVE  /\ Cur(objs').there => Cur(objs).there
             /\ Cur(objs').observed >= Cur(objs).observed
             /\ Cur(objs').observed \in Nat
  <2>1. Cur(objs') = o /\ o.observed \in Nat
    BY <1>3, LogAppend DEF TypeOK, Cur, ObjectVersion
  <2> QED BY <1>3, <2>1 DEF NextVersion
<1> QED BY <1>1, <1>2, <1>3 DEF ObjsGrow

\* The status of the object moves on, and its end is for good, as its log grows.
LEMMA OnwardsGrows ==
  ASSUME TypeOK, Onwards, ObjsGrow
  PROVE  Onwards'
<1>1. CASE objs' = objs
  BY <1>1 DEF Onwards, Cur
<1>2. ASSUME NEW o \in ObjectVersion, NextVersion(o), objs' = Append(objs, o)
      PROVE  Onwards'
  <2>1. /\ Len(objs) \in Nat \ {0} /\ Len(objs') = Len(objs) + 1
        /\ Cur(objs)' = o /\ objs'[Len(objs')] = o
        /\ \A i \in 1..Len(objs) : objs'[i] = objs[i] /\ objs[i] \in ObjectVersion
    BY <1>2, LogAppend, LogCur DEF TypeOK, Cur
  <2>2. \A i \in 1..Len(objs') : i \in 1..Len(objs) \/ i = Len(objs')
    BY <2>1
  <2>3. o.observed \in Nat /\ o.observed >= Cur(objs).observed /\ Cur(objs).there
        /\ Cur(objs).observed \in Nat
    BY <1>2, CurTyped DEF NextVersion, ObjectVersion
  <2>4. \A i \in 1..Len(objs) : objs'[i].observed <= o.observed /\ objs'[i].there
    BY <2>1, <2>3 DEF Onwards, ObjectVersion
  <2> QED BY <2>1, <2>2, <2>3, <2>4 DEF Onwards
<1> QED BY <1>1, <1>2 DEF ObjsGrow

----------------------------------------------------------------------------
(* The queue.                                                              *)

\* What a step of worker m does with the request it works on: the object is gone,
\* or the key goes back into the queue, or it is taken, or the work goes on for
\* the same generation, or it is done with.
Takes(m) ==
  /\ At(m, "idle") /\ work'[m].pc = "finalizer"
  /\ work'[m].rv = seen[m].obj /\ UNCHANGED <<objs, seen>>
GoesOn(m) ==
  /\ ~At(m, "idle") /\ work'[m].pc # "idle" /\ Obj(m)'.gen = Obj(m).gen
  /\ UNCHANGED <<seen, queued>>
Rests(m) ==
  /\ At(m, "release") /\ ~Obj(m).deleting /\ work'[m].pc = "idle"
  /\ UNCHANGED <<objs, seen, queued>>

Serves(m) ==
  /\ \/ ~Cur(objs').there
     \/ queued'[m]
     \/ Takes(m) \/ GoesOn(m) \/ Rests(m)
  /\ work'[m].pc = "release" => Obj(m)'.observed = Obj(m)'.gen
  /\ \A n \in Managers \ {m} : /\ seen'[n] = seen[n] /\ queued'[n] = queued[n]
                               /\ work'[n] = work[n]

\* A reconciliation that returns, and is queued again.
LEMMA GivesUp ==
  ASSUME TypeOK, NEW m \in Managers, GiveUp(m), UNCHANGED seen
  PROVE  Serves(m)
<1>1. /\ work' = [work EXCEPT ![m] = Idle] /\ queued' = [queued EXCEPT ![m] = TRUE]
      /\ work \in [Managers -> Work] /\ queued \in [Managers -> BOOLEAN]
  BY DEF GiveUp, Return, TypeOK
<1> QED BY <1>1 DEF Serves, Idle

\* A step on the way, for the version in memory or one of its generation.
LEMMA Continues ==
  ASSUME TypeOK, NEW m \in Managers, ~At(m, "idle"), NEW w \in Work,
         work' = [work EXCEPT ![m] = w], w.pc # "idle", UNCHANGED <<seen, queued>>,
         objs'[w.rv].gen = Obj(m).gen,
         w.pc = "release" => objs'[w.rv].observed = Obj(m).gen
  PROVE  Serves(m)
<1>1. work'[m] = w /\ \A n \in Managers \ {m} : work'[n] = work[n]
  BY DEF TypeOK
<1>2. Obj(m)' = objs'[w.rv]
  BY <1>1 DEF Obj
<1> QED BY <1>1, <1>2 DEF Serves, GoesOn

\* A write of the object, or its conflict.
LEMMA PutServes ==
  ASSUME TypeOK, History, NEW m \in Managers, ~At(m, "idle"), NEW n, Edit(Obj(m), n),
         NEW w0 \in Work, PutObject(m, n, w0), w0.pc # "idle", UNCHANGED seen,
         w0.pc = "release" => n.observed = n.gen
  PROVE  Serves(m)
<1>1. CASE ~Fresh(m) /\ GiveUp(m)
  BY <1>1, GivesUp
<1>2. CASE /\ Fresh(m) /\ objs' = Written(n) /\ UNCHANGED queued
           /\ work' = [work EXCEPT ![m] = [w0 EXCEPT !.rv = Len(Written(n))]]
  <2>1. Len(objs') \in Nat /\ objs'[Len(objs')] = n
    <3>1. n \in ObjectVersion /\ objs \in Seq(ObjectVersion) /\ objs # <<>>
      BY DEF Edit, TypeOK
    <3>2. CASE n = Cur(objs)
      BY <1>2, <3>1, <3>2, LogCur DEF Written, Cur
    <3>3. CASE n # Cur(objs)
      BY <1>2, <3>1, <3>3, LogAppend, LogCur DEF Written
    <3> QED BY <3>2, <3>3
  <2> DEFINE w == [w0 EXCEPT !.rv = Len(objs')]
  <2>2. w \in Work /\ w.pc = w0.pc /\ w.rv = Len(objs')
    BY <2>1 DEF Work
  <2>3. work' = [work EXCEPT ![m] = w]
    BY <1>2
  <2>4. n.gen = Obj(m).gen
    BY DEF Edit
  <2> HIDE DEF w
  <2> QED BY <1>2, <2>1, <2>2, <2>3, <2>4, Continues
<1> QED BY <1>1, <1>2 DEF PutObject

\* The steps that leave the object alone, but for its release.
LEMMA QuietServes ==
  ASSUME TypeOK, NEW m \in Managers, UNCHANGED objs, ~At(m, "idle"), UNCHANGED <<seen, queued>>,
         NEW w \in Work, w.rv = work[m].rv, w.pc \notin {"idle", "release"},
         \/ work' = [work EXCEPT ![m] = w]
         \/ \E h \in Nat : work' = [work EXCEPT ![m] = [w EXCEPT !.handle = h]]
  PROVE  Serves(m)
<1>1. ASSUME NEW v \in Work, v.rv = w.rv, v.pc = w.pc, work' = [work EXCEPT ![m] = v]
      PROVE  Serves(m)
  BY <1>1, Continues DEF Obj
<1>2. \A h \in Nat : /\ [w EXCEPT !.handle = h] \in Work
                     /\ [w EXCEPT !.handle = h].rv = w.rv /\ [w EXCEPT !.handle = h].pc = w.pc
  BY DEF Work
<1> QED BY <1>1, <1>2

\* Save, and what the snapshot manager writes when it is closed.
LEMMA SaveServes ==
  ASSUME TypeOK, NEW m \in Managers, UNCHANGED <<objs, seen, queued>>, ~At(m, "idle"),
         NEW w \in Work, w.rv = work[m].rv, w.pc \notin {"idle", "release"},
         CloseSnapshots(m, w) \/ \E res, pending : Save(m, res, pending, w)
  PROVE  Serves(m)
<1>1. Len(secrets) + 1 \in Nat
  BY LogCur DEF TypeOK
<1>2. \/ work' = [work EXCEPT ![m] = w]
      \/ work' = [work EXCEPT ![m] = [w EXCEPT !.handle = Len(secrets) + 1]]
  BY DEF CloseSnapshots, Save
<1> QED BY <1>1, <1>2, QuietServes

\* The worker that takes a key works for what its cache shows, or its Get finds
\* that the object is gone.
LEMMA StartServes ==
  ASSUME TypeOK, Onwards, NEW m \in Managers, Start(m)
  PROVE  Serves(m)
<1>1. /\ At(m, "idle") /\ UNCHANGED <<objs, seen>>
      /\ \A n \in Managers \ {m} : queued'[n] = queued[n]
      /\ seen[m].obj \in 1..Len(objs)
  BY DEF Start, TypeOK
<1>2. CASE Found(m)
  <2> DEFINE w == [Idle EXCEPT !.pc = "finalizer", !.rv = seen[m].obj]
  <2>1. work' = [work EXCEPT ![m] = w] \/ ~Found(m)
    BY DEF Start
  <2>2. w.pc = "finalizer" /\ w.rv = seen[m].obj
    BY DEF Idle
  <2>3. work'[m] = w /\ \A n \in Managers \ {m} : work'[n] = work[n]
    BY <1>2, <2>1 DEF TypeOK
  <2> QED BY <1>1, <2>2, <2>3 DEF Serves, Takes
<1>3. CASE ~Found(m)
  <2>1. work' = work
    BY <1>3 DEF Start
  <2>2. ~Cur(objs).there
    BY <1>1, <1>3 DEF Found, Onwards
  <2>3. ~Cur(objs').there
    BY <1>1, <2>2
  <2>4. work'[m].pc # "release"
    BY <1>1, <2>1 DEF At
  <2> QED BY <1>1, <2>1, <2>3, <2>4 DEF Serves
<1> QED BY <1>2, <1>3

\* Adding the finalizer keeps the request: the work goes on, or a conflict retries.
LEMMA AddFinalizerServes ==
  ASSUME TypeOK, History, NEW m \in Managers, AddFinalizer(m)
  PROVE  Serves(m)
<1> DEFINE w == [work[m] EXCEPT !.pc = "load"]
<1>1. /\ ~At(m, "idle") /\ UNCHANGED seen
      /\ Edit(Obj(m), WithFinalizer(Obj(m)))
  BY HeldTyped, Edits DEF AddFinalizer, At
<1>2. w \in Work /\ w.pc = "load" /\ w.rv = work[m].rv
  <2>1. work[m] \in Work /\ "load" \in Phases
    BY HeldTyped DEF Phases
  <2> QED BY <2>1, WorkEdits
<1>3. CASE PutObject(m, WithFinalizer(Obj(m)), w)
  <2> HIDE DEF w
  <2> QED BY <1>1, <1>2, <1>3, PutServes
<1>4. CASE Goto(m, "load") /\ UNCHANGED <<objs, queued>>
  <2>1. work' = [work EXCEPT ![m] = w]
    BY <1>4 DEF Goto
  <2> HIDE DEF w
  <2> QED BY <1>1, <1>2, <1>4, <2>1, QuietServes
<1> QED BY <1>3, <1>4 DEF AddFinalizer

\* So does writing the status, which observes the generation worked for.
LEMMA StatusServes ==
  ASSUME TypeOK, History, NEW m \in Managers, PlanStatus(m) \/ ResultStatus(m)
  PROVE  Serves(m)
<1>1. ~At(m, "idle") /\ UNCHANGED seen /\ work[m] \in Work /\ work[m].changes \in BOOLEAN
  BY HeldTyped, WorkEdits DEF PlanStatus, ResultStatus, At
<1>2. CASE PlanStatus(m)
  <2> DEFINE p == IF work[m].changes THEN "engine" ELSE "release"
             w == [work[m] EXCEPT !.pc = p]
             n == Planned(Obj(m), work[m].changes)
  <2>1. w \in Work /\ w.pc = p /\ p # "idle"
    <3>1. p \in Phases /\ p # "idle"
      BY DEF Phases
    <3> HIDE DEF p
    <3> QED BY <1>1, <3>1, WorkEdits
  <2>2. PutObject(m, n, w)
    BY <1>2 DEF PlanStatus
  <2>3. Edit(Obj(m), n)
    BY <1>1, HeldTyped, Edits
  <2>4. n.observed = n.gen
    BY HeldTyped DEF Planned, ObjectVersion
  <2> HIDE DEF w, n, p
  <2> QED BY <1>1, <2>1, <2>2, <2>3, <2>4, PutServes
<1>3. CASE ResultStatus(m)
  <2> DEFINE w == [work[m] EXCEPT !.pc = "release"]
             n == Executed(Obj(m))
  <2>1. w \in Work /\ w.pc = "release"
    BY <1>1, WorkEdits DEF Phases
  <2>2. PutObject(m, n, w)
    BY <1>3 DEF ResultStatus
  <2>3. Edit(Obj(m), n)
    BY <1>1, HeldTyped, Edits
  <2>4. n.observed = n.gen
    BY HeldTyped DEF Executed, ObjectVersion
  <2> HIDE DEF w, n
  <2> QED BY <1>1, <2>1, <2>2, <2>3, <2>4, PutServes
<1> QED BY <1>2, <1>3

\* So does loading the stack: a mismatch retries.
LEMMA LoadStackServes ==
  ASSUME TypeOK, NEW m \in Managers, LoadStack(m)
  PROVE  Serves(m)
<1>1. ~At(m, "idle") /\ UNCHANGED <<objs, seen>>
  BY DEF LoadStack, At
<1>2. CASE GiveUp(m)
  BY <1>1, <1>2, GivesUp
<1>3. CASE /\ work' = [work EXCEPT ![m] = [@ EXCEPT !.pc = "preview", !.handle = seen[m].secret]]
           /\ UNCHANGED queued
  <2> DEFINE w == [work[m] EXCEPT !.pc = "preview"]
             v == [w EXCEPT !.handle = seen[m].secret]
  <2>1. w \in Work /\ w.pc = "preview" /\ w.rv = work[m].rv
    <3>1. work[m] \in Work /\ "preview" \in Phases
      BY HeldTyped DEF Phases
    <3> QED BY <3>1, WorkEdits
  <2>2. seen[m].secret \in Nat
    BY LogCur DEF TypeOK
  <2>3. v \in Work /\ v.pc = w.pc /\ v.rv = w.rv
    <3> HIDE DEF w
    <3> QED BY <2>1, <2>2, WorkEdits
  <2>4. work' = [work EXCEPT ![m] = v]
    BY <1>3
  <2> HIDE DEF w, v
  <2> QED BY <1>1, <1>3, <2>1, <2>3, <2>4, QuietServes
<1> QED BY <1>2, <1>3 DEF LoadStack

\* And the two phases the engine runs: a refusal or a conflict retries, and a step
\* of the provider that fails is confirmed first.
LEMMA EngineServes ==
  ASSUME TypeOK, NEW m \in Managers, Preview(m) \/ Engine(m) \/ ApplyFails(m)
  PROVE  Serves(m)
<1>1. ~At(m, "idle") /\ UNCHANGED <<objs, seen>>
  BY DEF Preview, Engine, Refuse, BeginStep, Apply, EndStep, EngineDone, Finished, ApplyFails,
         At, clusterVars
<1>2. work[m] \in Work /\ work[m].rv \in Nat
  BY HeldTyped, WorkEdits
<1>3. CASE GiveUp(m)
  BY <1>1, <1>3, GivesUp
<1>4. CASE Preview(m)
  <2>1. CloseSnapshots(m, Previewed(m)) /\ UNCHANGED queued
    BY <1>4 DEF Preview
  <2> QED BY <1>1, <2>1, PreviewedIs, SaveServes
<1>5. CASE BeginStep(m)
  <2> DEFINE w == [work[m] EXCEPT !.pc = "apply"]
  <2>1. w \in Work /\ w.rv = work[m].rv /\ w.pc = "apply"
    BY <1>2 DEF Work, Phases
  <2>2. GiveUp(m) \/ (UNCHANGED queued /\ \E r : Save(m, Snap(m).res, {r}, w))
    BY <1>5 DEF BeginStep
  <2> HIDE DEF w
  <2>3. (\E r : Save(m, Snap(m).res, {r}, w)) => \E res, pending : Save(m, res, pending, w)
    OBVIOUS
  <2> QED BY <1>1, <1>3, <2>1, <2>2, <2>3, SaveServes
<1>6. CASE Apply(m) \/ ApplyFails(m)
  <2>1. PICK k \in BOOLEAN : work' = [work EXCEPT ![m] = [@ EXCEPT !.pc = "confirm", !.ok = k]]
    BY <1>6 DEF Apply, ApplyFails
  <2> DEFINE w == [work[m] EXCEPT !.pc = "confirm", !.ok = k]
  <2>2. w \in Work /\ w.rv = work[m].rv /\ w.pc = "confirm" /\ work' = [work EXCEPT ![m] = w]
    BY <1>2, <2>1 DEF Work, Phases
  <2>3. UNCHANGED queued
    BY <1>6 DEF Apply, ApplyFails, clusterVars
  <2> HIDE DEF w
  <2> QED BY <1>1, <2>2, <2>3, QuietServes
<1>7. CASE EndStep(m)
  <2> DEFINE w == [work[m] EXCEPT !.pc = "engine", !.ok = FALSE]
  <2>1. w \in Work /\ w.rv = work[m].rv /\ w.pc = "engine"
    BY <1>2 DEF Work, Phases
  <2>2. GiveUp(m) \/ (UNCHANGED queued /\ \E r : Save(m, After(m, r), {}, w))
    BY <1>7 DEF EndStep
  <2> HIDE DEF w
  <2>3. (\E r : Save(m, After(m, r), {}, w)) => \E res, pending : Save(m, res, pending, w)
    OBVIOUS
  <2> QED BY <1>1, <1>3, <2>1, <2>2, <2>3, SaveServes
<1>8. CASE EngineDone(m)
  <2> DEFINE w == [work[m] EXCEPT !.pc = "result"]
  <2>1. w \in Work /\ w.rv = work[m].rv /\ w.pc = "result"
    BY <1>2 DEF Work, Phases
  <2>2. CloseSnapshots(m, w) /\ UNCHANGED queued
    BY <1>8 DEF EngineDone
  <2> HIDE DEF w
  <2> QED BY <1>1, <2>1, <2>2, SaveServes
<1> QED BY <1>3, <1>4, <1>5, <1>6, <1>7, <1>8 DEF Engine, Refuse, Abandon

\* The end of a reconciliation: the object is released, or a conflict retries, or
\* nothing is left to do.
LEMMA ReleaseServes ==
  ASSUME TypeOK, Sound, NEW m \in Managers, Release(m)
  PROVE  Serves(m)
<1>1. At(m, "release") /\ ~At(m, "idle") /\ UNCHANGED seen
  BY DEF Release, At
<1>2. /\ work \in [Managers -> Work] /\ queued \in [Managers -> BOOLEAN] /\ Idle.pc = "idle"
      /\ objs \in Seq(ObjectVersion) /\ objs # <<>>
  BY DEF TypeOK, Idle
<1>3. CASE Fresh(m) /\ objs' = Append(objs, Released(Obj(m))) /\ Return(m, FALSE)
  <2>1. Obj(m) \in ObjectVersion /\ Obj(m).observed <= Obj(m).gen
    BY HeldTyped
  <2>2. Released(Obj(m)) \in ObjectVersion /\ ~Released(Obj(m)).there
    BY <2>1, Edits DEF Edit
  <2>3. ~Cur(objs').there
    BY <1>2, <1>3, <2>2, LogAppend
  <2> QED BY <1>1, <1>2, <1>3, <2>3 DEF Serves, Return
<1>4. CASE GiveUp(m)
  BY <1>1, <1>4, GivesUp
<1>5. CASE ~RemovesFinalizer(Obj(m)) /\ Return(m, Requeues(m)) /\ UNCHANGED objs
  <2>1. /\ work' = [work EXCEPT ![m] = Idle]
        /\ queued' = [queued EXCEPT ![m] = @ \/ Requeues(m)]
    BY <1>5 DEF Return
  <2>2. \/ queued'[m]
        \/ UNCHANGED queued
    BY <1>2, <2>1
  <2>3. ~Obj(m).deleting
    <3>1. Obj(m).fin
      BY <1>1 DEF Sound, Holding, Guarded, At
    <3> QED BY <1>5, <3>1 DEF RemovesFinalizer
  <2> QED BY <1>1, <1>2, <1>5, <2>1, <2>2, <2>3 DEF Serves, Rests
<1> QED BY <1>3, <1>4, <1>5 DEF Release

\* The worker goes on after a flush whose answer was lost.
LEMMA FlushLostServes ==
  ASSUME TypeOK, NEW m \in Managers, FlushLost(m)
  PROVE  Serves(m)
<1>1. ~At(m, "idle") /\ UNCHANGED <<objs, seen, queued>>
  BY DEF FlushLost, Finished, At
<1>2. CASE work' = [work EXCEPT ![m] = Previewed(m)]
  BY <1>1, <1>2, PreviewedIs, QuietServes
<1>3. CASE Finished(m) /\ Goto(m, "result")
  <2> DEFINE w == [work[m] EXCEPT !.pc = "result"]
  <2>1. w \in Work /\ w.rv = work[m].rv /\ w.pc = "result" /\ work' = [work EXCEPT ![m] = w]
    BY <1>3, FinishedIs DEF Goto
  <2> HIDE DEF w
  <2> QED BY <1>1, <2>1, QuietServes
<1> QED BY <1>2, <1>3 DEF FlushLost

\* Failures: a call or an operation that fails and an answer that is lost end in a
\* retry, and a manager that starts again queues the object it lists.
LEMMA FaultServes ==
  ASSUME TypeOK, NEW m \in Managers, Fault(m)
  PROVE  Serves(m)
<1>1. CASE ApplyFails(m)
  BY <1>1, EngineServes
<1>2. CASE CallFails(m) \/ OperationFails(m) \/ AnswerLost(m)
  BY <1>2, GivesUp DEF CallFails, OperationFails, Abandon, AnswerLost
<1>3. CASE Crash(m)
  <2>1. /\ work' = [work EXCEPT ![m] = Idle] /\ work \in [Managers -> Work]
        /\ seen' = [seen EXCEPT ![m] = [obj |-> Len(objs), secret |-> Len(secrets)]]
        /\ queued' = [queued EXCEPT ![m] = Cur(objs).there]
        /\ seen \in [Managers -> [obj : 1..Len(objs), secret : 1..Len(secrets)]]
        /\ queued \in [Managers -> BOOLEAN] /\ objs' = objs /\ Idle.pc = "idle"
    BY <1>3 DEF Crash, TypeOK, Idle
  <2>2. Cur(objs').there = Cur(objs).there /\ Cur(objs).there \in BOOLEAN
    BY <2>1, CurTyped DEF ObjectVersion
  <2>3. queued'[m] = Cur(objs).there
    BY <2>1
  <2> QED BY <2>1, <2>2, <2>3 DEF Serves
<1> QED BY <1>1, <1>2, <1>3, FlushLostServes DEF Fault

\* No step of a worker, whatever fails in it, drops a request.
LEMMA WorkersServe ==
  ASSUME TypeOK, Sound, Onwards, NEW m \in Managers, Step(m) \/ Fault(m)
  PROVE  Serves(m)
<1>1. History
  BY DEF Sound
<1> QED BY <1>1, StartServes, AddFinalizerServes, StatusServes, LoadStackServes, EngineServes,
           ReleaseServes, FaultServes DEF Step

----------------------------------------------------------------------------
(* Nothing is forgotten.                                                   *)

\* The grounds on which the key of manager m may be out of the queue.
Excused(m) ==
  IF At(m, "idle") THEN ~Shown(m).deleting /\ Shown(m).gen <= Cur(objs).observed
                   ELSE Shown(m).gen <= Obj(m).gen

\* A manager that a step of another, or of the world, leaves alone is as excused as
\* it was.
LEMMA StaysExcused ==
  ASSUME TypeOK, ObjsGrow, SecretsGrow, NEW n \in Managers, work'[n] = work[n],
         seen'[n].obj = seen[n].obj, Excused(n)
  PROVE  Excused(n)'
<1>1. /\ Obj(n)' = Obj(n) /\ seen[n].obj \in 1..Len(objs)
      /\ \A i \in 1..Len(objs) : objs'[i] = objs[i]
  BY Bystander, Grown DEF TypeOK
<1>2. Shown(n)' = Shown(n)
  BY <1>1 DEF Shown
<1>3. /\ Cur(objs)' = Cur(objs') /\ Cur(objs').observed >= Cur(objs).observed
      /\ Cur(objs').observed \in Nat /\ Cur(objs).observed \in Nat
  BY CurGrows DEF Cur
<1>4. Shown(n).gen \in Nat
  <2>1. objs[seen[n].obj] \in ObjectVersion
    BY <1>1, LogCur DEF TypeOK
  <2> QED BY <2>1 DEF Shown, ObjectVersion
<1> QED BY <1>1, <1>2, <1>3, <1>4 DEF Excused, At

\* The versions a cache shows and a worker holds are of the log's history.
LEMMA ShownTold ==
  ASSUME TypeOK, Sound, NEW m \in Managers
  PROVE  /\ Shown(m) \in ObjectVersion /\ Shown(m).gen <= Cur(objs).gen
         /\ Shown(m).deleting => Cur(objs).deleting
         /\ Shown(m).deleting /\ Shown(m).gen <= Obj(m).gen => Obj(m).deleting
         /\ seen[m].obj \in 1..Len(objs) /\ work[m].rv \in 1..Len(objs)
<1>1. seen[m].obj \in 1..Len(objs) /\ work[m].rv \in 1..Len(objs)
  BY DEF TypeOK
<1> QED BY <1>1, LogCur DEF Shown, Obj, Sound, History, TypeOK

\* A step of a worker leaves it excused, or with its key in the queue.
LEMMA WorkerExcused ==
  ASSUME TypeOK, Sound, Attended, ObjsGrow, SecretsGrow, NEW m \in Managers, Serves(m),
         Cur(objs').there, ~queued'[m]
  PROVE  Excused(m)'
<1>1. /\ Cur(objs).there /\ \A i \in 1..Len(objs) : objs'[i] = objs[i]
      /\ Cur(objs').observed >= Cur(objs).observed /\ Cur(objs)' = Cur(objs')
      /\ Cur(objs').observed \in Nat /\ Cur(objs).observed \in Nat
  BY CurGrows, Grown DEF Cur
<1>2. /\ Shown(m) \in ObjectVersion /\ seen[m].obj \in 1..Len(objs)
      /\ work[m].rv \in 1..Len(objs)
      /\ Shown(m).deleting /\ Shown(m).gen <= Obj(m).gen => Obj(m).deleting
  BY ShownTold
<1>3. CASE Takes(m)
  <2>1. Obj(m)' = Shown(m)'
    BY <1>3 DEF Takes, Obj, Shown
  <2>2. Shown(m)'.gen <= Obj(m)'.gen
    BY <1>2, <1>3, <2>1 DEF Takes, Shown, ObjectVersion
  <2> QED BY <1>3, <2>2 DEF Takes, Excused, At
<1>4. CASE GoesOn(m)
  <2>1. Shown(m)' = Shown(m) /\ ~queued[m]
    BY <1>1, <1>2, <1>4 DEF GoesOn, Shown
  <2>2. Shown(m).gen <= Obj(m).gen
    BY <1>1, <1>4, <2>1 DEF Attended, GoesOn
  <2> QED BY <1>4, <2>1, <2>2 DEF GoesOn, Excused, At
<1>5. CASE Rests(m)
  <2>1. Shown(m)' = Shown(m) /\ ~queued[m] /\ At(m, "release") /\ ~At(m, "idle")
    BY <1>1, <1>2, <1>5 DEF Rests, Shown, At
  <2>2. Shown(m).gen <= Obj(m).gen /\ Obj(m).observed = Obj(m).gen
    BY <1>1, <2>1 DEF Attended
  <2>3. Obj(m).observed <= Cur(objs).observed
    BY <1>2 DEF Attended, Onwards, Obj
  <2>4. ~Shown(m).deleting
    BY <1>2, <1>5, <2>2 DEF Rests
  <2>5. Shown(m).gen <= Cur(objs)'.observed
    BY <1>1, <1>2, <2>2, <2>3, HeldTyped DEF ObjectVersion
  <2> QED BY <1>5, <2>1, <2>4, <2>5 DEF Rests, Excused, At
<1> QED BY <1>3, <1>4, <1>5 DEF Serves

\* So does an event that the cache delivers: one that GenerationChangedPredicate
\* filters out shows the generation, and the deletion mark, shown before.
LEMMA EventExcused ==
  ASSUME TypeOK, Sound, Attended, NEW m \in Managers, WatchObject(m),
         UNCHANGED <<work, objs>>, Cur(objs).there, ~queued'[m]
  PROVE  Excused(m)'
<1> DEFINE i == seen[m].obj
<1>1. /\ i \in 1..Len(objs) /\ i + 1 \in 1..Len(objs) /\ Len(objs) \in Nat
  BY LogCur DEF TypeOK, WatchObject
<1>2. /\ seen'[m].obj = i + 1 /\ ~queued[m] /\ ~Notable(objs[i], objs[i + 1])
  BY DEF WatchObject, TypeOK
<1>3. objs[i].gen = objs[i + 1].gen /\ Shown(m) = objs[i] /\ Shown(m)' = objs[i + 1]
  BY <1>2 DEF Notable, Shown
<1>4. objs[i + 1].deleting => objs[i].deleting
  <2>1. objs[i + 1].gen <= objs[i].gen
    <3>1. objs[i] \in ObjectVersion
      BY <1>1, LogCur DEF TypeOK
    <3> QED BY <1>3, <3>1 DEF ObjectVersion
  <2> QED BY <1>1, <2>1 DEF Sound, History
<1>5. Excused(m)
  BY <1>2 DEF Attended, Excused
<1>6. Obj(m)' = Obj(m) /\ Cur(objs)' = Cur(objs)
  BY DEF Obj, Cur
<1> HIDE DEF i
<1> QED BY <1>3, <1>4, <1>5, <1>6 DEF Excused, At

\* What a step is for the queue: a worker serves its request, an event moves one
\* cache, or the caches, the queue and the workers stay as they are.
LEMMA StepsOfTheQueue ==
  ASSUME TypeOK, Sound, Onwards, [Next]_vars
  PROVE  /\ ObjsGrow /\ SecretsGrow
         /\ \/ \E m \in Managers : Serves(m)
            \/ \E m \in Managers : WatchObject(m) /\ UNCHANGED <<work, objs>>
            \/ /\ UNCHANGED <<work, queued>>
               /\ \A n \in Managers : seen'[n].obj = seen[n].obj
<1>1. ObjsGrow /\ SecretsGrow
  BY Steps DEF WorkerStep, WorldStep
<1>2. ASSUME NEW m \in Managers, Step(m) \/ Fault(m)
      PROVE  \E k \in Managers : Serves(k)
  BY <1>2, WorkersServe
<1>3. ASSUME World, UNCHANGED <<stackVars, faults>>
      PROVE  \/ \E m \in Managers : WatchObject(m) /\ UNCHANGED <<work, objs>>
             \/ /\ UNCHANGED <<work, queued>>
                /\ \A n \in Managers : seen'[n].obj = seen[n].obj
  <2>1. work' = work
    BY <1>3 DEF stackVars
  <2>2. CASE User \/ CollectGarbage
    BY <2>1, <2>2 DEF User, EditSpec, Delete, Touch, CollectGarbage
  <2>3. ASSUME NEW m \in Managers, WatchObject(m)
        PROVE  WatchObject(m) /\ UNCHANGED <<work, objs>>
    BY <2>1, <2>3 DEF WatchObject
  <2>4. ASSUME NEW m \in Managers, WatchSecret(m)
        PROVE  /\ UNCHANGED <<work, queued>>
               /\ \A n \in Managers : seen'[n].obj = seen[n].obj
    BY <2>1, <2>4 DEF WatchSecret, TypeOK
  <2> QED BY <1>3, <2>2, <2>3, <2>4 DEF World
<1>4. ASSUME UNCHANGED vars
      PROVE  /\ UNCHANGED <<work, queued>>
             /\ \A n \in Managers : seen'[n].obj = seen[n].obj
  <2>1. UNCHANGED <<work, queued, seen>>
    BY <1>4 DEF vars, clusterVars, stackVars
  <2> QED BY <2>1
<1> QED BY <1>1, <1>2, <1>3, <1>4 DEF Next

\* The invariant that nothing is forgotten is inductive.
LEMMA AttendedStep ==
  ASSUME TypeOK, Sound, Attended, [Next]_vars
  PROVE  Attended'
<1>1. Onwards /\ ObjsGrow /\ SecretsGrow
  BY StepsOfTheQueue DEF Attended
<1>2. Onwards' /\ (Cur(objs)'.there => Cur(objs).there) /\ Cur(objs)' = Cur(objs')
  BY <1>1, OnwardsGrows, CurGrows DEF Cur
<1>3. ASSUME NEW n \in Managers, At(n, "release")'
      PROVE  Obj(n)'.observed = Obj(n)'.gen
  <2>1. CASE work'[n] = work[n]
    BY <1>1, <1>3, <2>1, Bystander DEF Attended, At
  <2>2. CASE Serves(n)
    BY <1>3, <2>2 DEF Serves, At
  <2> QED BY <1>1, <2>1, <2>2, StepsOfTheQueue DEF Serves
<1>4. ASSUME NEW n \in Managers, ~queued'[n], Cur(objs)'.there
      PROVE  Excused(n)'
  <2>1. CASE Serves(n)
    BY <1>1, <1>2, <1>4, <2>1, WorkerExcused
  <2>2. CASE WatchObject(n) /\ UNCHANGED <<work, objs>>
    BY <1>2, <1>4, <2>2, EventExcused
  <2>3. CASE work'[n] = work[n] /\ queued'[n] = queued[n] /\ seen'[n].obj = seen[n].obj
    <3>1. Excused(n)
      BY <1>2, <1>4, <2>3 DEF Attended, Excused
    <3> QED BY <1>1, <2>3, <3>1, StaysExcused
  <2>4. ASSUME NEW m \in Managers, n # m, WatchObject(m), UNCHANGED work
        PROVE  work'[n] = work[n] /\ queued'[n] = queued[n] /\ seen'[n].obj = seen[n].obj
    BY <2>4 DEF WatchObject, TypeOK
  <2> QED BY <1>1, <2>1, <2>2, <2>3, <2>4, StepsOfTheQueue DEF Serves
<1> QED BY <1>2, <1>3, <1>4 DEF Attended, Excused

\* At the start every key is queued and every worker idle.
LEMMA InitiallyAttended ==
  ASSUME Init
  PROVE  Attended
<1>1. /\ Len(objs) = 1 /\ objs[1].observed = 0 /\ \A m \in Managers : queued[m]
      /\ \A m \in Managers : work[m].pc = "idle"
  BY DEF Init, ClusterInit, StackInit, Idle
<1>2. Onwards
  BY <1>1 DEF Onwards, Cur
<1> QED BY <1>1, <1>2 DEF Attended, At

\* What holds of the queue, for every number of managers and every failure.
LEMMA AttendedAlways == Spec => [](TypeOK /\ Sound /\ Attended)
<1>1. Init => TypeOK /\ Sound /\ Attended
  BY Initially, InitiallyAttended
<1>2. TypeOK /\ Sound /\ Attended /\ [Next]_vars => (TypeOK /\ Sound /\ Attended)'
  BY SoundStep, AttendedStep
<1> QED BY <1>1, <1>2, PTL DEF Spec

\* Managers that rest have left nothing undone: the object is not marked for
\* deletion and its status is for its generation (the requeues of ReconcileObject
\* and GenerationChangedPredicate), whatever crashed, failed or ran beside them.
THEOREM NeverForgets == Spec => []NothingForgotten
<1>1. TypeOK /\ Attended => NothingForgotten
  <2> SUFFICES ASSUME TypeOK, Attended, NEW m \in Managers, Quiet(m), Cur(objs).there
               PROVE  ~Cur(objs).deleting /\ Cur(objs).observed = Cur(objs).gen
    BY DEF NothingForgotten
  <2>1. Shown(m) = Cur(objs)
    BY DEF Quiet, Shown, Cur
  <2>2. ~Cur(objs).deleting /\ Cur(objs).gen <= Cur(objs).observed
    BY <2>1 DEF Quiet, Attended
  <2> QED BY <2>2, CurTyped DEF ObjectVersion
<1> QED BY <1>1, AttendedAlways, PTL

\* UpdateStatus never takes status.observedGeneration back, on whatever stale
\* version of the object it works.
THEOREM StatusOnwards == Spec => ObservedNeverGoesBackwards
<1>1. TypeOK /\ Sound /\ Attended /\ [Next]_vars =>
        [Cur(objs').observed >= Cur(objs).observed]_vars
  BY StepsOfTheQueue, CurGrows DEF Attended
<1> QED BY <1>1, AttendedAlways, PTL DEF Spec, ObservedNeverGoesBackwards

----------------------------------------------------------------------------
(* The whole invariant, and what status tells.                             *)

\* The invariant that the runs check is inductive and holds, unless the snapshot
\* manager drops pending operations when runEngineAction closes it.
THEOREM Inductive ==
  ASSUME "forget" \notin Flushes
  PROVE  Spec => []IInv
<1>1. TypeOK /\ Sound /\ Exact /\ Attended => IInv
  BY DEF IInv
<1> QED BY <1>1, Invariant, AttendedAlways, PTL

\* The version that a write of status puts in place of the one in memory.
LEMMA StatusWritten ==
  ASSUME TypeOK, Sound, [Next]_vars, NEW m \in Managers, WritesStatus(m)
  PROVE  /\ Fresh(m)
         /\ \/ At(m, "plan") /\ Cur(objs') = Planned(Obj(m), work[m].changes)
            \/ At(m, "result") /\ Cur(objs') = Executed(Obj(m))
<1>1. /\ work'[m] # work[m] /\ objs' # objs
      /\ At(m, "plan") \/ At(m, "result")
      /\ Step(m) \/ Fault(m)
  BY OwnStep DEF WritesStatus
<1>2. PlanStatus(m) \/ ResultStatus(m) \/ AnswerLost(m)
  BY <1>1 DEF Step, Fault, Start, AddFinalizer, Release, LoadStack, Preview, Engine, Refuse,
     BeginStep, Apply, EndStep, EngineDone, ApplyFails, CallFails, OperationFails, FlushLost,
     Crash, At, clusterVars
<1>3. /\ Fresh(m)
      /\ \/ At(m, "plan") /\ objs' = Written(Planned(Obj(m), work[m].changes))
         \/ At(m, "result") /\ objs' = Written(Executed(Obj(m)))
  BY <1>1, <1>2 DEF PlanStatus, ResultStatus, AnswerLost, PutObject, At
<1>4. /\ Obj(m) \in ObjectVersion /\ Obj(m).observed <= Obj(m).gen
      /\ work[m].changes \in BOOLEAN
  BY HeldTyped, WorkEdits
<1>5. /\ Planned(Obj(m), work[m].changes) \in ObjectVersion
      /\ Executed(Obj(m)) \in ObjectVersion
  BY <1>4, Edits DEF Edit
<1>6. \A o \in ObjectVersion : objs' = Written(o) => Cur(objs') = o
  BY <1>1, LogAppend DEF Written, TypeOK
<1> QED BY <1>3, <1>5, <1>6

\* A status that says Ready, or has new outputs, is written for a version of the
\* object that the checkpoint in hand is provisioned for.
LEMMA TellsTheTruth ==
  ASSUME TypeOK, Sound, Exact, [Next]_vars, NEW m \in Managers, WritesStatus(m),
         Snap(m) = Cur(secrets),
         Cur(objs').ready = "True" \/ Cur(objs').out # Cur(objs).out
  PROVE  Provisioned(m)
<1>1. Cur(objs) = Obj(m) /\ Cur(objs).there
  BY StatusWritten, HeldTyped
<1>2. At(m, "result") \/ (At(m, "plan") /\ ~work[m].changes)
  <2>1. CASE At(m, "plan") /\ Cur(objs') = Planned(Obj(m), work[m].changes)
    <3>1. Obj(m) \in ObjectVersion
      BY HeldTyped
    <3>2. Cur(objs').out = Obj(m).out
      BY <2>1, <3>1 DEF Planned, ObjectVersion
    <3>3. work[m].changes => Cur(objs').ready = "False"
      BY <2>1, <3>1 DEF Planned, ObjectVersion
    <3> QED BY <1>1, <2>1, <3>2, <3>3
  <2> QED BY <2>1, StatusWritten
<1>3. Snap(m).res = Want(Obj(m))
  BY <1>2 DEF Sound, Finishing, At
<1> QED BY <1>1, <1>3 DEF Exact, CheckpointExact, Provisioned

\* What UpdateStatus writes with the current checkpoint in hand is true: Ready, or
\* the outputs of the generation, mean that the cloud is as the generation wants.
THEOREM TruthfulStatus ==
  ASSUME "forget" \notin Flushes
  PROVE  Spec => TrueWhenCurrent
<1>1. TypeOK /\ Sound /\ Exact /\ [Next]_vars =>
        [\A m \in Managers :
           WritesStatus(m) /\ Snap(m) = Cur(secrets)
               /\ (Cur(objs').ready = "True" \/ Cur(objs').out # Cur(objs).out)
             => Provisioned(m)]_vars
  BY TellsTheTruth
<1> QED BY <1>1, Invariant, PTL DEF TrueWhenCurrent, Spec
=============================================================================

----------------------- MODULE ReconcilerJournalProofs -----------------------
(***************************************************************************)
(* Reconciler implements Journal: every step of a manager, of the cluster  *)
(* or of a user is a step of the journal or changes nothing of it.         *)
(***************************************************************************)
EXTENDS ReconcilerProofs, ReconcilerJournal

\* A new object has no finalizer, no Secret and nothing in the cloud.
LEMMA JournalStarts ==
  ASSUME Init
  PROVE  J!Init
BY DEF Init, ClusterInit, StackInit, Cur, NoSecret, J!Init

\* A step that saves nothing and changes nothing in the cloud: the object gets
\* its finalizer, goes, or is written in a way the journal does not see.
LEMMA CalmIsJournal ==
  ASSUME TypeOK, Sound, ObjsGrow, SecretsGrow, UNCHANGED <<secrets, cloud>>, Cur(objs).there
  PROVE  [J!Next]_(J!journalVars)
<1>1. Cur(secrets') = Cur(secrets) /\ cloud' = cloud
  BY DEF Cur
<1>2. Cur(objs) \in ObjectVersion /\ Cur(objs') \in ObjectVersion
  <2>1. objs' \in Seq(ObjectVersion) /\ objs' # <<>>
    BY Grown
  <2> QED BY <2>1, LogCur, CurTyped
<1>3. Cur(objs').there /\ Cur(objs).fin => Cur(objs').fin
  <2>1. CASE objs' = objs
    BY <2>1
  <2>2. ASSUME NEW o \in ObjectVersion, NextVersion(o), objs' = Append(objs, o)
        PROVE  <1>3
    <3>1. Cur(objs') = o
      BY <2>2, LogAppend DEF TypeOK
    <3> QED BY <2>2, <3>1 DEF NextVersion
  <2> QED BY <2>1, <2>2 DEF ObjsGrow
<1>4. CASE ~Cur(objs').there
  <2>1. ~Cur(objs).fin => Cur(secrets).res = {} /\ cloud = {}
    <3>1. Cur(secrets) = NoSecret \/ Cur(secrets).there
      BY LogCur DEF TypeOK, Sound, AbsentIsEmpty, Cur
    <3> QED BY <3>1 DEF Sound, FinalizerGuardsCloud, NoSecret
  <2>2. J!LetGo
    BY <1>1, <1>2, <1>4, <2>1 DEF J!LetGo, ObjectVersion
  <2> QED BY <2>2 DEF J!Next
<1>5. CASE Cur(objs').there /\ Cur(objs').fin = Cur(objs).fin
  <2>1. UNCHANGED J!journalVars
    BY <1>1, <1>2, <1>5 DEF J!journalVars, ObjectVersion
  <2> QED BY <2>1
<1>6. CASE Cur(objs').there /\ Cur(objs').fin # Cur(objs).fin
  <2>1. ~Cur(objs).fin /\ Cur(objs').fin
    BY <1>2, <1>3, <1>6 DEF ObjectVersion
  <2>2. J!Hold
    BY <1>1, <1>2, <1>6, <2>1 DEF J!Hold, ObjectVersion
  <2> QED BY <2>2 DEF J!Next
<1> QED BY <1>4, <1>5, <1>6

\* What a save means for the journal.
LEMMA SaveIsJournal ==
  ASSUME TypeOK, Sound, NEW m \in Managers, NEW res \in SUBSET Resources,
         NEW pending \in SUBSET Resources, SavedAs(m, res, pending)
  PROVE  /\ Cur(secrets').res = res /\ Cur(secrets').pending = pending
         /\ Cur(secrets).res = Snap(m).res /\ Cur(secrets).pending = Snap(m).pending
         /\ Cur(objs') = Cur(objs) /\ cloud' = cloud
         /\ Cur(objs).there => Cur(objs).fin
<1>1. Cur(secrets') = [there |-> TRUE, gen |-> Obj(m).gen, res |-> res, pending |-> pending]
  <2>1. Cur(secrets)' = Cur(secrets')
    BY DEF Cur
  <2> QED BY <2>1, SavedCur
<1>2. Matches(m) /\ objs' = objs /\ cloud' = cloud /\ Loaded(m)
  BY DEF SavedAs
<1>3. Guarded(m)
  BY <1>2 DEF Loaded, Guarded
<1> QED BY <1>1, <1>2, <1>3, MatchesCur, GuardedHasFinalizer

\* The save before a step writes the operation down.
LEMMA BeganIsJournal ==
  ASSUME TypeOK, Sound, NEW m \in Managers, NEW w, Began(m, w), Cur(objs).there
  PROVE  J!Next
<1>1. PICK r \in NextSteps(m) : SavedAs(m, Snap(m).res, {r})
  BY DEF Began
<1>2. Snap(m).pending = {} /\ r \in Resources /\ Snap(m).res \in SUBSET Resources
  BY <1>1, NextStepsTyped, HeldTyped DEF Began
<1> DEFINE one == {r}
<1>3. one \in SUBSET Resources /\ SavedAs(m, Snap(m).res, one)
  BY <1>1, <1>2
<1> HIDE DEF one
<1>4. /\ Cur(secrets').res = Snap(m).res /\ Cur(secrets').pending = one
      /\ Cur(secrets).res = Snap(m).res /\ Cur(secrets).pending = Snap(m).pending
      /\ Cur(objs') = Cur(objs) /\ cloud' = cloud /\ Cur(objs).fin
  BY <1>2, <1>3, SaveIsJournal
<1>5. J!Begin(r)
  BY <1>2, <1>4 DEF J!Begin, one
<1> QED BY <1>2, <1>5 DEF J!Next

\* The provider performs the operation written down.
LEMMA PerformedIsJournal ==
  ASSUME TypeOK, Exact, NEW m \in Managers, NEW w, Performed(m, w), Cur(objs).there
  PROVE  J!Next
<1>1. Mid(m) /\ objs' = objs /\ secrets' = secrets /\ cloud' = Effect(m)
  BY DEF Performed, Mid, At
<1>2. InStep(m)
  BY <1>1, Alone
<1>3. PICK r \in Resources : Snap(m).pending = {r} /\ Cur(secrets).pending = {r}
  BY <1>2 DEF InStep
<1>4. cloud' \in {cloud \cup {r}, cloud \ {r}}
  BY <1>1, <1>3 DEF Effect
<1>5. J!Perform(r)
  BY <1>1, <1>3, <1>4 DEF J!Perform, Cur
<1> QED BY <1>3, <1>5 DEF J!Next

\* The save after a step records what the cloud then has of it.
LEMMA EndedIsJournal ==
  ASSUME TypeOK, Sound, Exact, NEW m \in Managers, NEW w, Ended(m, w), Cur(objs).there
  PROVE  J!Next
<1>1. At(m, "confirm") /\ Mid(m)
  BY DEF Ended, Mid, At
<1>2. InStep(m)
  BY <1>1, Alone
<1>3. PICK r \in Resources : /\ Snap(m).pending = {r} /\ Cur(secrets).pending = {r}
                             /\ work[m].ok => (r \in cloud <=> r \in Want(Obj(m)))
                             /\ ~work[m].ok => (r \in cloud <=> r \in Snap(m).res)
  BY <1>1, <1>2 DEF InStep
<1> DEFINE none == {}
           left == (Snap(m).res \ {r}) \cup (cloud \cap {r})
<1>4. none \in SUBSET Resources /\ left \in SUBSET Resources
  BY HeldTyped DEF TypeOK
<1>5. SavedAs(m, left, none)
  <2>1. CASE work[m].ok
    <3>1. left = After(m, r)
      BY <1>3, <2>1 DEF After
    <3> HIDE DEF left
    <3> QED BY <1>3, <2>1, <3>1 DEF Ended
  <2>2. CASE ~work[m].ok
    <3>1. left = Snap(m).res
      BY <1>3, <2>2
    <3> HIDE DEF left
    <3> QED BY <2>2, <3>1 DEF Ended
  <2> QED BY <2>1, <2>2
<1> HIDE DEF none, left
<1>6. /\ Cur(secrets').res = left /\ Cur(secrets').pending = none
      /\ Cur(secrets).res = Snap(m).res /\ Cur(objs') = Cur(objs) /\ cloud' = cloud
  BY <1>4, <1>5, SaveIsJournal
<1>7. J!Conclude(r)
  BY <1>3, <1>6 DEF J!Conclude, none, left
<1> QED BY <1>3, <1>7 DEF J!Next

\* Every step is one of the journal or a stutter.
LEMMA StepIsJournal ==
  ASSUME TypeOK, Sound, Exact, "forget" \notin Flushes, [Next]_vars
  PROVE  [J!Next]_(J!journalVars)
<1>1. (WorldStep \/ \E m \in Managers : WorkerStep(m))
  BY Steps
<1>2. ObjsGrow /\ SecretsGrow
  BY <1>1 DEF WorldStep, WorkerStep
<1>3. CASE ~Cur(objs).there
  <2>1. ~Cur(objs').there
    BY <1>2, <1>3, Grown
  <2>2. J!Afterwards
    BY <1>3, <2>1 DEF J!Afterwards
  <2> QED BY <2>2 DEF J!Next
<1>4. CASE Cur(objs).there /\ WorldStep
  BY <1>2, <1>4, CalmIsJournal DEF WorldStep
<1>5. ASSUME NEW m \in Managers, NEW w \in Work, Affected(m, w), Cur(objs).there
      PROVE  [J!Next]_(J!journalVars)
  <2>1. CASE NoEffect(m, w)
    BY <1>2, <1>5, <2>1, CalmIsJournal DEF NoEffect
  <2>2. CASE Kept(m, w)
    <3>1. /\ SavedAs(m, Snap(m).res, Snap(m).pending)
          /\ Snap(m).res \in SUBSET Resources /\ Snap(m).pending \in SUBSET Resources
      BY <2>2, HeldTyped DEF Kept
    <3>2. /\ Cur(secrets').res = Cur(secrets).res /\ Cur(secrets').pending = Cur(secrets).pending
          /\ Cur(objs') = Cur(objs) /\ cloud' = cloud
      BY <3>1, SaveIsJournal
    <3>3. UNCHANGED J!journalVars
      BY <3>2 DEF J!journalVars
    <3> QED BY <3>3
  <2> QED BY <1>5, <2>1, <2>2, BeganIsJournal, PerformedIsJournal, EndedIsJournal
          DEF Affected, Forgot
<1> QED BY <1>1, <1>3, <1>4, <1>5 DEF WorkerStep

\* ReconcileObject, run by any number of managers over kubeStack.Save and the
\* Secret, implements the journal, unless the snapshot manager drops pending
\* operations when runEngineAction closes it.
THEOREM Implements ==
  ASSUME "forget" \notin Flushes
  PROVE  Spec => IsJournal
<1>1. Init => J!Init
  BY JournalStarts
<1>2. TypeOK /\ Sound /\ Exact /\ [Next]_vars => [J!Next]_(J!journalVars)
  BY StepIsJournal
<1> QED BY <1>1, <1>2, Invariant, PTL DEF Spec, IsJournal, J!Spec

\* What is written down and then performed is what differs: the journal alone, by
\* whichever steps it came about, makes the checkpoint exact.
THEOREM JournalIsExact == IsJournal => []CheckpointExact
<1>1. J!Init => CheckpointExact
  BY DEF J!Init, CheckpointExact
<1>2. ASSUME CheckpointExact, [J!Next]_(J!journalVars)
      PROVE  CheckpointExact'
  <2>1. CASE J!Hold
    BY <1>2, <2>1 DEF J!Hold, CheckpointExact
  <2>2. CASE J!LetGo \/ J!Afterwards
    BY <2>2 DEF J!LetGo, J!Afterwards, CheckpointExact
  <2>3. ASSUME NEW r \in Resources, J!Begin(r) PROVE CheckpointExact'
    BY <1>2, <2>3 DEF J!Begin, CheckpointExact
  <2>4. ASSUME NEW r \in Resources, J!Perform(r) PROVE CheckpointExact'
    BY <1>2, <2>4 DEF J!Perform, CheckpointExact
  <2>5. ASSUME NEW r \in Resources, J!Conclude(r) PROVE CheckpointExact'
    BY <1>2, <2>5 DEF J!Conclude, CheckpointExact
  <2>6. CASE UNCHANGED J!journalVars
    BY <1>2, <2>6 DEF J!journalVars, CheckpointExact
  <2> QED BY <1>2, <2>1, <2>2, <2>3, <2>4, <2>5, <2>6 DEF J!Next
<1> QED BY <1>1, <1>2, PTL DEF IsJournal, J!Spec
=============================================================================

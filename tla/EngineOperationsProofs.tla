----------------------- MODULE EngineOperationsProofs -----------------------
(***************************************************************************)
(* EngineEvents implements Operations: of all that the goroutines of an    *)
(* operation do, only the call, its failure and the read of what it found  *)
(* are to be seen by the rest of the reconciliation.                       *)
(***************************************************************************)
EXTENDS EngineEventsProofs, EngineOperations

\* What an operation has answered, case by case.
LEMMA AnswerIs ==
  ASSUME TypeOK, NEW o \in Ops
  PROVE  /\ shown[o] \in StackChanges => Answer(o) = changes[o]
         /\ shown[o] = Failed /\ phase = "end" => Answer(o) = Failed
         /\ shown[o] \notin StackChanges /\ (shown[o] = None \/ phase # "end") => Answer(o) = None
BY EngineEventsAssumption DEF EngineEventsAssumption, Answer, TypeOK

\* At first neither operation has been called.
LEMMA CallsStart ==
  ASSUME Init
  PROVE  O!Init
BY EngineEventsAssumption DEF EngineEventsAssumption, Init, O!Init, Stage, Answer, Ops

\* A step in which no operation begins, fails or is read, and which leaves the
\* changes that were read, is not to be seen.
LEMMA UnseenStep ==
  ASSUME TypeOK, TypeOK', UNCHANGED <<op, shown>>, (phase = "call") = (phase' = "call"),
         (phase = "end") = (phase' = "end"),
         \A o \in Ops : shown[o] \in StackChanges => changes'[o] = changes[o]
  PROVE  UNCHANGED O!operationVars
<1>1. Stage' = Stage
  BY DEF Stage
<1>2. ASSUME NEW o \in Ops PROVE Answer(o)' = Answer(o)
  BY DEF Answer
<1> QED BY <1>1, <1>2 DEF O!operationVars

\* Only the operation that is ending can have failed.
FailedLast ==
    \A o \in Ops : shown[o] = Failed => op = o /\ phase \in {"close", "farewell", "read", "end"}

LEMMA FailedInit == ASSUME Init PROVE FailedLast
BY EngineEventsAssumption DEF EngineEventsAssumption, Init, FailedLast

\* A failure ends the operation, and with it the reconciliation.
LEMMA FailedNext ==
  ASSUME EventsInv, FailedLast, [Next]_vars
  PROVE  FailedLast'
<1> USE DEF FailedLast
<1>1. TypeOK
  BY DEF EventsInv
<1>2. CASE Call
  BY <1>2 DEF Call
<1>3. CASE EmitOutputs \/ CloseEmitter \/ Farewell
  BY <1>3 DEF EmitOutputs, CloseEmitter, Farewell
<1>4. CASE Finish \/ Fail
  <2>1. op \in Ops /\ op' = op /\ phase = "run" /\ phase' = "close"
    BY <1>1, <1>4 DEF Finish, Fail, TypeOK
  <2>2. \A o \in Ops : shown[o] # Failed
    BY <2>1
  <2>3. shown' = shown \/ shown' = [shown EXCEPT ![op] = Failed]
    BY <1>4 DEF Finish, Fail
  <2> QED BY <1>1, <2>1, <2>2, <2>3 DEF TypeOK
<1>5. CASE Read
  <2>1. CASE shown[op] = Failed /\ phase' = "end" /\ UNCHANGED <<op, shown>>
    BY <2>1
  <2>2. CASE shown[op] # Failed /\ shown' = [shown EXCEPT ![op] = changes[op]]
    <3>1. op \in Ops /\ changes[op] # Failed
      BY <1>1, EngineEventsAssumption DEF EngineEventsAssumption, TypeOK
    <3>2. \A o \in Ops : shown[o] # Failed
      BY <2>2
    <3> QED BY <1>1, <2>2, <3>1, <3>2 DEF TypeOK
  <2> QED BY <1>5, <2>1, <2>2 DEF Read
<1>6. CASE UNCHANGED <<op, phase, shown>>
  BY <1>6
<1> QED BY <1>2, <1>3, <1>4, <1>5, <1>6 DEF Next, Engine, Aside, Forward, Handle, Watch,
        ProgramEnds, RunReturns, ContextDone, vars

\* The call of an operation, or its failure before the engine is called.
LEMMA CallIsBegin ==
  ASSUME EventsInv, EventsInv', FailedLast, Call
  PROVE  O!Begin
<1>1. TypeOK /\ TypeOK' /\ phase = "call" /\ phase' \in {"run", "end"}
      /\ UNCHANGED <<op, shown, changes>>
  BY DEF Call, EventsInv, flow
<1>2. Stage = "call" /\ Stage' \in {"running", "over"}
  BY <1>1 DEF Stage
<1>3. ASSUME NEW o \in Ops PROVE Answer(o)' = Answer(o)
  BY <1>1 DEF FailedLast, Answer
<1> QED BY <1>1, <1>2, <1>3 DEF O!Begin

\* The engine ends: whether it failed is not known before it is read.
LEMMA FinishUnseen ==
  ASSUME EventsInv, EventsInv', Finish \/ Fail
  PROVE  UNCHANGED O!operationVars
<1>1. /\ TypeOK /\ TypeOK' /\ phase = "run" /\ phase' = "close"
      /\ UNCHANGED <<op, changes>> /\ op \in Ops
      /\ shown' = shown \/ shown' = [shown EXCEPT ![op] = Failed]
  BY DEF Finish, Fail, EventsInv, TypeOK
<1>2. Stage' = Stage
  BY <1>1 DEF Stage
<1>3. shown[op] \notin StackChanges
  BY <1>1 DEF EventsInv, ShownLast
<1>4. ASSUME NEW o \in Ops PROVE Answer(o)' = Answer(o)
  <2>1. CASE shown'[o] = shown[o]
    BY <1>1, <2>1 DEF Answer
  <2>2. CASE shown'[o] # shown[o]
    <3>1. o = op /\ shown'[o] = Failed
      BY <1>1, <2>2 DEF TypeOK
    <3> QED BY <1>1, <1>3, <3>1, EngineEventsAssumption DEF EngineEventsAssumption, Answer
  <2> QED BY <2>1, <2>2
<1> QED BY <1>1, <1>2, <1>4 DEF O!operationVars

\* ReconcileObject reads that the operation failed, or what it found; then the
\* changes the engine reported are those that were filled in.
LEMMA ReadIsAnswer ==
  ASSUME EventsInv, EventsInv', FailedLast, Read
  PROVE  O!Next
<1>1. /\ TypeOK /\ TypeOK' /\ phase = "read" /\ op \in Ops /\ UNCHANGED <<changes, truth>>
      /\ changes[op] \in StackChanges /\ phase' \in {"end", "call"}
  BY DEF Read, EventsInv, TypeOK, flow
<1>2. Stage = "running"
  BY <1>1 DEF Stage
<1> DEFINE answers == [o \in Ops |-> Answer(o)]
<1>0. PICK q \in Ops : q = op
  BY <1>1
<1>3. CASE shown[op] = Failed /\ phase' = "end" /\ UNCHANGED <<op, shown>>
  <2>1. Stage' = "over"
    BY <1>3 DEF Stage
  <2>2. Answer(q)' = Failed
    BY <1>0, <1>3, EngineEventsAssumption DEF EngineEventsAssumption, Answer
  <2>3. ASSUME NEW o \in Ops, o # q PROVE Answer(o)' = Answer(o)
    <3>1. shown[o] # Failed
      BY <1>0, <2>3 DEF FailedLast
    <3> QED BY <1>1, <1>3, <3>1 DEF Answer
  <2>4. answers' = [answers EXCEPT ![op] = Failed]
    BY <1>0, <2>2, <2>3
  <2> QED BY <1>2, <1>3, <2>1, <2>4 DEF O!Next, O!Fail
<1>4. CASE /\ shown[op] # Failed
           /\ shown' = [shown EXCEPT ![op] = changes[op]]
           /\ \/ op = "preview" /\ truth[op].has /\ op' = "update" /\ phase' = "call"
              \/ phase' = "end" /\ UNCHANGED op
  <2>1. shown'[op] = changes[op] /\ \A o \in Ops : o # op => shown'[o] = shown[o]
    BY <1>1, <1>4 DEF TypeOK
  <2>2. changes[op] = truth[op]
    <3>1. shown'[op] \in StackChanges /\ ShownIsTrue'
      BY <1>1, <2>1 DEF EventsInv
    <3> QED BY <1>1, <2>1, <3>1 DEF ShownIsTrue
  <2>3. Answer(q)' = changes[q]
    BY <1>0, <1>1, <2>1 DEF Answer
  <2>4. ASSUME NEW o \in Ops, o # q PROVE Answer(o)' = Answer(o)
    <3>1. shown[o] # Failed
      BY <1>0, <1>4, <2>4 DEF FailedLast
    <3> QED BY <1>0, <1>1, <2>1, <2>4, <3>1 DEF Answer
  <2>5. answers' = [answers EXCEPT ![op] = changes[op]]
    BY <1>0, <2>3, <2>4
  <2>6. \/ op = "preview" /\ changes[op].has /\ op' = "update" /\ Stage' = "call"
        \/ Stage' = "over" /\ UNCHANGED op
    BY <1>4, <2>2 DEF Stage
  <2>7. O!Finish(changes[op])
    BY <1>2, <2>5, <2>6 DEF O!Finish
  <2> QED BY <1>1, <2>7 DEF O!Next
<1> QED BY <1>3, <1>4 DEF Read

\* The drain goroutine writes what is not read yet.
LEMMA HandleUnseen ==
  ASSUME EventsInv, EventsInv', NEW q \in Ops, Handle(q)
  PROVE  UNCHANGED O!operationVars
<1>1. UNCHANGED <<op, phase, shown>> /\ TypeOK /\ TypeOK'
  BY DEF Handle, EventsInv
<1>2. ASSUME NEW o \in Ops, shown[o] \in StackChanges PROVE changes'[o] = changes[o]
  <2>1. Done(o)
    BY <1>2 DEF EventsInv, ShownLast, Done
  <2>2. inbox[o] # <<>> => Head(inbox[o]).kind = "cancel"
    BY <2>1 DEF EventsInv, Quiet
  <2> QED BY <1>1, <2>2 DEF Handle, Drains, Applied, TypeOK
<1> QED BY <1>1, <1>2, UnseenStep

\* Every step of the goroutines is one of the operations' or is not seen.
LEMMA StepIsCall ==
  ASSUME EventsInv, EventsInv', FailedLast, [Next]_vars
  PROVE  [O!Next]_(O!operationVars)
<1>1. CASE Call
  BY <1>1, CallIsBegin DEF O!Next
<1>2. CASE Read
  BY <1>2, ReadIsAnswer
<1>3. CASE Finish \/ Fail
  BY <1>3, FinishUnseen
<1>4. ASSUME NEW o \in Ops, Handle(o) PROVE UNCHANGED O!operationVars
  BY <1>4, HandleUnseen
<1>5. CASE /\ UNCHANGED <<op, shown, changes>>
           /\ (phase = "call") = (phase' = "call") /\ (phase = "end") = (phase' = "end")
  BY <1>5, UnseenStep DEF EventsInv
<1> QED BY <1>1, <1>2, <1>3, <1>4, <1>5 DEF Next, Engine, EmitOutputs, CloseEmitter, Farewell,
        Aside, Forward, Watch, ProgramEnds, RunReturns, ContextDone, vars, flow

\* With all its goroutines an operation is one call that returns: the update is
\* run for changes that the preview's status showed, a failure ends it all, and
\* the StackChanges stay as ReconcileObject read them.
THEOREM OperationsAreCalls == Spec => IsCall
<1>1. Init => EventsInv /\ FailedLast
  BY EventsInit, FailedInit
<1>2. EventsInv /\ FailedLast /\ [Next]_vars => EventsInv' /\ FailedLast'
  BY EventsNext, FailedNext
<1>3. Init => O!Init
  BY CallsStart
<1>4. EventsInv /\ EventsInv' /\ FailedLast /\ [Next]_vars => [O!Next]_(O!operationVars)
  BY StepIsCall
<1> QED BY <1>1, <1>2, <1>3, <1>4, PTL DEF Spec, IsCall, O!Spec

=============================================================================

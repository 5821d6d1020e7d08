---------------------------- MODULE EngineEvents ----------------------------
(***************************************************************************)
(* One reconciliation's engine operations, a preview and perhaps an update,*)
(* as the goroutines around them see them: the engine and its event        *)
(* emitter, the goroutine that drains the events into a StackChanges, the  *)
(* one that passes the context's cancellation on, and the goroutine of the *)
(* Pulumi program.  ReconcileObject reads the StackChanges as soon as the  *)
(* operation has returned, without waiting for any of them.                *)
(*                                                                         *)
(* The engine (pulumi v3.4.0) is external: its emitter queues events, is   *)
(* closed once all are sent, and a cancel event is sent last of all.       *)
(***************************************************************************)
EXTENDS Naturals, Sequences

CONSTANTS
    Values,      \* what the stack's outputs can be
    None,        \* no outputs
    Failed,      \* in place of StackChanges: the operation failed
    MaxEvents    \* bound: resource events of an operation

VARIABLES
    op,        \* the operation ReconcileObject is in
    phase,     \* and how far it is
    program,   \* per operation: the goroutine of the program
    backlog,   \* per operation: events the emitter has not sent
    inbox,     \* per operation: events received and not handled
    emitted,   \* per operation: resource events emitted so far
    changes,   \* per operation: the StackChanges its handler fills
    truth,     \* per operation: what the engine has to report
    shown,     \* per operation: the StackChanges given to UpdateStatus
    watcher,   \* per operation: the goroutine that waits for the context
    ctxDone,   \* the context is cancelled
    stopped    \* a panic of the program has ended the process

flow == <<backlog, inbox, changes>>
vars == <<op, phase, program, flow, emitted, truth, shown, watcher, ctxDone, stopped>>

Ops == {"preview", "update"}
Phases == {"call", "run", "close", "farewell", "read", "end"}
StackChanges == [has : BOOLEAN, outputs : Values \cup {None}]
NoChanges == [has |-> FALSE, outputs |-> None]

ASSUME EngineEventsAssumption ==
    /\ None \notin Values
    /\ None \notin StackChanges /\ Failed \notin StackChanges \cup {None}
    /\ MaxEvents \in Nat

\* The payload of events that matter; any other event is a "cancel".
Event ==
    [kind : {"outputs"}, stack : BOOLEAN, new : Values \cup {None}]
      \cup [kind : {"summary"}, has : BOOLEAN] \cup [kind : {"cancel"}]

Init ==
    /\ op = "preview" /\ phase = "call"
    /\ program = [o \in Ops |-> "none"]
    /\ backlog = [o \in Ops |-> <<>>] /\ inbox = [o \in Ops |-> <<>>]
    /\ emitted = [o \in Ops |-> 0]
    /\ changes = [o \in Ops |-> NoChanges] /\ truth = [o \in Ops |-> NoChanges]
    /\ shown = [o \in Ops |-> None]
    /\ watcher = [o \in Ops |-> "none"]
    /\ ctxDone = FALSE /\ stopped = FALSE

----------------------------------------------------------------------------
(* The reconciler's goroutine, which runs the engine.                      *)

\* newUpdate and runEngineAction, up to the call of the engine.  Update runs
\* the program, Destroy does not; getTarget can fail.
Call ==
    /\ phase = "call"
    /\ \/ /\ phase' = "run"
          /\ watcher' = [watcher EXCEPT ![op] = "watching"]
          /\ \E p \in {"running", "none"} : program' = [program EXCEPT ![op] = p]
       \/ phase' = "end" /\ UNCHANGED <<program, watcher>>
    /\ UNCHANGED <<op, flow, emitted, truth, shown, ctxDone, stopped>>

Queue(e) == backlog' = [backlog EXCEPT ![op] = Append(@, e)]

\* A resource's outputs; only those of the stack, when it has any, are reported.
EmitOutputs ==
    /\ phase = "run" /\ emitted[op] < MaxEvents
    /\ emitted' = [emitted EXCEPT ![op] = @ + 1]
    /\ \E stack \in BOOLEAN, new \in Values \cup {None} :
         /\ Queue([kind |-> "outputs", stack |-> stack, new |-> new])
         /\ truth' = IF stack /\ new # None THEN [truth EXCEPT ![op].outputs = new] ELSE truth
    /\ UNCHANGED <<op, phase, program, inbox, changes, shown, watcher, ctxDone, stopped>>

\* The engine is done, with a summary, once Run has returned without an error.
Finish ==
    /\ phase = "run" /\ phase' = "close"
    /\ program[op] \in {"none", "ended"}
    /\ \E has \in BOOLEAN :
         /\ Queue([kind |-> "summary", has |-> has])
         /\ truth' = [truth EXCEPT ![op].has = has]
    /\ UNCHANGED <<op, program, inbox, changes, emitted, shown, watcher, ctxDone, stopped>>

\* It fails, for an error of a step or a plugin, a cancellation, or the error that
\* Run returned; it does not wait for the program then.
Fail ==
    /\ phase = "run" /\ phase' = "close"
    /\ shown' = [shown EXCEPT ![op] = Failed]
    /\ UNCHANGED <<op, program, backlog, truth, inbox, changes, emitted, watcher, ctxDone, stopped>>

\* The emitter is closed once everything is sent.
CloseEmitter ==
    /\ phase = "close" /\ backlog[op] = <<>>
    /\ phase' = "farewell"
    /\ UNCHANGED <<op, program, flow, emitted, truth, shown, watcher, ctxDone, stopped>>

\* The channel has no buffer: an event is sent when its reader waits for it.
CanSend_Buffered(o) == Len(inbox[o]) < 2    \* mutant: make(chan engine.Event, 1)
CanSend(o) == inbox[o] = <<>>

\* The cancel event, the last one; then the operation returns, and `done' closes.
Farewell ==
    /\ phase = "farewell" /\ CanSend(op)
    /\ inbox' = [inbox EXCEPT ![op] = Append(@, [kind |-> "cancel"])]
    /\ phase' = "read"
    /\ UNCHANGED <<op, program, backlog, changes, emitted, truth, shown, watcher, ctxDone, stopped>>

\* ReconcileObject goes on: it returns on failure, or else updates status from
\* the StackChanges, and after a preview with changes runs the update, unless
\* the status update failed.
Read ==
    /\ phase = "read"
    /\ \/ shown[op] = Failed /\ phase' = "end" /\ UNCHANGED <<op, shown>>
       \/ /\ shown[op] # Failed
          /\ shown' = [shown EXCEPT ![op] = changes[op]]
          /\ \/ op = "preview" /\ truth[op].has /\ op' = "update" /\ phase' = "call"
             \/ phase' = "end" /\ UNCHANGED op
    /\ UNCHANGED <<program, flow, emitted, truth, watcher, ctxDone, stopped>>

----------------------------------------------------------------------------
(* The other goroutines.                                                   *)

\* The emitter's goroutine sends what is queued, in order.
Forward(o) ==
    /\ backlog[o] # <<>> /\ CanSend(o)
    /\ inbox' = [inbox EXCEPT ![o] = Append(@, Head(backlog[o]))]
    /\ backlog' = [backlog EXCEPT ![o] = Tail(@)]
    /\ UNCHANGED <<op, phase, program, changes, emitted, truth, shown, watcher, ctxDone, stopped>>

\* EngineEvent.
Applied_AnyResource(c, e) ==    \* mutant: whichever resource's outputs
    IF e.kind = "summary" THEN [c EXCEPT !.has = e.has]
    ELSE IF e.kind = "outputs" /\ e.new # None THEN [c EXCEPT !.outputs = e.new] ELSE c
Applied_NoSummary(c, e) ==    \* mutant: the summary is not looked at
    IF e.kind = "outputs" /\ e.stack /\ e.new # None THEN [c EXCEPT !.outputs = e.new] ELSE c
Applied(c, e) ==
    CASE e.kind = "summary" -> [c EXCEPT !.has = e.has]
      [] e.kind = "outputs" -> IF e.stack /\ e.new # None THEN [c EXCEPT !.outputs = e.new] ELSE c
      [] e.kind = "cancel" -> c

\* The drain goroutine ranges over the channel, which nobody closes.
Drains(o) == inbox[o] # <<>>

Handle(o) ==
    /\ Drains(o)
    /\ changes' = [changes EXCEPT ![o] = Applied(@, Head(inbox[o]))]
    /\ inbox' = [inbox EXCEPT ![o] = Tail(@)]
    /\ UNCHANGED <<op, phase, program, backlog, emitted, truth, shown, watcher, ctxDone, stopped>>

\* `done' is closed when runEngineAction returns.
Done_Never(o) == FALSE    \* mutant: close(done) is not deferred
Done(o) == ~(op = o /\ phase \in {"run", "close", "farewell"})

\* The select on the context and on `done'; cancelling an operation that has
\* returned has no effect.
Watch(o) ==
    /\ watcher[o] = "watching"
    /\ \/ ctxDone /\ watcher' = [watcher EXCEPT ![o] = "cancelled"]
       \/ Done(o) /\ watcher' = [watcher EXCEPT ![o] = "ended"]
    /\ UNCHANGED <<op, phase, program, flow, emitted, truth, shown, ctxDone, stopped>>

\* What the goroutine of the program sends: that it ended well, or an error, also
\* the one recovered from a panic with an error or a string.
Outcomes_Unrecovered == {"ending", "gone"}    \* mutant: a recovered panic is not sent
Outcomes == {"ending", "failing"}

\* A panic with anything else is panicked again and takes the process down.
ProgramEnds(o) ==
    /\ program[o] = "running"
    /\ \/ \E outcome \in Outcomes : program' = [program EXCEPT ![o] = outcome]
          /\ UNCHANGED stopped
       \/ stopped' = TRUE /\ UNCHANGED program
    /\ UNCHANGED <<op, phase, flow, emitted, truth, shown, watcher, ctxDone>>

\* Run, waiting on the channel, receives what the program sends.
RunReturns(o) ==
    /\ program[o] \in {"ending", "failing"}
    /\ program' = [program EXCEPT ![o] = IF @ = "ending" THEN "ended" ELSE "failed"]
    /\ UNCHANGED <<op, phase, flow, emitted, truth, shown, watcher, ctxDone, stopped>>

\* The manager is told to stop.
ContextDone ==
    /\ ~ctxDone /\ ctxDone' = TRUE
    /\ UNCHANGED <<op, phase, program, flow, emitted, truth, shown, watcher, stopped>>

Engine == Call \/ EmitOutputs \/ Finish \/ Fail \/ CloseEmitter \/ Farewell \/ Read
Aside(o) == Forward(o) \/ Handle(o) \/ Watch(o) \/ ProgramEnds(o) \/ RunReturns(o)

Next ==
    \/ ~stopped /\ Engine
    \/ ~stopped /\ \E o \in Ops : Aside(o)
    \/ ~stopped /\ ContextDone

Spec == Init /\ [][Next]_vars

\* Goroutines that can run do run and programs end; the engine ends an operation
\* whose program, if it has one, Run has returned from.  Nothing else need fail, and
\* nobody need cancel.
Fairness ==
    /\ WF_vars(~stopped /\ (Call \/ CloseEmitter \/ Farewell \/ Read))
    /\ WF_vars(~stopped /\ (Finish \/ (program[op] = "failed" /\ Fail)))
    /\ \A o \in Ops :
         /\ WF_vars(~stopped /\ Forward(o)) /\ WF_vars(~stopped /\ Handle(o))
         /\ WF_vars(~stopped /\ Watch(o))
         /\ WF_vars(~stopped /\ (ProgramEnds(o) \/ RunReturns(o)))

FairSpec == Spec /\ Fairness

----------------------------------------------------------------------------
(* Properties.                                                             *)

\* The goroutines' variables keep their types, and a channel without a buffer
\* holds one event.
TypeOK ==
    /\ op \in Ops /\ phase \in Phases
    /\ program \in [Ops -> {"none", "running", "ending", "failing", "ended", "failed"}]
    /\ backlog \in [Ops -> Seq(Event)] /\ inbox \in [Ops -> Seq(Event)]
    /\ \A o \in Ops : Len(inbox[o]) <= 1
    /\ emitted \in [Ops -> 0..MaxEvents]
    /\ changes \in [Ops -> StackChanges] /\ truth \in [Ops -> StackChanges]
    /\ shown \in [Ops -> StackChanges \cup {None, Failed}]
    /\ watcher \in [Ops -> {"none", "watching", "cancelled", "ended"}]
    /\ ctxDone \in BOOLEAN /\ stopped \in BOOLEAN

\* Status is updated from all the engine reported and nothing else: the read of
\* the StackChanges does not race with the goroutine that fills it, although
\* nothing in src/ orders them but the unbuffered channel of newUpdate.
ShownIsTrue ==
    \A o \in Ops : shown[o] \in StackChanges => shown[o] = truth[o]

Returned(o) == phase = "end" \/ (op = o /\ phase \in {"read", "end"}) \/ op # o

\* The goroutine that outlives the operation, for its channel is never closed,
\* writes nothing more to the StackChanges the reconciler has read.
NoLateWrite == [][\A o \in Ops : Returned(o) => changes'[o] = changes[o]]_vars

\* What was received and not handled, and then what the emitter has queued, turns
\* the StackChanges into what the engine has to report: no event is lost,
\* repeated or overtaken between the engine and the handler.
Received(o) ==
    IF inbox[o] = <<>> THEN changes[o] ELSE Applied(changes[o], Head(inbox[o]))
NothingLost ==
    \A o \in Ops : \E c \in [0..Len(backlog[o]) -> StackChanges] :
        /\ c[0] = Received(o) /\ c[Len(backlog[o])] = truth[o]
        /\ \A i \in 1..Len(backlog[o]) : c[i] = Applied(c[i - 1], backlog[o][i])

\* An operation returns, although nothing of it need fail: the engine never waits for
\* ever for a reader of its events, nor Run for the program's outcome, an error or a
\* recovered panic included; a panic that is not recovered ends the process.
OperationReturns == phase = "run" ~> phase \in {"read", "end"} \/ stopped

\* The goroutine that waits for the context does not outlive the operation.
WatcherEnds == phase = "end" ~> stopped \/ \A o \in Ops : watcher[o] # "watching"
=============================================================================

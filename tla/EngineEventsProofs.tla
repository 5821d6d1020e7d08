------------------------- MODULE EngineEventsProofs -------------------------
(***************************************************************************)
(* Proofs of the safety properties of EngineEvents for every set of values *)
(* and every number of events: what orders the reconciler's read of the    *)
(* StackChanges and the goroutine that fills them is the invariant below.  *)
(***************************************************************************)
EXTENDS EngineEvents, TLAPS

\* Outside the engine only the last event, the cancel event, can be unhandled.
Quiet ==
    \A o \in Ops : Done(o) =>
        backlog[o] = <<>> /\ (inbox[o] # <<>> => Head(inbox[o]).kind = "cancel")

\* Status is updated after the operation, and the preview's comes first.
ShownLast ==
    /\ \A o \in Ops : shown[o] \in StackChanges => op # o \/ phase = "end"
    /\ op = "preview" => shown["update"] = None
    /\ phase = "farewell" => backlog[op] = <<>>

\* The inductive invariant.
EventsInv == TypeOK /\ NothingLost /\ Quiet /\ ShownLast /\ ShownIsTrue

\* What turns the changes c into d is the events of b, in order.
Turns(c, b, d) ==
    \E f \in [0..Len(b) -> StackChanges] :
        /\ f[0] = c /\ f[Len(b)] = d
        /\ \A i \in 1..Len(b) : f[i] = Applied(f[i - 1], b[i])

\* Applying an event to changes gives changes.
LEMMA AppliedTyped ==
  ASSUME NEW c \in StackChanges, NEW e \in Event
  PROVE  Applied(c, e) \in StackChanges
<1>1. CASE e \in [kind : {"outputs"}, stack : BOOLEAN, new : Values \cup {None}]
  BY <1>1 DEF Applied, StackChanges
<1>2. CASE e \in [kind : {"summary"}, has : BOOLEAN]
  BY <1>2 DEF Applied, StackChanges
<1>3. CASE e \in [kind : {"cancel"}]
  BY <1>3 DEF Applied, StackChanges
<1> QED BY <1>1, <1>2, <1>3 DEF Event

\* No event turns changes into themselves, and into nothing else.
LEMMA TurnsNone ==
  ASSUME NEW c \in StackChanges, NEW d
  PROVE  Turns(c, <<>>, d) <=> c = d
<1>1. ASSUME c = d PROVE Turns(c, <<>>, d)
  <2> DEFINE f == [i \in 0..0 |-> c]
  <2>1. Len(<<>>) = 0 /\ f \in [0..0 -> StackChanges] /\ f[0] = c /\ f[0] = d
    BY <1>1
  <2> HIDE DEF f
  <2>2. \A i \in 1..0 : f[i] = Applied(f[i - 1], <<>>[i])
    OBVIOUS
  <2> QED BY <2>1, <2>2 DEF Turns
<1>2. ASSUME Turns(c, <<>>, d) PROVE c = d
  BY <1>2 DEF Turns
<1> QED BY <1>1, <1>2

\* One more event behind the others is applied last.
LEMMA TurnsAppend ==
  ASSUME NEW c, NEW b \in Seq(Event), NEW d, Turns(c, b, d), NEW e \in Event
  PROVE  Turns(c, Append(b, e), Applied(d, e))
<1>1. PICK f \in [0..Len(b) -> StackChanges] :
        /\ f[0] = c /\ f[Len(b)] = d
        /\ \A i \in 1..Len(b) : f[i] = Applied(f[i - 1], b[i])
  BY DEF Turns
<1> DEFINE n == Len(b)
           g == [i \in 0..(n + 1) |-> IF i \in 0..n THEN f[i] ELSE Applied(d, e)]
<1>2. n \in Nat /\ Len(Append(b, e)) = n + 1 /\ Append(b, e)[n + 1] = e
      /\ \A i \in 1..n : Append(b, e)[i] = b[i]
  OBVIOUS
<1>3. d \in StackChanges
  BY <1>1, <1>2
<1>4. Applied(d, e) \in StackChanges
  BY <1>3, AppliedTyped
<1>5. g \in [0..(n + 1) -> StackChanges]
  BY <1>1, <1>2, <1>4
<1>6. g[0] = c /\ g[n + 1] = Applied(d, e) /\ \A i \in 0..n : g[i] = f[i]
  BY <1>1, <1>2
<1>7. ASSUME NEW i \in 1..(n + 1) PROVE g[i] = Applied(g[i - 1], Append(b, e)[i])
  <2>1. CASE i \in 1..n
    BY <1>1, <1>2, <1>6, <2>1
  <2>2. CASE i = n + 1
    BY <1>1, <1>2, <1>6, <2>2
  <2> QED BY <1>2, <2>1, <2>2
<1> HIDE DEF g
<1> QED BY <1>2, <1>5, <1>6, <1>7 DEF Turns

\* The first event may be applied ahead of the others.
LEMMA TurnsHead ==
  ASSUME NEW c, NEW b \in Seq(Event), b # <<>>, NEW d, Turns(c, b, d)
  PROVE  Turns(Applied(c, Head(b)), Tail(b), d)
<1>1. PICK f \in [0..Len(b) -> StackChanges] :
        /\ f[0] = c /\ f[Len(b)] = d
        /\ \A i \in 1..Len(b) : f[i] = Applied(f[i - 1], b[i])
  BY DEF Turns
<1> DEFINE n == Len(b) - 1
           g == [i \in 0..n |-> f[i + 1]]
<1>2. n \in Nat /\ Len(b) = n + 1 /\ Len(Tail(b)) = n /\ Head(b) = b[1]
      /\ \A i \in 1..n : Tail(b)[i] = b[i + 1]
  OBVIOUS
<1>3. g \in [0..n -> StackChanges]
  BY <1>1, <1>2
<1>4. g[0] = Applied(c, Head(b)) /\ g[n] = d
  BY <1>1, <1>2
<1>5. ASSUME NEW i \in 1..n PROVE g[i] = Applied(g[i - 1], Tail(b)[i])
  BY <1>1, <1>2
<1> HIDE DEF g
<1> QED BY <1>2, <1>3, <1>4, <1>5 DEF Turns

----------------------------------------------------------------------------
(* EventsInv is inductive.                                                 *)

\* NothingLost, one operation at a time.
LEMMA LostIsTurns ==
  NothingLost <=> \A o \in Ops : Turns(Received(o), backlog[o], truth[o])
BY DEF NothingLost, Turns

\* The changes an operation will have when what was received is handled.
LEMMA ReceivedTyped ==
  ASSUME TypeOK, NEW o \in Ops
  PROVE  /\ Received(o) \in StackChanges /\ truth[o] \in StackChanges /\ changes[o] \in StackChanges
         /\ backlog[o] \in Seq(Event) /\ inbox[o] \in Seq(Event)
         /\ inbox[o] # <<>> => Head(inbox[o]) \in Event /\ Tail(inbox[o]) = <<>>
<1>1. /\ truth[o] \in StackChanges /\ changes[o] \in StackChanges
      /\ backlog[o] \in Seq(Event) /\ inbox[o] \in Seq(Event) /\ Len(inbox[o]) <= 1
  BY DEF TypeOK
<1>2. inbox[o] # <<>> => Head(inbox[o]) \in Event /\ Tail(inbox[o]) = <<>>
  BY <1>1
<1> QED BY <1>1, <1>2, AppliedTyped DEF Received

\* At first nothing was reported.
LEMMA EventsInit == ASSUME Init PROVE EventsInv
<1> USE DEF Init
<1>1. NoChanges \in StackChanges
  BY DEF NoChanges, StackChanges
<1>2. TypeOK
  <2>1. <<>> \in Seq(Event) /\ Len(<<>>) = 0 /\ 0 \in 0..MaxEvents
    BY EngineEventsAssumption DEF EngineEventsAssumption
  <2>2. op \in Ops /\ phase \in Phases
    BY DEF Ops, Phases
  <2>3. /\ program \in [Ops -> {"none", "running", "sending", "sent"}]
        /\ watcher \in [Ops -> {"none", "watching", "cancelled", "ended"}]
        /\ shown \in [Ops -> StackChanges \cup {None, Failed}]
        /\ emitted \in [Ops -> 0..MaxEvents]
    BY <2>1
  <2>4. /\ backlog \in [Ops -> Seq(Event)] /\ inbox \in [Ops -> Seq(Event)]
        /\ \A o \in Ops : Len(inbox[o]) <= 1
    BY <2>1
  <2>5. changes \in [Ops -> StackChanges] /\ truth \in [Ops -> StackChanges]
    BY <1>1
  <2> QED BY <2>2, <2>3, <2>4, <2>5 DEF TypeOK
<1>3. NothingLost
  <2>1. ASSUME NEW o \in Ops PROVE Turns(Received(o), backlog[o], truth[o])
    BY <1>1, TurnsNone DEF Received
  <2> QED BY <2>1, LostIsTurns
<1>4. Quiet /\ ShownLast /\ ShownIsTrue
  BY EngineEventsAssumption DEF Quiet, ShownLast, ShownIsTrue, EngineEventsAssumption, Ops
<1> QED BY <1>2, <1>3, <1>4 DEF EventsInv

\* Steps that touch neither the events nor what is to be reported.
LEMMA KeepsFlow ==
  ASSUME NothingLost, UNCHANGED <<flow, truth>>
  PROVE  NothingLost'
BY LostIsTurns DEF NothingLost, flow, Received

\* An operation begins or fails to.
LEMMA KeepsCall ==
  ASSUME EventsInv, Call
  PROVE  EventsInv'
<1> USE DEF EventsInv
<1>1. TypeOK'
  BY DEF TypeOK, Call, flow, Phases
<1>2. NothingLost'
  BY KeepsFlow DEF Call
<1>3. Quiet'
  BY DEF Quiet, Done, Call, flow
<1>4. ShownLast' /\ ShownIsTrue'
  BY DEF ShownLast, ShownIsTrue, Call, flow
<1> QED BY <1>1, <1>2, <1>3, <1>4

\* An event is queued, and the engine has that to report as well.
LEMMA Queues ==
  ASSUME EventsInv, phase = "run", NEW e \in Event, Queue(e), UNCHANGED <<inbox, changes>>,
         truth' = [truth EXCEPT ![op] = Applied(truth[op], e)]
  PROVE  /\ NothingLost' /\ backlog' \in [Ops -> Seq(Event)] /\ truth' \in [Ops -> StackChanges]
         /\ \A o \in Ops : o # op => backlog'[o] = backlog[o] /\ truth'[o] = truth[o]
<1> USE DEF EventsInv
<1>1. op \in Ops /\ backlog[op] \in Seq(Event) /\ truth[op] \in StackChanges
  BY ReceivedTyped DEF TypeOK
<1>2. Applied(truth[op], e) \in StackChanges
  BY <1>1, AppliedTyped
<1>3. /\ backlog' \in [Ops -> Seq(Event)] /\ truth' \in [Ops -> StackChanges]
      /\ backlog'[op] = Append(backlog[op], e) /\ truth'[op] = Applied(truth[op], e)
      /\ \A o \in Ops : o # op => backlog'[o] = backlog[o] /\ truth'[o] = truth[o]
  BY <1>1, <1>2 DEF Queue, TypeOK
<1>4. \A o \in Ops : Turns(Received(o), backlog[o], truth[o])
  BY LostIsTurns
<1>5. ASSUME NEW o \in Ops PROVE Turns(Received(o), backlog'[o], truth'[o])
  <2>1. CASE o = op
    <3>1. Turns(Received(op), Append(backlog[op], e), Applied(truth[op], e))
      BY <1>1, <1>4, TurnsAppend
    <3> QED BY <1>3, <2>1, <3>1
  <2>2. CASE o # op
    BY <1>3, <1>4, <2>2
  <2> QED BY <2>1, <2>2
<1>6. \A o \in Ops : Received(o)' = Received(o)
  BY DEF Received
<1>7. NothingLost'
  <2>1. \A o \in Ops : Turns(Received(o)', backlog'[o], truth'[o])
    BY <1>5, <1>6
  <2> QED BY <2>1 DEF NothingLost, Turns
<1> QED BY <1>3, <1>7

\* What the engine emits of a resource counts if it is the stack.
LEMMA KeepsEmitOutputs ==
  ASSUME EventsInv, EmitOutputs
  PROVE  EventsInv'
<1> USE DEF EventsInv
<1>1. PICK stack \in BOOLEAN, new \in Values \cup {None} :
        /\ Queue([kind |-> "outputs", stack |-> stack, new |-> new])
        /\ truth' = IF stack /\ new # None THEN [truth EXCEPT ![op].outputs = new] ELSE truth
  BY DEF EmitOutputs
<1>2. PICK e : e = [kind |-> "outputs", stack |-> stack, new |-> new]
  OBVIOUS
<1>3. e \in Event /\ e.kind = "outputs" /\ e.stack = stack /\ e.new = new
  BY <1>2 DEF Event
<1>4. truth' = [truth EXCEPT ![op] = Applied(truth[op], e)]
  <2>1. truth = [truth EXCEPT ![op] = truth[op]]
    BY DEF TypeOK
  <2> QED BY <1>1, <1>3, <2>1 DEF Applied
<1>5. /\ NothingLost' /\ backlog' \in [Ops -> Seq(Event)] /\ truth' \in [Ops -> StackChanges]
      /\ \A o \in Ops : o # op => backlog'[o] = backlog[o] /\ truth'[o] = truth[o]
  BY <1>1, <1>2, <1>3, <1>4, Queues DEF EmitOutputs
<1>6. TypeOK'
  <2>1. emitted' \in [Ops -> 0..MaxEvents]
    BY EngineEventsAssumption DEF TypeOK, EmitOutputs, EngineEventsAssumption
  <2> QED BY <1>5, <2>1 DEF TypeOK, EmitOutputs
<1>7. Quiet' /\ ShownLast' /\ ShownIsTrue'
  BY <1>5 DEF Quiet, Done, ShownLast, ShownIsTrue, EmitOutputs
<1> QED BY <1>5, <1>6, <1>7

\* The summary tells of changes.
LEMMA KeepsFinish ==
  ASSUME EventsInv, Finish
  PROVE  EventsInv'
<1> USE DEF EventsInv
<1>1. ASSUME NEW has \in BOOLEAN, Queue([kind |-> "summary", has |-> has]),
             truth' = [truth EXCEPT ![op].has = has], shown' = shown
      PROVE  EventsInv'
  <2>1. PICK e : e = [kind |-> "summary", has |-> has]
    OBVIOUS
  <2>2. e \in Event /\ e.kind = "summary" /\ e.has = has
    BY <2>1 DEF Event
  <2>3. truth' = [truth EXCEPT ![op] = Applied(truth[op], e)]
    BY <1>1, <2>2 DEF Applied
  <2>4. /\ NothingLost' /\ backlog' \in [Ops -> Seq(Event)] /\ truth' \in [Ops -> StackChanges]
        /\ \A o \in Ops : o # op => backlog'[o] = backlog[o] /\ truth'[o] = truth[o]
    BY <1>1, <2>1, <2>2, <2>3, Queues DEF Finish
  <2>5. TypeOK'
    BY <1>1, <2>4 DEF TypeOK, Finish, Phases
  <2>6. Quiet' /\ ShownLast' /\ ShownIsTrue'
    BY <1>1, <2>4 DEF Quiet, Done, ShownLast, ShownIsTrue, Finish
  <2> QED BY <2>4, <2>5, <2>6
<1> QED BY <1>1 DEF Finish

\* A failure is not shown.
LEMMA KeepsFail ==
  ASSUME EventsInv, Fail
  PROVE  EventsInv'
<1> USE DEF EventsInv
<1>1. TypeOK'
  BY DEF TypeOK, Fail, Phases
<1>2. NothingLost'
  BY KeepsFlow DEF Fail, flow
<1>3. \A o \in Ops : shown'[o] \in StackChanges => shown[o] \in StackChanges /\ shown'[o] = shown[o]
  BY EngineEventsAssumption DEF Fail, TypeOK, EngineEventsAssumption
<1>4. Quiet' /\ ShownLast' /\ ShownIsTrue'
  BY <1>3 DEF Quiet, Done, ShownLast, ShownIsTrue, Fail, TypeOK
<1> QED BY <1>1, <1>2, <1>4

\* The emitter is closed, and the operation returns with the cancel event sent.
LEMMA KeepsReturn ==
  ASSUME EventsInv, CloseEmitter \/ Farewell
  PROVE  EventsInv'
<1> USE DEF EventsInv
<1>1. CASE CloseEmitter
  <2>1. TypeOK' /\ NothingLost'
    BY <1>1, KeepsFlow DEF TypeOK, CloseEmitter, flow, Phases
  <2>2. Quiet' /\ ShownLast' /\ ShownIsTrue'
    BY <1>1 DEF Quiet, Done, ShownLast, ShownIsTrue, CloseEmitter, flow
  <2> QED BY <2>1, <2>2
<1>2. CASE Farewell
  <2>1. PICK e : e = [kind |-> "cancel"]
    OBVIOUS
  <2>2. e \in Event /\ e.kind = "cancel"
    BY <2>1 DEF Event
  <2>3. /\ op \in Ops /\ inbox[op] = <<>> /\ inbox' = [inbox EXCEPT ![op] = Append(@, e)]
        /\ inbox \in [Ops -> Seq(Event)] /\ backlog[op] = <<>>
        /\ phase = "farewell" /\ phase' = "read"
        /\ UNCHANGED <<op, backlog, changes, truth, shown>>
    BY <1>2, <2>1 DEF Farewell, CanSend, TypeOK, ShownLast
  <2>4. /\ inbox' \in [Ops -> Seq(Event)] /\ inbox'[op] = <<e>>
        /\ \A o \in Ops : o # op => inbox'[o] = inbox[o]
    BY <2>2, <2>3
  <2>5. inbox'[op] # <<>> /\ Head(inbox'[op]) = e /\ Len(inbox'[op]) = 1
    BY <2>4
  <2>6. TypeOK'
    BY <1>2, <2>4, <2>5 DEF TypeOK, Farewell, Phases
  <2>7. NothingLost'
    <3>1. Applied(changes[op], e) = changes[op]
      BY <2>2 DEF Applied
    <3>2. \A o \in Ops : Received(o)' = Received(o)
      BY <2>3, <2>4, <2>5, <3>1 DEF Received
    <3>3. UNCHANGED <<backlog, truth>>
      BY <2>3
    <3> QED BY <3>2, <3>3 DEF NothingLost
  <2>8. Quiet'
    BY <2>2, <2>3, <2>4, <2>5 DEF Quiet, Done
  <2>9. ShownLast' /\ ShownIsTrue'
    BY <2>3 DEF ShownLast, ShownIsTrue
  <2> QED BY <2>6, <2>7, <2>8, <2>9
<1> QED BY <1>1, <1>2

\* What the reconciler reads is all the engine reported.
LEMMA KeepsRead ==
  ASSUME EventsInv, Read
  PROVE  EventsInv'
<1> USE DEF EventsInv
<1>1. /\ phase = "read" /\ UNCHANGED <<program, flow, emitted, truth, watcher, ctxDone, stopped>>
      /\ op \in Ops
  BY DEF Read, TypeOK
<1>2. changes[op] = truth[op]
  <2>1. backlog[op] = <<>> /\ (inbox[op] # <<>> => Head(inbox[op]).kind = "cancel")
    BY <1>1 DEF Quiet, Done
  <2>2. Received(op) = changes[op]
    BY <2>1 DEF Received, Applied
  <2>3. Turns(changes[op], <<>>, truth[op])
    BY <1>1, <2>1, <2>2, LostIsTurns
  <2> QED BY <1>1, <2>3, TurnsNone, ReceivedTyped
<1>3. NothingLost'
  BY <1>1, KeepsFlow
<1>4. Quiet'
  BY <1>1 DEF Quiet, Done, Read, flow
<1>5. CASE shown[op] = Failed /\ phase' = "end" /\ UNCHANGED <<op, shown>>
  <2>1. TypeOK'
    BY <1>1, <1>5 DEF TypeOK, flow, Phases
  <2> QED BY <1>1, <1>3, <1>4, <1>5, <2>1 DEF ShownLast, ShownIsTrue, flow
<1>6. CASE /\ shown' = [shown EXCEPT ![op] = changes[op]]
           /\ \/ op = "preview" /\ truth[op].has /\ op' = "update" /\ phase' = "call"
              \/ phase' = "end" /\ UNCHANGED op
  <2>1. shown'[op] = truth[op] /\ \A o \in Ops : o # op => shown'[o] = shown[o]
    BY <1>1, <1>2, <1>6 DEF TypeOK
  <2>2. TypeOK'
    BY <1>1, <1>6 DEF TypeOK, flow, Phases, Ops
  <2>3. ShownIsTrue'
    BY <1>1, <2>1 DEF ShownIsTrue
  <2>4. ShownLast'
    <3>1. ASSUME NEW o \in Ops, shown'[o] \in StackChanges PROVE op' # o \/ phase' = "end"
      BY <1>6, <2>1, <3>1, EngineEventsAssumption DEF ShownLast, EngineEventsAssumption, Ops
    <3>2. op' = "preview" => shown'["update"] = None
      BY <1>6, <2>1 DEF ShownLast, Ops
    <3> QED BY <1>6, <3>1, <3>2 DEF ShownLast
  <2> QED BY <1>3, <1>4, <2>2, <2>3, <2>4
<1> QED BY <1>5, <1>6 DEF Read

\* The emitter sends the event it queued first, when the last one was taken.
LEMMA KeepsForward ==
  ASSUME EventsInv, NEW o \in Ops, Forward(o)
  PROVE  EventsInv'
<1> USE DEF EventsInv
<1>1. /\ backlog[o] # <<>> /\ inbox[o] = <<>>
      /\ inbox' = [inbox EXCEPT ![o] = Append(@, Head(backlog[o]))]
      /\ backlog' = [backlog EXCEPT ![o] = Tail(@)]
      /\ UNCHANGED <<op, phase, program, changes, emitted, truth, shown, watcher, ctxDone, stopped>>
      /\ backlog[o] \in Seq(Event) /\ ~Done(o)
  BY ReceivedTyped DEF Forward, CanSend, Quiet
<1>2. Head(backlog[o]) \in Event /\ Tail(backlog[o]) \in Seq(Event)
  BY <1>1
<1>3. /\ inbox' \in [Ops -> Seq(Event)] /\ inbox'[o] = <<Head(backlog[o])>>
      /\ backlog' \in [Ops -> Seq(Event)] /\ backlog'[o] = Tail(backlog[o])
      /\ \A q \in Ops : q # o => inbox'[q] = inbox[q] /\ backlog'[q] = backlog[q]
  BY <1>1, <1>2 DEF TypeOK
<1>4. Len(inbox'[o]) = 1 /\ inbox'[o] # <<>> /\ Head(inbox'[o]) = Head(backlog[o])
  BY <1>2, <1>3
<1>5. TypeOK'
  BY <1>1, <1>3, <1>4 DEF TypeOK
<1>6. NothingLost'
  <2>1. Turns(Received(o), backlog[o], truth[o]) /\ Received(o) = changes[o]
    BY <1>1, LostIsTurns DEF Received
  <2>2. Turns(Applied(changes[o], Head(backlog[o])), Tail(backlog[o]), truth[o])
    BY <1>1, <2>1, TurnsHead
  <2>3. Received(o)' = Applied(changes[o], Head(backlog[o]))
    BY <1>1, <1>3, <1>4 DEF Received
  <2>4. \A q \in Ops : q # o => Received(q)' = Received(q)
    BY <1>1, <1>3 DEF Received
  <2>5. \A q \in Ops : Turns(Received(q)', backlog'[q], truth'[q])
    BY <1>1, <1>3, <2>2, <2>3, <2>4, LostIsTurns
  <2> QED BY <2>5 DEF NothingLost, Turns
<1>7. Quiet'
  BY <1>1, <1>3 DEF Quiet, Done
<1>8. ShownLast' /\ ShownIsTrue'
  BY <1>1, <1>3 DEF ShownLast, ShownIsTrue, Done, TypeOK
<1> QED BY <1>5, <1>6, <1>7, <1>8

\* Handling an event takes it from what was received to the changes.
LEMMA KeepsHandle ==
  ASSUME EventsInv, NEW o \in Ops, Handle(o)
  PROVE  EventsInv'
<1> USE DEF EventsInv
<1>1. /\ inbox[o] # <<>> /\ Tail(inbox[o]) = <<>> /\ Head(inbox[o]) \in Event
      /\ changes' = [changes EXCEPT ![o] = Applied(@, Head(inbox[o]))]
      /\ inbox' = [inbox EXCEPT ![o] = Tail(@)]
      /\ UNCHANGED <<op, phase, program, backlog, emitted, truth, shown, watcher, ctxDone, stopped>>
      /\ changes[o] \in StackChanges
  BY ReceivedTyped DEF Handle, Drains
<1>2. Applied(changes[o], Head(inbox[o])) \in StackChanges
  BY <1>1, AppliedTyped
<1>3. /\ inbox' \in [Ops -> Seq(Event)] /\ inbox'[o] = <<>> /\ Len(<<>>) = 0
      /\ changes' \in [Ops -> StackChanges] /\ changes'[o] = Applied(changes[o], Head(inbox[o]))
      /\ \A q \in Ops : q # o => inbox'[q] = inbox[q] /\ changes'[q] = changes[q]
  BY <1>1, <1>2 DEF TypeOK
<1>4. TypeOK'
  BY <1>1, <1>3 DEF TypeOK
<1>5. \A q \in Ops : Received(q)' = Received(q)
  BY <1>1, <1>3 DEF Received
<1>6. NothingLost'
  BY <1>1, <1>5 DEF NothingLost
<1>7. Quiet' /\ ShownLast' /\ ShownIsTrue'
  BY <1>1, <1>3 DEF Quiet, Done, ShownLast, ShownIsTrue
<1> QED BY <1>4, <1>6, <1>7

\* The other goroutines do not touch the events.
LEMMA KeepsAside ==
  ASSUME EventsInv, ContextDone \/ \E o \in Ops : Watch(o) \/ ProgramEnds(o) \/ RunReturns(o)
  PROVE  EventsInv'
<1> USE DEF EventsInv
<1>1. UNCHANGED <<op, phase, flow, emitted, truth, shown>>
  BY DEF ContextDone, Watch, ProgramEnds, RunReturns
<1>2. TypeOK'
  BY <1>1 DEF TypeOK, flow, ContextDone, Watch, ProgramEnds, Outcomes, RunReturns
<1>3. NothingLost'
  BY <1>1, KeepsFlow
<1>4. Quiet' /\ ShownLast' /\ ShownIsTrue'
  BY <1>1 DEF Quiet, Done, ShownLast, ShownIsTrue, flow
<1> QED BY <1>2, <1>3, <1>4

\* Every action keeps EventsInv.
LEMMA EventsNext == ASSUME EventsInv, [Next]_vars PROVE EventsInv'
<1>1. CASE UNCHANGED vars
  <2>1. UNCHANGED <<op, phase, program, flow, emitted, truth, shown, watcher, ctxDone, stopped>>
    BY <1>1 DEF vars
  <2>2. NothingLost'
    BY <2>1, KeepsFlow DEF EventsInv
  <2> QED BY <2>1, <2>2 DEF EventsInv, TypeOK, Quiet, Done, ShownLast, ShownIsTrue, flow
<1>2. CASE Engine
  BY <1>2, KeepsCall, KeepsEmitOutputs, KeepsFinish, KeepsFail, KeepsReturn, KeepsRead DEF Engine
<1>3. ASSUME NEW o \in Ops, Aside(o) PROVE EventsInv'
  BY <1>3, KeepsForward, KeepsHandle, KeepsAside DEF Aside
<1>4. CASE ContextDone
  BY <1>4, KeepsAside
<1> QED BY <1>1, <1>2, <1>3, <1>4 DEF Next

----------------------------------------------------------------------------
(* The theorems.                                                           *)

\* The goroutines' variables keep their types and the channel holds one event.
THEOREM EventsTyped == Spec => []TypeOK
BY EventsInit, EventsNext, PTL DEF Spec, EventsInv

\* Between the engine and the handler no event is lost, repeated or overtaken,
\* for any number of events and whatever the other goroutines do meanwhile.
THEOREM NoEventLost == Spec => []NothingLost
BY EventsInit, EventsNext, PTL DEF Spec, EventsInv

\* Status is updated from all that the engine reported and nothing else: the
\* read of the StackChanges does not race with the goroutine that fills it.
THEOREM ReadIsOrdered == Spec => []ShownIsTrue
BY EventsInit, EventsNext, PTL DEF Spec, EventsInv

\* The goroutine that outlives its operation writes nothing more to the
\* StackChanges, for what it has left to handle is a cancel event.
THEOREM NothingWrittenLate == Spec => NoLateWrite
<1>1. ASSUME EventsInv, [Next]_vars
      PROVE  [\A o \in Ops : Returned(o) => changes'[o] = changes[o]]_vars
  <2>1. ASSUME NEW o \in Ops, Returned(o), Next
        PROVE  changes'[o] = changes[o]
    <3>1. Done(o)
      BY <2>1 DEF Returned, Done
    <3>2. inbox[o] # <<>> => Head(inbox[o]).kind = "cancel"
      BY <1>1, <3>1 DEF EventsInv, Quiet
    <3>3. ASSUME NEW q \in Ops, Handle(q) PROVE changes'[o] = changes[o]
      BY <1>1, <3>2, <3>3 DEF Handle, Drains, Applied, EventsInv, TypeOK
    <3>4. CASE UNCHANGED changes
      BY <3>4
    <3> QED BY <2>1, <3>3, <3>4 DEF Next, Engine, Call, EmitOutputs, Finish, Fail, CloseEmitter,
            Farewell, Read, Aside, Forward, Watch, ProgramEnds, RunReturns, ContextDone, flow
  <2> QED BY <1>1, <2>1
<1> QED BY <1>1, EventsInit, EventsNext, PTL DEF Spec, NoLateWrite

=============================================================================

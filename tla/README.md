# A verification development for pulumi-controller-runtime

`pulumi-controller-runtime` is a library for Kubernetes controllers whose custom
objects are implemented by a Pulumi stack: a reconciliation loads the stack's
checkpoint from a Secret, previews, writes status, runs `update` or `destroy`
with the Pulumi engine in process, and writes status again. These modules model
the library (about 2,500 lines of Go under `src/pkg` and `src/sample`), TLC checks
small instances of them, and TLAPS proves their safety properties for every
instance.

## The system

| Component | State it keeps | Operations | Interacts with |
|---|---|---|---|
| `PulumiReconciler` (`pkg/reconcile/reconciler.go`) | none of its own but `hostContext`; per reconciliation the object in memory | `ReconcileObject`: finalizer, load, preview, status, update or destroy, status, finalizer | API server, `Backend`, `UpdateStatus` callback |
| `secretSnapshotter` (`pkg/backend/snapshot.go`) | the Secret `pulumi-<uid>`: checkpoint and generation | `GetSnapshot`, `SetSnapshot`, the `BackendClient` reads | cached client for reads, API server for writes |
| `kubeStack`, `update`, `defaultBackend` (`pkg/backend/stack.go`, `backend.go`) | `snap`, `snapHandle` under `s.m`; the events channel; `done` | `LoadStack`, `Update`, `Destroy`, `Refresh`, `Save`, `Close` | the engine: it reads the target, calls `Save`, sends events |
| `StackChanges` (`pkg/reconcile/status.go`) | `HasResourceChanges`, `Outputs` | `EngineEvent` | filled by a goroutine, read by `ReconcileObject` |
| `host`, `hostServer` (`pkg/plugin`) | plugin maps and list under `host.m`; the gRPC server's `cancel` and `done` channels | `Provider`, `CloseProvider`, `LanguageRuntime`, `Analyzer`, `EnsurePlugins`, `SignalCancellation`, `Close`; `Log`, `Get/SetRootResource` | engine threads, plugin processes that call back, the workers through `hostContext` |
| `embeddedLanguageRuntime` (`pkg/plugin/languageruntime.go`) | `done` channel of a run | `Run` | the program's goroutine |
| `reconcilerBuilder` (`pkg/reconcile/builder.go`) | configuration | `Build`, `createPluginHost` | the above |
| sample (`sample/`) | the `IamAccount` object | `Reconcile`, `UpdateStatus`, event filter | the library, as its user |

What is hard about it:

* **Concurrency.** Leader election is off unless asked for (`main.go`), and an old
  pod may outlive its replacement, so several managers can reconcile one object.
  The `resourceVersion` of the Secret is the only lock between them.
* **Staleness.** `mgr.GetClient()` reads from informer caches: both the object and
  the checkpoint may lag, each on its own.
* **Failure.** A provider, a call or a save fails, an answer is lost, the process
  dies, each between any two steps.
* **Ordering.** The finalizer against the first resource, the pending operation
  against the provider's call, the last event against the read of the changes.
* **Termination.** Requeues, status writes and their events; rendezvous on
  channels without buffers; a lock held while a plugin starts or is signalled.
* **Sharing.** `r.hostContext` is one field for all reconciliations of a manager.

What makes each part correct: the reconciler loses nothing of the cloud and
finishes deletions; the storage never goes back to an older generation; the stack
keeps a write-ahead log and runs one operation at a time; the status changes are
complete when read; every reconciliation closes the plugin host it made and all
the host launched, and never blocks.

## The modules

| Module | Models |
|---|---|
| `Cluster` | External: API server, user, garbage collector, informer caches and work queue, as `src/` uses them |
| `Stack` | `pkg/backend`: the checkpoint and the engine operation that saves it |
| `Reconciler` | `ReconcileObject` and the sample's `UpdateStatus` over `Stack` and `Cluster`, with failures; the properties |
| `ReconcilerInv`, `ReconcilerProofs` | The inductive invariant, in named parts; the proofs of the safety properties |
| `ReconcilerProgressProofs` | The proofs that no work is forgotten and that status moves on and is true |
| `Journal` | Abstract: the write-ahead record that a stack's checkpoint is |
| `ReconcilerJournal`, `ReconcilerJournalProofs` | The refinement mapping from `Reconciler` to `Journal`; the proof that it is one |
| `MCReconciler` | Sets, symmetry and the view for TLC |
| `EngineEvents`, `MCEngineEvents` | The goroutines of the preview and update of one reconciliation |
| `EngineEventsProofs` | Their inductive invariant and the proofs of their safety properties |
| `Operations` | Abstract: operations as calls that return |
| `EngineOperations`, `EngineOperationsProofs` | The refinement mapping from `EngineEvents` to `Operations`; the proof that it is one |
| `PluginHost`, `MCPluginHost` | The plugin hosts of the reconciliations of a manager's workers |
| `PluginHostInv`, `PluginHostProofs` | Their inductive invariant, in named parts; the proofs of their safety properties |

`Reconciler` composes `Stack` and `Cluster` by `EXTENDS`: they share the object,
the Secret and the workers. `EngineEvents` and `PluginHost` look inside one action of
`Reconciler` (an engine operation; the load and close of a stack) at the goroutines
it hides, and share no state with it.

### Cluster, Stack, Reconciler

One custom object is followed. The object and its Secret are kept as the logs of
their versions (`objs`, `secrets`): a `resourceVersion` is an index, the last version
is current, a cache is an index that only moves forward (`seen`), and what a worker
holds in memory is an index too (`work[m].rv` for `obj`, `work[m].handle` for
`snapHandle`). An Update with an old `resourceVersion` conflicts (`Fresh`, `Matches`).
A version of the object is its existence, generation, goal (the set of resources
the spec calls for), deletion mark, finalizer, `observedGeneration`, Ready condition
and outputs. A version of the Secret is its existence, generation, resources and
pending operations.

Each manager has one worker (controller-runtime's default). Its actions follow
`ReconcileObject` from call to call:

| Action | Code |
|---|---|
| `Start` | `Reconcile`: Get from the cache, nothing to do when it is not found |
| `AddFinalizer` | `reconciler.go:75-82` |
| `LoadStack` | `getOrCreateStack`, `LoadStack`, `GetSnapshot` with `ErrSnapshotGenerationMismatch` |
| `Preview` | the dry run, whose snapshot manager is closed too (`backend.go:145`); `HasChanges` of its summary |
| `PlanStatus` | `updateStatusFunc(previewChanges)`; no changes skip the operation |
| `BeginStep`, `Apply`, `EndStep`, `EngineDone`, `Refuse` | the engine's operation through `update.Save` and `setSnapshot` |
| `ResultStatus` | `updateStatusFunc(updateChanges)` |
| `Release` | `reconciler.go:167-178`: remove the finalizer, or requeue |
| `ApplyFails`, `CallFails`, `OperationFails`, `AnswerLost`, `Crash` | failures, which end in an error or `Requeue`, and so in a retry: a step, a call or a save; a preview or an operation between its steps, whose snapshot manager is closed as well; a write whose answer is lost; the process |
| `FlushLost` | the flush at `backend.go:145` reaches the server and its answer is lost: the error is ignored and the worker goes on with an old handle |

Decisions about what is outside `src/`:

* The engine is Pulumi v3.4.0, run serially (`UpdateOptions` sets no `Parallel`). A step
  saves the operation as pending, is performed, and its result is saved. Creations
  come before deletions, in any order within each, but that the root is created
  first and deleted last. A target with pending operations is refused; a preview of
  it is not. A failed step has had no effect at the provider.
* The root is the resource `pulumi:pulumi:Stack` that every program registers (`Root`, a
  member of every program). It has no provider, so its creation cannot fail at one; in
  `cloud` it stands for its name only, and "nothing left" means `cloud \subseteq {Root}`.
  `HasChanges` counts it: a checkpoint with the root alone has something to destroy, and
  its deletion goes through the engine, where a pending operation refuses it.
* `runEngineAction` closes the snapshot manager after every operation, a failed or a
  refused one too, and ignores the error. Whether that
  writes the checkpoint again, and whether pending operations survive it, depends
  on the engine's version: `Flushes` is a parameter (`{}`, `"keep"`, `"forget"`). A manager
  whose last act was a save, successful or not, has kept no write back: after a failed
  step or a conflict in `BeginStep` or `EndStep` there is nothing to flush.
* A resource whose inputs change is another member of `Resources`.
* The object has no finalizers but the library's: those of others keep a released
  object in existence, which the library then leaves alone. `RemovesFinalizer` is the
  condition of `reconciler.go:167-168`, `ContainsFinalizer` included.
* A signal to the manager cancels the context and ends the process: it is a
  `Crash`. A manager that starts has caches that are up to date.
* After the object is gone the Secret is collected. The object is not created again
  under the same UID.

### Journal

What the managers together promise of one stack is a smaller system. Its state is
`open` (the object exists), `held` (it has its finalizer), `record`, `pending` and `cloud`;
its steps are `Hold`, `Begin` (write one operation down, only for an object that is
held), `Perform` (that operation changes the cloud, in either direction or not at
all), `Conclude` (the record takes over what it left in the cloud), `LetGo` and, once
the object is gone, anything that does not bring it back. There are no workers,
caches, versions, generations or failures in it.

`ReconcilerJournal` maps `open`, `held`, `record` and `pending` to the current versions of the
object and the Secret, and `cloud` to itself: `IsJournal` is `J!Spec`. So a manager that
crashes between the answer of a provider and the save leaves a journal whose
operation is pending; a save based on an old version is no step at all; a flush of
the snapshot manager stutters, unless it drops a pending operation, which is the
one thing that breaks the refinement.

### EngineEvents

Per operation (`preview`, `update`): the events the engine's emitter still has
(`backlog`), the one taken from the channel and being handled (`inbox`), the
`StackChanges` being filled (`changes`), what the engine has to say (`truth`) and what
`ReconcileObject` gave to `UpdateStatus` (`shown`). A send is possible when the reader
waits, i.e. when `inbox` is empty. The engine closes its emitter when all is sent, and
then sends a cancel event: the handler has finished with the last event that
matters when that one is received. Nothing in `src/` waits for the handler; this
order, with `make(chan engine.Event)` without a buffer, is all that makes the read
complete.

`Operations` is what `Reconciler` takes all this to be, in `Preview` and in `EngineDone`: an
operation is called, and answers with `StackChanges` or fails; an update follows only a
preview whose answer had changes; an answer given does not change. `EngineOperations`
maps `answer` to what the `StackChanges` hold, from the time `ReconcileObject` has read
them: so a read that comes too early, an event handled too late, or a status that does
not agree with the decision to run the update is no step of `Operations`.

### PluginHost

Hosts are numbered by reconciliation. `lock` is `host.m`; `server` is the gRPC server
(`serving`, `draining` after it took the value of `Cancel`, `stopped`); `rpcs` are callbacks
in progress; `loaded` is `resourcePlugins`, `runtime` says whether `languagePlugins` has the
embedded one, `plugins` is the list reported.

A manager has `Workers`. `getOrCreateStack` is split where another worker can come
between: `Create` (the host and its server), `Context` (the plugin context around it,
which fails with the host left as it is at `os.Getwd`, and with the host closed at
`NewContext`), `Assign` (`r.hostContext = ...`), `Load` (`LoadStack` is given what the field
holds by then; if it fails there is no stack and nobody closes the host). `Return` ends
an operation; the engine closes its own plugin context, hence the host it was
given, and the `wrappedHost` makes that a no-op (`EngineCloses`). `CloseLock`, `Kill`, `Cancel`
and `Await` are `host.Close`.

Engine threads call the host of the operation they are in. One call asks for a set of
kinds: one kind is `Provider`, `LanguageRuntime` or `Analyzer` (always refused), several are
`EnsurePlugins`, which goes on after an error. `Provider` holds the lock from
`LoadProvider` to the answer of `GetPluginInfo`, while plugins call back. When the
operation's context is cancelled a goroutine of the engine calls `SignalCancellation`;
nobody waits for it, so it may reach the host during a later operation, between
the steps of `Close`'s caller, or after the host was closed.

## What is checked

Bounds are `MaxGen` (the last generation edits reach; deletion adds one), `MaxTouches`
(metadata writes by others), `MaxFaults`, `MaxSnapshots` (flushes happen below this many
versions), `MaxEvents` and `MaxHosts`. `CHECK_DEADLOCK FALSE` everywhere: with no user and
no fault left, or all hosts made, the system rests, as it should.

| Run | Instance | Shows |
|---|---|---|
| `one_manager` | 1 manager, programs `{Root, r1}` and `{Root, r1, r2}`, 1 edit, 1 touch, flushes that keep pending operations, 1 fault of any kind | `TypeOK`, `CheckpointExact`, `FinalizerGuardsCloud`, `NothingForgotten`, `CleanRelease`, `IsJournal`, `TrueWhenCurrent` |
| `two_managers` | 2 managers, program `{Root, r1}`, deletion at any time, no fault; explored while the object is there (`WhileThere`) | `ExclusiveEngine`, `IInv`, `IsJournal`, `SnapshotNeverGoesBackwards`, `NoResurrection`, `ObservedNeverGoesBackwards` |
| `generations` | 2 managers, program `{Root, r1}`, checkpoints flushed wherever the code closes a snapshot manager, with or without their pending operations; explored up to 5 versions of the Secret (`Early`) | `Sound`, `SnapshotNeverGoesBackwards` |
| `liveness` | 1 manager, programs `{Root, r1}` and `{Root}`, 1 edit, 2 faults of any kinds | `DeletionCompletes`, `Settles`, `ObservedEventually`, `Converges` |
| `events` | preview and update, 2 events each with 2 values | `TypeOK`, `ShownIsTrue`, `NothingLost`, `IsCall`, `NoLateWrite`, `OperationReturns`, `WatcherEnds` |
| `host` | 1 worker, 1 host, 2 threads, 2 plugins of one name, every failure | `TypeOK`, `HostsClose`, `ReportedOnce`, `SignalledAreOpen`, `HostIInv`, `CancelIsTaken`, `CloseEnds`, `CallsEnd` |
| `gone`, `outputs`, `status`, `orphan`, `leak`, `workers` | the smallest instances | disagreements with the documentation, below |

Why the bounds are enough: two managers are what an overlap needs, and a third would
be one more contender for the same `resourceVersion`; one resource gives every
phase of an operation, two give operations that stop half way; an edit and a
deletion give three generations, hence a stale one, a current one and a later one;
one fault strikes between any two calls, and the next reconciliation meets what it
left; two, in `liveness`, add a fault that strikes what the first one caused, such as a lost
answer to the save after a failed step. The five versions of the Secret in `generations`, of which the first is its absence, hold
the creation of `Root` and `r1`, or the creation and the deletion of `Root`, and each
flush takes the place of one save: enough for a flush that drops the pending
operation of another manager, and for the saves of both that follow. With one worker the hosts of different reconciliations share nothing but the
plugins they may launch, so one host is enough for its life; two threads and two
plugins of one name are what a race in `Provider` and a duplicate in the list
need. The safety properties that hold are also proved without these bounds.

`View` in `MCReconciler` drops the versions of the logs that no cache or worker can
reach any more and keeps of them what the invariants read; the bound on flushes
goes by the number of versions, so that is kept up to the bound. Managers are
symmetric. `liveness` uses neither.

### The properties worth naming

* `IsJournal`: no step of any manager writes the record but to conclude the one
  operation written down, and none changes the cloud but by it.
* `CheckpointExact`: the checkpoint is a write-ahead log of the cloud.
* `ExclusiveEngine`: two managers are never both between the save of a pending
  operation and the save of its outcome.
* `FinalizerGuardsCloud`: without its finalizer an object has nothing to leave behind.
* `SnapshotNeverGoesBackwards`: the invariant a comment in `GetSnapshot` announces. The
  check at load alone does not give it, nor the conflict at save alone. An update's
  saves come after a status update, which fails on a stale object; the flush of a
  preview does not, and there the check at load is what holds (`two_managers` has the
  first half, `generations` the second).
* `NoResurrection`: once deletion reached the checkpoint, a slower manager creates nothing.
* `CleanRelease`: letting go with the current checkpoint in hand leaves nothing, even
  when a crash or a failure left an operation pending: while the root is on record the
  preview has changes and the operation is refused, and without the root nothing but
  the root can be pending. It is about what a failure left; a stale checkpoint is
  outside its premise, and there the code is weak (see `GoneMeansClean`).
* `TrueWhenCurrent`: Ready, and outputs, written with the current checkpoint in hand are
  true of the cloud, up to what that checkpoint has pending. A stale checkpoint is
  outside its premise too (see `TrueStatus`).
* `ObservedNeverGoesBackwards`: no manager takes status back to an earlier generation.
* `NothingForgotten`: a manager whose worker is idle, whose queue is empty and whose cache
  is up to date leaves no deletion and no generation unattended. It is the safety half
  of `DeletionCompletes` and `ObservedEventually`: whatever swallows a failure, or takes
  news for old, breaks it.
* `DeletionCompletes`, `Settles`, `ObservedEventually`, `Converges`: retries and events do all
  they must, and stop. Each but `ObservedEventually` has one exception, `Stranded`: the
  checkpoint has an operation pending that no worker is in, and changes are called for.
  See "An operation left pending" below.
* `NothingLost`: what is in the channel and then what the emitter has queued turns the
  `StackChanges` into what the engine has to report. `ShownIsTrue`, `NoLateWrite`: the
  unlocked read of `StackChanges` sees all of it, and nothing is written afterwards.
  `IsCall`: to the rest of the reconciliation an operation is one call.
* `HostsClose`: a host that no worker holds any more has stopped, and of its plugins
  only those run that failed to report or to close; or it was given up before it had
  any. `ReportedOnce`: racing copies of a provider are listed once. `SignalledAreOpen`: a
  late cancellation signals no plugin that was closed, but one whose `Close` failed.
  `CancelIsTaken`: the send in `Cancel`, made with `host.m` held, finds its reader, the
  engine's own close of its plugin context notwithstanding. The run follows one host;
  that the hosts of later reconciliations do not disturb it is left to `CancelTaken`.
  `CloseEnds`, `CallsEnd`: neither callbacks, signals nor the server's channel hold
  anybody for ever.

### Fairness

Weak fairness of each worker's next step (a goroutine of controller-runtime does not
stop between two calls), of each informer's delivery, and of the garbage collector.
None for the user or for failures. Failures are finitely many (`MaxFaults`); no
retry would end otherwise. In `EngineEvents`: goroutines that can run do, the
program ends, and the engine ends its operation once `Run` has returned, well (`Finish`) or with
an error (`Fail`). Any other failure of the engine is owed nothing, and an operation whose
program never reports to `Run` is not ended by fairness: `OperationReturns` depends on the
rendezvous in `Run`. The context need not be cancelled. In
`PluginHost`: each worker goes on with its stack and with `Close`, the server answers, and
`LoadProvider`, `Signalled` and the like go on (weak). Strong fairness stands where other
threads switch a step off and on: for those who wait for `host.m`, as Go hands a mutex to a
goroutine that has waited a millisecond; for the answer of `GetPluginInfo`, since a plugin
may call back in between but not for ever; and for the end of an operation. Whether
a worker begins a reconciliation, and whether the engine calls the host, is left
open.

### Where the documentation and the code differ

* `GoneMeansClean` (`README.md:68-69`): the checkpoint is read through the cache. A
  deletion that is reconciled before the cache shows what the last reconciliation
  saved plans a `destroy` of too little. If there is nothing to do, no save and hence no
  conflict happens, and the finalizer goes. A resource is left.
* `TrueStatus` (`README.md:120-121`, `status.go:33-34`): the same cached read makes a
  plan without changes for a cloud that differs; Ready stays `True`, for good.
* `OutputsShown` (`README.md:66`): the status update after an operation conflicts, the
  retry has no changes, and outputs are never written.
* `LoadedIsAll` (`host.go:49`, `host.go:121`): a provider whose `GetPluginInfo` fails is not
  among the loaded plugins, and `Close` does not close it.
* `ReturnedIsClosed` (`builder.go:202`): when `LoadStack` fails, and it does with
  `ErrSnapshotGenerationMismatch` when the object read is older than its checkpoint,
  `getOrCreateStack` returns
  no stack, the deferred `stack.Close` is never reached, and the host's gRPC server, its
  port and its goroutines stay. The same happens when `os.Getwd` fails in
  `createPluginHost`, before the context is returned (`HostsClose` allows for both).
* `CancelReturns` (`host_server.go:81`), with `MaxConcurrentReconciles` above 1 only, which
  the library allows and the sample leaves at 1: both workers assign `r.hostContext` before
  either loads its stack, and get one host. The second `Close` sends on a channel
  whose reader is gone, with `host.m` held; the other host is never closed.

One more has no run, for there is no state to it: the library's `README.md:58-59` has the
user set the stack's configuration values, and nothing reads the `StackConfig` they are
passed in (`reconciler.go:66`); the object alone is the configuration.

#### An operation left pending

After a crash, a lost answer or a failed save between the two saves of a step, the
checkpoint has an operation pending. Every `Update` and `Destroy` is then refused by the
engine and `ReconcileObject` retries (`reconciler.go:146-149`), for ever: nothing in `src/`
resolves a pending operation. So an object may never be provisioned, a
deleted one may keep its finalizer, and reconciling does not end, until somebody edits
the Secret. The safety properties hold throughout, and `ObservedEventually` does, since
status is written before the refusal. The liveness properties state this exception as
`[]Stranded`. It is not the end where the spec comes to want just what the checkpoint
records, or where a snapshot manager that drops pending operations is closed after
the refusal; the first is in `liveness` (an edit back to `{Root}`), the second is what
`"forget"` stands for, and it costs `CheckpointExact`. The documentation says nothing of
pending operations, so there is no run for it.

## What is proved

Six modules hold theorems; none rests on a bound, and liveness is not among them.

### The reconciler

For any managers, resources, programs and bounds that satisfy `ClusterAssumption`,
`StackAssumption` and `ReconcilerAssumption`:

| Theorem | States | Under |
|---|---|---|
| `TypeCorrect` | `[]TypeOK` | |
| `FinalizerGuards` | `[]FinalizerGuardsCloud` | |
| `NoGoingBackwards` | `SnapshotNeverGoesBackwards` | |
| `NothingResurrected` | `NoResurrection` | |
| `StatusOnwards` | `ObservedNeverGoesBackwards` | |
| `NeverForgets` | `[]NothingForgotten` | |
| `Soundness` | `[]Sound` | |
| `WriteAhead` | `[]CheckpointExact` | `"forget" \notin Flushes` |
| `Exclusion` | `[]ExclusiveEngine` | `"forget" \notin Flushes` |
| `ReleasedClean` | `CleanRelease` | `"forget" \notin Flushes` |
| `TruthfulStatus` | `TrueWhenCurrent` | `"forget" \notin Flushes` |
| `Inductive` | `[]IInv` | `"forget" \notin Flushes` |
| `Implements` | `IsJournal` | `"forget" \notin Flushes` |

and, of the journal alone, `JournalIsExact`: `IsJournal => []CheckpointExact`.

None of the safety properties is inductive. The invariant adds:

* `History`: generations grow along the object's log, deletion is for good, an object
  marked for deletion has its finalizer, and a finalizer stays while the object
  does. A worker with a stale version therefore knows something of the current one.
* `Holding`: a worker past `AddFinalizer` holds a version with a finalizer, and a worker
  past `LoadStack` a checkpoint no later than its generation. With `History` the first
  gives `FinalizerGuardsCloud`; with the conflict at save the second gives
  `SnapshotNeverGoesBackwards`.
* `AbsentIsEmpty`: a Secret that is absent records nothing.
* `RootFirst`: a checkpoint without the root records nothing, and only the root can be
  pending in it. `CleanRelease` rests on it.
* `Finishing`: a worker on its way to letting go holds a checkpoint that records
  what its generation wants, which is nothing for a deleted one.
* `Operations`: while the object exists, a worker inside an operation holds the content
  of the current checkpoint. A second worker there would have had to save over
  it, and a checkpoint with operations pending is refused: `ExclusiveEngine`. The cloud
  differs from the record only at the pending operation: `CheckpointExact`.
* `Attended`: a key that is not queued asks for nothing its manager's cache has shown. If
  the worker is idle, the version shown is not marked for deletion and its generation
  has been observed; if it is at work, it works for that generation or a later one. It
  needs `Onwards`, that status does not go back and an object that is gone stays gone.

The argument goes in three layers. `Sound` (the first five and `FinalizerGuardsCloud`) is inductive whatever the
snapshot manager writes when closed. `Exact` (`Operations` and what follows from it) needs
in addition that it does not drop
the pending operations of another worker's checkpoint, hence the assumption. Each
action first gets a lemma that reduces it to `WorkerStep` or `WorldStep` (how
the logs grow, what the worker holds next, what was saved); the parts of the
invariant are then proved once for those, not once per action.

`Attended` is the third layer, in `ReconcilerProgressProofs`, and rests on `TypeOK` and `Sound`
only, so `NeverForgets` needs no assumption on the engine. Its steps are reduced once
more, to what they do to a key (`WorkersServe`): a worker takes the key for what the cache
shows, goes on, gives the key back, or ends with the status of its generation written;
an informer that shows a version queues the key, unless the generation is the one it
showed before. With an up-to-date cache `Attended` is `NothingForgotten`. `TruthfulStatus` joins
`CheckpointExact`, which says what the cloud is, and `Finishing`, which says what the
checkpoint in hand records (`TellsTheTruth`).

`ReconcilerJournalProofs` proves `Implements`.
While the object exists, each step is matched by way of `IInv`: `BeginStep` is `Begin`,
because the checkpoint in the worker's hand is the current one with nothing pending;
`Apply` is `Perform`, because what the worker applies is what is pending in the Secret; `EndStep` is
`Conclude`, because the cloud differs from the record only there; a save that conflicts and
a flush change nothing of the mapped state. The removal of the object is `LetGo`, and
`FinalizerGuardsCloud` its condition. `JournalIsExact` shows that the abstract specification
says enough: whatever implements it has an exact checkpoint.

### The operations

For any values and any number of events:

| Theorem | States |
|---|---|
| `EventsTyped` | `[]TypeOK` |
| `NoEventLost` | `[]NothingLost` |
| `ReadIsOrdered` | `[]ShownIsTrue` |
| `NothingWrittenLate` | `NoLateWrite` |
| `OperationsAreCalls` | `IsCall` |

`ShownIsTrue` says nothing while an operation runs. `NothingLost` carries what is needed
through it, as the existence of a sequence of `StackChanges`, from those filled so far to
the truth, each the last with the next queued event applied; lemmas about such sequences
say what appending an event and taking the first one do. `Quiet` adds that outside the
engine nothing is queued and only the cancel event can be unhandled, which makes the
changes read the truth and every later `Handle` a no-op; `ShownLast` that status is
written after its operation and the preview's first. Together they are `EventsInv`.

For `OperationsAreCalls` (`EngineOperationsProofs`) `FailedLast` is needed as well: only the
operation that is ending can have failed. `Call` is then `Begin`; `Read` is `Fail`, or `Finish` with the
changes as they are, of which `ShownIsTrue` says that they decide as the engine's summary
did; all other steps are not seen, `Handle` because what it handles after the read is the
cancel event.

### The plugin host

For any threads, plugins, requests and number of hosts:

| Theorem | States | Under |
|---|---|---|
| `HostTyped` | `[]TypeOK` | |
| `SignalsOpen` | `[]SignalledAreOpen` | |
| `HostInductive` | `[]HostIInv` | |
| `HostsAreClosed` | `[]HostsClose` | |
| `ListedOnce` | `[]ReportedOnce` | `OneWorker` |
| `CancelTaken` | `[]CancelIsTaken` | `OneWorker` |

`HostInv` says that `host.m` is held by exactly
who is at work with the host, that what is recorded runs for that host (`Recorded`), and
that a call belongs to an operation of a worker with that host in hand (`InOperation`);
`SignalledAreOpen` follows from `Recorded`. `HostLives` adds what becomes of a host: it is
`InUse` by some worker, was never used (`Untouched`), or has `Ended`; and every plugin that
runs for it is recorded, lost, or being asked (`Accounted`). A plugin whose `Close` failed stays
recorded and counts as lost, whether it still runs or not (`host.go:191-193`); `SignalledAreOpen`
speaks of the others. `HostLives` holds when workers share
hosts too: a worker that uses a host leaves it only through `Close`, one that comes
second to `Cancel` never leaves it, and a host that `Assign` has replaced before any stack
was loaded with it is untouched. So `HostsClose` needs no assumption; that the second
`Close` does not return is what `CancelReturns` finds, and it is not against `HostsClose`,
which speaks of hosts no worker holds.

`OneWorker => Alone(h)`, the last part of `Lives`, says what holds of a host when no other
worker can come to use it: untouched until its stack is loaded, and served until it
is cancelled, which is `CancelIsTaken`; and the runtime is in the list only if it is cached,
while an operation runs (`Listed`), which is what `ReportedOnce` needs.
With two workers that share a host both
fail: `Close` empties the cache and not the list, and the server is cancelled twice.

### What is only checked

Liveness (`DeletionCompletes`, `Settles`, `ObservedEventually`, `Converges`, `OperationReturns`,
`WatcherEnds`, `CloseEnds`, `CallsEnd`) is left to TLC: the prover does not reason about
`ENABLED` and fairness. The safety half of some is proved: `NothingForgotten` is why no
deletion or generation is left, `CancelIsTaken` why `Close` is not held up in `Cancel`. The six
disagreements with the documentation are counterexamples, found by TLC.

## What is not modelled

* `Refresh`: nothing calls it; it would be one more operation that saves what the engine
  gives it.
* `GetStackOutputs` and `GetStackResourceOutputs`: they only read, for stack references,
  which the README calls future work.
* Serialisation, encryption, logging and tracing; the flags and wiring of `main.go`; the
  builder's setters; generated code; `suite_test.go`, which tests nothing of the
  reconciler.
* Several objects at once: their stacks and Secrets are disjoint, each is read and
  written under its own UID, and what workers share, `r.hostContext`, is in `PluginHost`.

## Plan

Done: `Cluster`, `Stack`, `Reconciler` with its proofs, and `Journal` with its refinement, checked
and proved; `PluginHost` with workers, all of its operations and the failures of
`createPluginHost`, and its proofs; `EngineEvents` and its proofs, and `Operations` with its
refinement, checked and proved. Left:

1. Stack references: `GetStackOutputs` and `GetStackResourceOutputs` read another stack's
   checkpoint while it is being written, once the library wires them up.
2. Several objects: the work queue of `Cluster` and the hosts of `PluginHost` composed, for
   liveness of one object while another's provider is slow.
3. `CloseEnds` and `CallsEnd` on a larger instance.
4. An abstract specification of a plugin host (made, used, closed once) that `PluginHost`
   implements with one worker.

----------------------------- MODULE PluginHost -----------------------------
(***************************************************************************)
(* The plugin host that every reconciliation creates for its engine        *)
(* operations and closes with its stack (pkg/plugin, createPluginHost and  *)
(* getOrCreateStack): the plugin caches under host.m, the gRPC server that *)
(* plugins call back, and the rendezvous on its channels that ends it.     *)
(*                                                                         *)
(* The engine's threads and the plugin processes are external: threads call*)
(* the host during an operation and are done when it returns, but for the  *)
(* one that signals the operation's cancellation, which nobody waits for;  *)
(* a plugin may call back from the moment it is launched.                  *)
(***************************************************************************)
EXTENDS Naturals, Sequences, FiniteSets

CONSTANTS
    Workers,     \* the controller's workers (MaxConcurrentReconciles)
    Threads,     \* the engine's threads
    Requests,    \* the kinds of plugins that one call of a thread asks for
    Plugins,     \* provider processes that can be launched
    Infos,       \* names and versions of providers
    Info,        \* what GetPluginInfo says of each
    MaxHosts,    \* bound: reconciliations, each with its host
    None         \* no lock holder, no plugin

Kinds == {"analyzer", "language", "resource"}

ASSUME PluginHostAssumption ==
    /\ Info \in [Plugins -> Infos] /\ "embeddedLanguageRuntime" \notin Infos
    /\ MaxHosts \in Nat \ {0}
    /\ Requests \subseteq (SUBSET Kinds) \ {{}}
    /\ None \notin Workers \cup Threads \cup Plugins /\ Workers \cap Threads = {}

VARIABLES
    pc,            \* per worker: where its reconciliation is
    mine,          \* per worker: the host it has in hand, 0 for none
    hostContext,   \* the reconciler's field: the host assigned last, 0 for none
    host,          \* the hosts that were made
    running,       \* per plugin: the host it was launched for, 0 if it is not running
    call,          \* per thread: the call of a host it is in
    lost           \* plugins whose GetPluginInfo or Close failed

vars == <<pc, mine, hostContext, host, running, call, lost>>

\* lock: who holds host.m; rpcs: the plugins with a callback in progress; loaded:
\* resourcePlugins; runtime: languagePlugins has the embedded one; plugins: the
\* list of plugins it reports.
Host == [lock : {None} \cup Workers \cup Threads,
         server : {"serving", "draining", "stopped"},
         rpcs : SUBSET Plugins, loaded : SUBSET Plugins, runtime : BOOLEAN,
         plugins : Seq(Infos \cup {"embeddedLanguageRuntime"})]

NewHost == [lock |-> None, server |-> "serving", rpcs |-> {}, loaded |-> {},
            runtime |-> FALSE, plugins |-> <<>>]

Hosts == 1..Len(host)

\* by: the worker whose operation calls; todo: the kinds still asked for.
Call == [at : {"none", "asks", "load", "info", "waits", "signal"}, by : Workers \cup {None},
         host : 0..MaxHosts, plugin : Plugins \cup {None}, todo : SUBSET Kinds]

NoCall == [at |-> "none", by |-> None, host |-> 0, plugin |-> None, todo |-> {}]

Phases == {"idle", "context", "assign", "load", "engine",
           "closing", "kill", "cancel", "await"}

Init ==
    /\ pc = [w \in Workers |-> "idle"] /\ mine = [w \in Workers |-> 0]
    /\ hostContext = 0 /\ host = <<>>
    /\ running = [p \in Plugins |-> 0]
    /\ call = [t \in Threads |-> NoCall]
    /\ lost = {}

At(w, phase) == pc[w] = phase
Goto(w, phase) == pc' = [pc EXCEPT ![w] = phase]
Hold(w, h) == mine' = [mine EXCEPT ![w] = h]
Put(h, r) == host' = [host EXCEPT ![h] = r]

\* Every method of the host defers its Unlock.
Unlocked_Forgotten(r) == r    \* mutant: Unlock is forgotten
Unlocked(r) == [r EXCEPT !.lock = None]

----------------------------------------------------------------------------
(* Workers: getOrCreateStack, the engine's operations, and Close.          *)

\* createPluginHost: the host and its server; if this fails nothing is left.
Create(w) ==
    /\ At(w, "idle") /\ Len(host) < MaxHosts
    /\ host' = Append(host, NewHost)
    /\ Hold(w, Len(host) + 1) /\ Goto(w, "context")
    /\ UNCHANGED <<hostContext, running, call, lost>>

\* The plugin context around it.  Without a working directory the host is given
\* up as it is; without a context it is closed.
Context(w) ==
    /\ At(w, "context")
    /\ \/ Goto(w, "assign") /\ UNCHANGED mine
       \/ Goto(w, "idle") /\ Hold(w, 0)
       \/ Goto(w, "closing") /\ UNCHANGED mine
    /\ UNCHANGED <<hostContext, host, running, call, lost>>

Assign(w) ==
    /\ At(w, "assign")
    /\ hostContext' = mine[w] /\ Goto(w, "load")
    /\ UNCHANGED <<mine, host, running, call, lost>>

\* LoadStack is given the field; on an error there is no stack to be closed.
Load(w) ==
    /\ At(w, "load")
    /\ \/ Goto(w, "engine") /\ Hold(w, hostContext)
       \/ Goto(w, "idle") /\ Hold(w, 0)
    /\ UNCHANGED <<hostContext, host, running, call, lost>>

\* An operation returns; the engine closes its plugin context, whose host is the
\* wrapped one, and wrappedHost.Close does nothing.
EngineCloses_Unwrapped(h) ==    \* mutant: the engine is given the host itself
    /\ Put(h, [host[h] EXCEPT !.loaded = {}, !.runtime = FALSE, !.server = "stopped"])
    /\ running' = [p \in Plugins |-> IF p \in host[h].loaded THEN 0 ELSE running[p]]
EngineCloses(h) == UNCHANGED <<host, running>>

Operating(t, w) == call[t].by = w /\ call[t].at \in {"asks", "load", "info"}

Return(w) ==
    /\ At(w, "engine") /\ \A t \in Threads : ~Operating(t, w)
    /\ Goto(w, "engine") \/ Goto(w, "closing")
    /\ EngineCloses(mine[w])
    /\ UNCHANGED <<mine, hostContext, call, lost>>

CloseLock(w) ==
    LET h == mine[w] IN
    /\ At(w, "closing") /\ host[h].lock = None
    /\ Put(h, [host[h] EXCEPT !.lock = w])
    /\ Goto(w, "kill")
    /\ UNCHANGED <<mine, hostContext, running, call, lost>>

\* All plugins of the maps are closed, errors ignored, and the maps emptied.
Victims_Reported(r) == {p \in r.loaded : \A q \in r.loaded : Info[q] = Info[p] => q = p}
    \* mutant: the map is keyed by name and version, and keeps one of each
Victims(r) == r.loaded

Emptied_Not(r) == [r EXCEPT !.runtime = FALSE]    \* mutant: resourcePlugins is left
Emptied(r) == [r EXCEPT !.loaded = {}, !.runtime = FALSE]

Kill(w) ==
    LET r == host[mine[w]] IN
    /\ At(w, "kill")
    /\ \E survivors \in SUBSET Victims(r) :
         /\ running' = [p \in Plugins |-> IF p \in Victims(r) \ survivors THEN 0 ELSE running[p]]
         /\ lost' = lost \cup survivors
    /\ Put(mine[w], Emptied(r))
    /\ Goto(w, "cancel")
    /\ UNCHANGED <<mine, hostContext, call>>

\* Cancel sends on a channel without a buffer: the server takes one value, ever.
Cancel(w) ==
    LET r == host[mine[w]] IN
    /\ At(w, "cancel") /\ r.server = "serving"
    /\ Put(mine[w], [r EXCEPT !.server = "draining"])
    /\ Goto(w, "await")
    /\ UNCHANGED <<mine, hostContext, running, call, lost>>

\* The server stops once no callback is in progress, and then is done.
Await(w) ==
    LET r == host[mine[w]] IN
    /\ At(w, "await") /\ r.rpcs = {}
    /\ Put(mine[w], Unlocked([r EXCEPT !.server = "stopped"]))
    /\ Goto(w, "idle") /\ Hold(w, 0)
    /\ UNCHANGED <<hostContext, running, call, lost>>

Close(w) == CloseLock(w) \/ Kill(w) \/ Cancel(w) \/ Await(w)

Worker(w) == Create(w) \/ Context(w) \/ Assign(w) \/ Load(w) \/ Return(w) \/ Close(w)

----------------------------------------------------------------------------
(* The engine's threads.                                                   *)

CallIs(t, c) == call' = [call EXCEPT ![t] = c]
Served(t) == host[call[t].host]
Asks(t, kind) == call[t].at = "asks" /\ kind \in call[t].todo
Without(t, kind) == [call[t] EXCEPT !.todo = @ \ {kind}]

\* A call of Provider, LanguageRuntime or Analyzer asks for one kind, one of
\* EnsurePlugins for those its flags select; or the operation's context is done
\* and SignalCancellation is called.
Begin(t) ==
    /\ call[t] = NoCall
    /\ \E w \in Workers :
         LET c == [NoCall EXCEPT !.by = w, !.host = mine[w]] IN
         /\ At(w, "engine")
         /\ \/ \E kinds \in Requests : CallIs(t, [c EXCEPT !.at = "asks", !.todo = kinds])
            \/ CallIs(t, [c EXCEPT !.at = "waits"])
    /\ UNCHANGED <<pc, mine, hostContext, host, running, lost>>

\* Analyzers are refused, and EnsurePlugins goes on to the next plugin.
Analyzer(t) ==
    /\ Asks(t, "analyzer") /\ CallIs(t, Without(t, "analyzer"))
    /\ UNCHANGED <<pc, mine, hostContext, host, running, lost>>

\* The embedded runtime is listed once, when it is first asked for; the loader
\* knows no other.
LanguageRuntime(t) ==
    /\ Asks(t, "language") /\ Served(t).lock = None
    /\ \/ /\ ~Served(t).runtime
          /\ Put(call[t].host, [Served(t) EXCEPT !.runtime = TRUE,
                                                 !.plugins = Append(@, "embeddedLanguageRuntime")])
       \/ UNCHANGED host
    /\ CallIs(t, Without(t, "language"))
    /\ UNCHANGED <<pc, mine, hostContext, running, lost>>

Provider(t) ==
    /\ Asks(t, "resource") /\ Served(t).lock = None
    /\ Put(call[t].host, [Served(t) EXCEPT !.lock = t])
    /\ CallIs(t, [Without(t, "resource") EXCEPT !.at = "load"])
    /\ UNCHANGED <<pc, mine, hostContext, running, lost>>

\* LoadProvider launches a process, or fails.
LoadProvider(t) ==
    /\ call[t].at = "load"
    /\ \/ \E p \in Plugins :
            /\ running[p] = 0 /\ p \notin lost
            /\ running' = [running EXCEPT ![p] = call[t].host]
            /\ CallIs(t, [call[t] EXCEPT !.at = "info", !.plugin = p])
            /\ UNCHANGED host
       \/ /\ Put(call[t].host, Unlocked(Served(t)))
          /\ CallIs(t, [call[t] EXCEPT !.at = "asks"])
          /\ UNCHANGED running
    /\ UNCHANGED <<pc, mine, hostContext, lost>>

\* What is new is added to the list of plugins.
Reported_Each(r, p) == Append(r.plugins, Info[p])    \* mutant: alreadyReported is not looked at
Reported(r, p) ==
    IF \E i \in 1..Len(r.plugins) : r.plugins[i] = Info[p]
    THEN r.plugins ELSE Append(r.plugins, Info[p])

\* GetPluginInfo answers when the plugin's own calls were answered; if it fails
\* the plugin is not recorded.
Record(t) ==
    LET r == Served(t)  p == call[t].plugin IN
    /\ call[t].at = "info" /\ p \notin r.rpcs
    /\ \/ /\ Put(call[t].host, Unlocked([r EXCEPT !.loaded = @ \cup {p},
                                                  !.plugins = Reported(r, p)]))
          /\ UNCHANGED lost
       \/ Put(call[t].host, Unlocked(r)) /\ lost' = lost \cup {p}
    /\ CallIs(t, [call[t] EXCEPT !.at = "asks", !.plugin = None])
    /\ UNCHANGED <<pc, mine, hostContext, running>>

Answered(t) ==
    /\ call[t].at = "asks" /\ call[t].todo = {}
    /\ CallIs(t, NoCall)
    /\ UNCHANGED <<pc, mine, hostContext, host, running, lost>>

\* A provider whose Close fails stays recorded, though it may be closed by then.
CloseProvider(t) ==
    /\ call[t] = NoCall
    /\ \E w \in Workers :
         LET r == host[mine[w]] IN
         /\ At(w, "engine") /\ r.lock = None
         /\ \E p \in r.loaded :
              \/ /\ running' = [running EXCEPT ![p] = 0]
                 /\ Put(mine[w], [r EXCEPT !.loaded = @ \ {p}])
                 /\ UNCHANGED lost
              \/ /\ running' \in {running, [running EXCEPT ![p] = 0]}
                 /\ lost' = lost \cup {p}
                 /\ UNCHANGED host
    /\ UNCHANGED <<pc, mine, hostContext, call>>

\* SignalCancellation takes host.m, when it gets it, for as long as it signals.
SignalCancellation(t) ==
    /\ call[t].at = "waits" /\ Served(t).lock = None
    /\ Put(call[t].host, [Served(t) EXCEPT !.lock = t])
    /\ CallIs(t, [call[t] EXCEPT !.at = "signal"])
    /\ UNCHANGED <<pc, mine, hostContext, running, lost>>

Signalled(t) ==
    /\ call[t].at = "signal"
    /\ Put(call[t].host, Unlocked(Served(t)))
    /\ CallIs(t, NoCall)
    /\ UNCHANGED <<pc, mine, hostContext, running, lost>>

Locks(t) == Provider(t) \/ LanguageRuntime(t) \/ SignalCancellation(t)
Proceeds(t) == Analyzer(t) \/ LoadProvider(t) \/ Answered(t) \/ Signalled(t)
Thread(t) == Begin(t) \/ Locks(t) \/ Record(t) \/ Proceeds(t) \/ CloseProvider(t)

----------------------------------------------------------------------------
(* Callbacks of plugins: Log, GetRootResource and SetRootResource.         *)

CallBack(p) ==
    LET h == running[p] IN
    /\ h # 0 /\ host[h].server = "serving" /\ p \notin host[h].rpcs
    /\ Put(h, [host[h] EXCEPT !.rpcs = @ \cup {p}])
    /\ UNCHANGED <<pc, mine, hostContext, running, call, lost>>

\* The handlers log or answer and never wait for host.m.
Answers_Locked(r) == r.lock = None    \* mutant: Log takes host.m
Answers(r) == TRUE

Answer(p) ==
    /\ \E h \in Hosts :
         /\ p \in host[h].rpcs /\ Answers(host[h])
         /\ Put(h, [host[h] EXCEPT !.rpcs = @ \ {p}])
    /\ UNCHANGED <<pc, mine, hostContext, running, call, lost>>

----------------------------------------------------------------------------
Next ==
    \/ \E w \in Workers : Worker(w)
    \/ \E t \in Threads : Thread(t)
    \/ \E p \in Plugins : CallBack(p) \/ Answer(p)

Spec == Init /\ [][Next]_vars

\* Threads that can go on do, and host.m is handed to whoever waits longest;
\* plugins are answered; the engine's operations and a plugin's series of
\* callbacks end.
Fairness ==
    /\ \A w \in Workers :
         /\ WF_vars(Context(w) \/ Assign(w) \/ Load(w)) /\ WF_vars(Close(w))
         /\ SF_vars(Return(w) /\ pc'[w] = "closing")
    /\ \A t \in Threads : SF_vars(Locks(t)) /\ SF_vars(Record(t)) /\ WF_vars(Proceeds(t))
    /\ \A p \in Plugins : WF_vars(Answer(p))

FairSpec == Spec /\ Fairness

----------------------------------------------------------------------------
(* Properties.                                                             *)

Locking(t) == call[t].at \in {"load", "info", "signal"}
Closing(w) == pc[w] \in {"kill", "cancel", "await"}

Typed ==
    /\ pc \in [Workers -> Phases]
    /\ host \in Seq(Host) /\ Len(host) <= MaxHosts
    /\ mine \in [Workers -> 0..Len(host)] /\ hostContext \in 0..Len(host)
    /\ running \in [Plugins -> 0..Len(host)]
    /\ call \in [Threads -> Call] /\ lost \subseteq Plugins
    /\ \A w \in Workers : At(w, "load") => hostContext # 0
    /\ \A w \in Workers : mine[w] = 0 <=> At(w, "idle")
    /\ \A t \in Threads : /\ call[t].host \in 0..Len(host)
                          /\ call[t].host = 0 <=> call[t].at = "none"

LockIsHeld ==
    \A h \in Hosts :
        /\ \A t \in Threads : host[h].lock = t <=> Locking(t) /\ call[t].host = h
        /\ \A w \in Workers : host[h].lock = w <=> Closing(w) /\ mine[w] = h

\* The host keeps its types, and host.m is held by one who is at work with it
\* and by nobody else (every method locks it and defers the Unlock).
TypeOK == Typed /\ LockIsHeld

\* Nothing is left of a host that no worker holds: its server has stopped and no
\* plugin that reported itself and closed still runs; or it is one that
\* createPluginHost or LoadStack gave up, and never had a plugin.
HostsClose ==
    \A h \in Hosts : (\A w \in Workers : mine[w] # h) =>
        \/ host[h].server = "stopped" /\ \A p \in Plugins : running[p] = h => p \in lost
        \/ host[h] = NewHost /\ \A p \in Plugins : running[p] # h

\* "The set of unique resource plugins we'll report": no plugin is listed twice,
\* whichever threads load it at once.
ReportedOnce ==
    \A h \in Hosts : \A i, j \in 1..Len(host[h].plugins) :
        host[h].plugins[i] = host[h].plugins[j] => i = j

\* SignalCancellation never signals a plugin that was closed, unless its Close
\* failed, although nothing keeps it from running beside CloseProvider and after
\* Close.
SignalledAreOpen ==
    \A t \in Threads : call[t].at = "signal" =>
        \A p \in Served(t).loaded \ lost : running[p] = call[t].host

\* A worker that sends on the cancel channel of its server is received: nobody sent
\* before it, the engine's own close of its plugin context included (host_server.go
\* Cancel, stack.go wrappedHost).
CancelIsTaken == \A w \in Workers : At(w, "cancel") => host[mine[w]].server = "serving"

\* Close always ends: neither a callback in progress, a late signal nor the
\* server's channel holds it for ever with host.m taken, and the worker goes on.
CloseEnds == \A w \in Workers : At(w, "closing") ~> At(w, "idle")

\* A call of the host returns, although the plugin that another one launches
\* calls back while host.m is held.
CallsEnd == \A t \in Threads : call[t] # NoCall ~> call[t] = NoCall

(* What comments say and the code does not keep.                           *)

\* resourcePlugins is "the set of loaded resource plugins" (host.go): while no
\* call is in progress, a plugin that runs is in it, for Close to close.
LoadedIsAll ==
    \A w \in Workers : At(w, "engine") /\ host[mine[w]].lock = None =>
        \A p \in Plugins : running[p] = mine[w] => p \in host[mine[w]].loaded

\* createPluginHost returns the context "to be able to conveniently close the
\* host" (builder.go): a host whose context was returned and that no worker holds
\* any more is closed.
ReturnedIsClosed ==
    hostContext # 0 /\ (\A w \in Workers : mine[w] # hostContext)
      => host[hostContext].server = "stopped"

\* "Cancel signals that the engine should be terminated, awaits its termination,
\* and returns" (host_server.go): with several workers, too.
CancelReturns == \A w \in Workers : At(w, "cancel") ~> ~At(w, "cancel")
=============================================================================

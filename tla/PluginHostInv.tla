---------------------------- MODULE PluginHostInv ----------------------------
(***************************************************************************)
(* The inductive invariant behind the safety properties of PluginHost, in  *)
(* named parts.  The host run checks it; PluginHostProofs proves it.       *)
(***************************************************************************)
EXTENDS PluginHost

\* What is recorded runs, unless its Close failed, and so does what is about to be.
Recorded ==
    /\ \A h \in Hosts : \A p \in host[h].loaded :
           running[p] = h \/ (running[p] = 0 /\ p \in lost)
    /\ \A t \in Threads : call[t].at = "info" =>
           call[t].plugin \in Plugins /\ running[call[t].plugin] = call[t].host

\* A call of an operation is of the host of a worker that is in one.
InOperation ==
    \A t \in Threads : call[t].at \in {"asks", "load", "info"} =>
        call[t].by \in Workers /\ At(call[t].by, "engine") /\ mine[call[t].by] = call[t].host

\* What the lives of the hosts rest on.
HostInv == TypeOK /\ Recorded /\ InOperation

\* No plugin was launched for the host, and nobody calls it.
Untouched(h) ==
    /\ host[h] = NewHost
    /\ \A p \in Plugins : running[p] # h
    /\ \A t \in Threads : call[t].host # h

\* No operation calls the host any more, a cancellation may.
Left(h) == \A t \in Threads : call[t].host = h => call[t].at \in {"waits", "signal"}

\* The plugins that run for the host are recorded, lost, or being asked.
Accounted(h) ==
    \A p \in Plugins : running[p] = h =>
        \/ p \in host[h].loaded \cup lost
        \/ \E t \in Threads : call[t].at = "info" /\ call[t].plugin = p

\* The host has nothing left but what was lost.
Emptyhanded(h) == host[h].loaded = {} /\ \A p \in Plugins : running[p] = h => p \in lost

Ended(h) == host[h].server = "stopped" /\ Left(h) /\ Emptyhanded(h)

\* A worker is past the loading of its stack and has not closed the host yet.
InUse(h) ==
    \E w \in Workers : /\ mine[w] = h
                       /\ pc[w] \in {"engine", "closing", "kill", "cancel", "await"}

\* The list of plugins has no duplicate, and the runtime only if it is cached.
Listed(h) ==
    /\ \A i, j \in 1..Len(host[h].plugins) :
           host[h].plugins[i] = host[h].plugins[j] => i = j
    /\ (\E w \in Workers : At(w, "engine") /\ mine[w] = h) /\ ~host[h].runtime =>
           \A i \in 1..Len(host[h].plugins) : host[h].plugins[i] # "embeddedLanguageRuntime"

OneWorker == \A v, w \in Workers : v = w

\* What holds of a host besides when no other worker can come to use it.
Alone(h) ==
    /\ Listed(h)
    /\ \A w \in Workers : mine[w] = h =>
         /\ pc[w] \in {"context", "assign", "load"} => Untouched(h)
         /\ At(w, "load") => hostContext = h
         /\ ~At(w, "await") => host[h].server = "serving"

\* While a host is in use nobody who uses it can leave it but by closing it, and it
\* is closed once: hosts that are not in use were never used, or have ended.
Lives(h) ==
    /\ Accounted(h)
    /\ InUse(h) \/ Untouched(h) \/ Ended(h)
    /\ \A w \in Workers : mine[w] = h =>
         /\ pc[w] \in {"cancel", "await"} => host[h].loaded = {}
         /\ At(w, "await") => host[h].server = "draining"
    /\ OneWorker => Alone(h)

HostLives == \A h \in Hosts : Lives(h)

\* The inductive invariant: calls, plugins and locks belong together, and every
\* host is untouched, in use, or ended.
HostIInv == HostInv /\ HostLives
=============================================================================

-------------------------- MODULE PluginHostProofs --------------------------
(***************************************************************************)
(* Proofs of the safety properties of PluginHost for every set of engine   *)
(* threads, plugins and requests and every number of hosts: of the         *)
(* inductive invariant, TypeOK, SignalledAreOpen and HostsClose for any    *)
(* number of workers, of ReportedOnce and CancelIsTaken for one.           *)
(***************************************************************************)
EXTENDS PluginHostInv, TLAPS

----------------------------------------------------------------------------
(* Hosts and how they change.                                              *)

\* Replacing one host leaves the others as they are.
LEMMA PutIs ==
  ASSUME Typed, NEW h \in Hosts, NEW r \in Host, Put(h, r)
  PROVE  /\ host' \in Seq(Host) /\ Len(host') = Len(host) /\ Hosts' = Hosts
         /\ host'[h] = r
         /\ \A g \in Hosts : g # h => host'[g] = host[g]
BY DEF Typed, Put, Hosts

\* A worker goes on.
LEMMA GotoIs ==
  ASSUME Typed, NEW w \in Workers, NEW to \in Phases, Goto(w, to)
  PROVE  /\ pc' \in [Workers -> Phases] /\ pc'[w] = to
         /\ \A v \in Workers : v # w => pc'[v] = pc[v]
BY DEF Typed, Goto

\* It takes a host in hand, or lets it go.
LEMMA HoldIs ==
  ASSUME Typed, NEW w \in Workers, NEW h \in 0..Len(host), Hold(w, h)
  PROVE  /\ mine' \in [Workers -> 0..Len(host)] /\ mine'[w] = h
         /\ \A v \in Workers : v # w => mine'[v] = mine[v]
BY DEF Typed, Hold

\* A new host is added behind the others.
LEMMA AddIs ==
  ASSUME Typed, host' = Append(host, NewHost), Len(host) < MaxHosts
  PROVE  /\ host' \in Seq(Host) /\ Len(host') = Len(host) + 1
         /\ Hosts' = Hosts \cup {Len(host) + 1} /\ Len(host) + 1 \notin Hosts
         /\ host'[Len(host) + 1] = NewHost
         /\ \A g \in Hosts : host'[g] = host[g]
         /\ Len(host') <= MaxHosts /\ Len(host) \in Nat
<1>1. NewHost \in Host
  BY DEF NewHost, Host
<1> QED BY <1>1, PluginHostAssumption DEF Typed, Hosts, PluginHostAssumption

\* What a worker and a thread have in hand is one of the hosts.
LEMMA InHand ==
  ASSUME Typed
  PROVE  /\ \A h \in Hosts : host[h] \in Host
         /\ \A w \in Workers : ~At(w, "idle") => mine[w] \in Hosts
         /\ \A t \in Threads : call[t] \in Call /\ (call[t].at # "none" => call[t].host \in Hosts)
         /\ \A p \in Plugins : running[p] # 0 => running[p] \in Hosts
         /\ hostContext # 0 => hostContext \in Hosts
         /\ Len(host) \in Nat /\ MaxHosts \in Nat /\ NoCall \in Call
<1>1. Len(host) \in Nat /\ MaxHosts \in Nat
  BY PluginHostAssumption DEF Typed, PluginHostAssumption
<1>2. NoCall \in Call
  BY <1>1 DEF NoCall, Call
<1> QED BY <1>1, <1>2 DEF Typed, Hosts, At

\* The edits of a host that the methods make.
LEMMA HostEdits ==
  ASSUME NEW r \in Host
  PROVE  /\ \A l \in {None} \cup Workers \cup Threads : [r EXCEPT !.lock = l] \in Host
         /\ Unlocked(r) \in Host
         /\ \A s \in {"serving", "draining", "stopped"} : [r EXCEPT !.server = s] \in Host
         /\ Unlocked([r EXCEPT !.server = "stopped"]) \in Host
         /\ Emptied(r) \in Host
         /\ [r EXCEPT !.runtime = TRUE,
                      !.plugins = Append(@, "embeddedLanguageRuntime")] \in Host
         /\ \A p \in Plugins : /\ [r EXCEPT !.loaded = @ \ {p}] \in Host
                               /\ [r EXCEPT !.rpcs = @ \cup {p}] \in Host
                               /\ [r EXCEPT !.rpcs = @ \ {p}] \in Host
                               /\ Reported(r, p) \in Seq(Infos \cup {"embeddedLanguageRuntime"})
                               /\ Unlocked([r EXCEPT !.loaded = @ \cup {p},
                                                     !.plugins = Reported(r, p)]) \in Host
<1>1. \A p \in Plugins : Reported(r, p) \in Seq(Infos \cup {"embeddedLanguageRuntime"})
  <2> TAKE p \in Plugins
  <2>1. Info[p] \in Infos \cup {"embeddedLanguageRuntime"}
    BY PluginHostAssumption DEF PluginHostAssumption
  <2>2. r.plugins \in Seq(Infos \cup {"embeddedLanguageRuntime"})
    BY DEF Host
  <2> QED BY <2>1, <2>2 DEF Reported
<1>2. [r EXCEPT !.runtime = TRUE, !.plugins = Append(@, "embeddedLanguageRuntime")] \in Host
  <2>1. Append(r.plugins, "embeddedLanguageRuntime") \in Seq(Infos \cup {"embeddedLanguageRuntime"})
    BY DEF Host
  <2> QED BY <2>1 DEF Host
<1>3. \A p \in Plugins : Unlocked([r EXCEPT !.loaded = @ \cup {p}, !.plugins = Reported(r, p)]) \in Host
  BY <1>1 DEF Host, Unlocked
<1> QED BY <1>1, <1>2, <1>3 DEF Host, Unlocked, Emptied

\* Nobody else has what a holder of host.m has in hand.
LEMMA Exclusion ==
  ASSUME TypeOK
  PROVE  /\ \A w \in Workers : Closing(w) => mine[w] \in Hosts /\ host[mine[w]].lock = w
         /\ \A t \in Threads : Locking(t) => call[t].host \in Hosts /\ host[call[t].host].lock = t
<1>1. \A w \in Workers : Closing(w) => mine[w] \in Hosts
  BY InHand DEF TypeOK, Closing, At
<1>2. \A t \in Threads : Locking(t) => call[t].host \in Hosts
  BY InHand DEF TypeOK, Locking
<1> QED BY <1>1, <1>2 DEF TypeOK, LockIsHeld

----------------------------------------------------------------------------
(* HostInv is inductive, whatever the number of workers.                   *)

\* createPluginHost makes a host that nobody knows.
LEMMA KeepsCreate ==
  ASSUME HostInv, NEW w \in Workers, Create(w)
  PROVE  HostInv'
<1> USE DEF HostInv, TypeOK
<1>1. /\ host' \in Seq(Host) /\ Len(host') = Len(host) + 1
      /\ Hosts' = Hosts \cup {Len(host) + 1} /\ Len(host) + 1 \notin Hosts
      /\ host'[Len(host) + 1] = NewHost
      /\ \A g \in Hosts : host'[g] = host[g]
      /\ Len(host') <= MaxHosts /\ Len(host) \in Nat
  BY AddIs DEF Create
<1>2. Typed'
  <2>1. /\ pc' \in [Workers -> Phases] /\ pc'[w] = "context"
        /\ \A v \in Workers : v # w => pc'[v] = pc[v]
    BY GotoIs DEF Create, Phases
  <2>2. /\ mine' \in [Workers -> 0..Len(host')] /\ mine'[w] = Len(host) + 1
        /\ \A v \in Workers : v # w => mine'[v] = mine[v]
    BY <1>1 DEF Create, Hold, Typed
  <2>3. /\ hostContext \in 0..Len(host') /\ running \in [Plugins -> 0..Len(host')]
        /\ \A t \in Threads : call[t].host \in 0..Len(host')
    BY <1>1 DEF Typed
  <2>4. call' = call /\ lost' = lost /\ hostContext' = hostContext /\ running' = running
    BY DEF Create
  <2>5. Len(host) + 1 # 0
    BY <1>1
  <2> QED BY <1>1, <2>1, <2>2, <2>3, <2>4, <2>5 DEF Typed, At
<1>3. LockIsHeld'
  <2>1. \A t \in Threads : call[t].host \in 0..Len(host)
    BY DEF Typed
  <2>2. \A v \in Workers : mine[v] \in 0..Len(host)
    BY DEF Typed
  <2>3. /\ \A v \in Workers : v # w => pc'[v] = pc[v] /\ mine'[v] = mine[v]
        /\ pc'[w] = "context" /\ pc[w] = "idle" /\ mine'[w] = Len(host) + 1 /\ call' = call
    BY DEF Create, Typed, Goto, Hold, At
  <2>4. ASSUME NEW g \in Hosts'
        PROVE  /\ \A t \in Threads : host'[g].lock = t <=> Locking(t)' /\ call'[t].host = g
               /\ \A v \in Workers : host'[g].lock = v <=> Closing(v)' /\ mine'[v] = g
    <3>1. CASE g \in Hosts
      BY <3>1, <1>1, <2>1, <2>2, <2>3 DEF LockIsHeld, Locking, Closing
    <3>2. CASE g = Len(host) + 1
      <4>1. host'[g].lock = None
        BY <3>2, <1>1 DEF NewHost
      <4> QED BY <3>2, <4>1, <1>1, <2>1, <2>2, <2>3, PluginHostAssumption
              DEF LockIsHeld, Locking, Closing, PluginHostAssumption
    <3> QED BY <3>1, <3>2, <1>1
  <2> QED BY <2>4 DEF LockIsHeld
<1>4. Recorded'
  <2>1. host'[Len(host) + 1].loaded = {}
    BY <1>1 DEF NewHost
  <2> QED BY <1>1, <2>1 DEF Recorded, Create
<1>5. InOperation'
  BY DEF InOperation, Create, Typed, Goto, Hold, At
<1> QED BY <1>2, <1>3, <1>4, <1>5

\* Up to its operations and between them, a worker changes no host.
LEMMA KeepsMoves ==
  ASSUME HostInv, NEW w \in Workers, Context(w) \/ Assign(w) \/ Load(w) \/ Return(w)
  PROVE  HostInv'
<1> USE DEF HostInv, TypeOK
<1>1. UNCHANGED <<host, running, call>>
  BY DEF Context, Assign, Load, Return, EngineCloses
<1>2. /\ \A v \in Workers : v # w => pc'[v] = pc[v] /\ mine'[v] = mine[v]
      /\ ~Closing(w) /\ ~Closing(w)' /\ ~At(w, "idle")
      /\ \A t \in Threads : ~Operating(t, w)
  <2>1. ~At(w, "engine") => \A t \in Threads : ~Operating(t, w)
    BY DEF InOperation, Operating
  <2> QED BY <2>1 DEF Context, Assign, Load, Return, Goto, Hold, Typed, At, Closing
<1>3. Typed'
  <2>1. hostContext \in 0..Len(host) /\ mine[w] \in 0..Len(host) /\ mine[w] # 0
    BY <1>2 DEF Typed
  <2>2. /\ pc' \in [Workers -> Phases]
        /\ mine' \in [Workers -> 0..Len(host)] /\ hostContext' \in 0..Len(host)
        /\ (mine'[w] = 0 <=> pc'[w] = "idle")
        /\ pc'[w] = "load" => hostContext' # 0
        /\ lost' = lost /\ (hostContext # 0 => hostContext' # 0)
    <3>1. 0 \in 0..Len(host) /\ mine[w] \in 0..Len(host) /\ pc \in [Workers -> Phases]
          /\ mine \in [Workers -> 0..Len(host)]
      BY InHand DEF Typed
    <3>2. CASE Context(w)
      BY <2>1, <3>1, <3>2, GotoIs, HoldIs DEF Context, Phases
    <3>3. CASE Assign(w)
      BY <2>1, <3>1, <3>3, GotoIs DEF Assign, Phases
    <3>4. CASE Load(w)
      <4>1. hostContext # 0
        BY <3>4 DEF Typed, Load
      <4> QED BY <2>1, <3>1, <3>4, <4>1, GotoIs, HoldIs DEF Load, Phases
    <3>5. CASE Return(w)
      BY <2>1, <3>1, <3>5, GotoIs DEF Return, Phases
    <3> QED BY <3>2, <3>3, <3>4, <3>5
  <2> QED BY <1>1, <1>2, <2>2 DEF Typed, At
<1>4. LockIsHeld'
  BY <1>1, <1>2 DEF LockIsHeld, Hosts, Closing, Locking
<1>5. Recorded'
  BY <1>1 DEF Recorded, Hosts, Context, Assign, Load, Return
<1>6. InOperation'
  BY <1>1, <1>2 DEF InOperation, Operating, At
<1> QED BY <1>3, <1>4, <1>5, <1>6

\* Close holds host.m from its first step to its last.
LEMMA KeepsClose ==
  ASSUME HostInv, NEW w \in Workers, Close(w)
  PROVE  HostInv'
<1> USE DEF HostInv, TypeOK
<1> DEFINE h == mine[w]  r == host[mine[w]]
<1>1. h \in Hosts /\ r \in Host /\ ~At(w, "engine") /\ ~At(w, "engine")' /\ ~At(w, "idle")
  BY InHand DEF Close, CloseLock, Kill, Cancel, Await, At, Goto, Typed
<1> DEFINE Edit(n) ==
      \/ At(w, "closing") /\ r.lock = None /\ n.lock = w /\ n.loaded = r.loaded
      \/ At(w, "kill") /\ n.lock = r.lock /\ n.loaded = {}
      \/ At(w, "cancel") /\ n.lock = r.lock /\ n.loaded = r.loaded
      \/ At(w, "await") /\ n.lock = None /\ n.loaded = r.loaded
<1>2. PICK n \in Host : Put(h, n) /\ Edit(n)
  <2> SUFFICES \E n \in Host : Put(h, n) /\ Edit(n)
    OBVIOUS
  <2>1. CASE CloseLock(w)
    <3> DEFINE n == [r EXCEPT !.lock = w]
    <3>1. n \in Host /\ n.loaded = r.loaded /\ n.lock = w
      BY <1>1 DEF Host
    <3>2. Put(h, n) /\ r.lock = None /\ At(w, "closing")
      BY <2>1 DEF CloseLock
    <3> QED BY <2>1, <3>1, <3>2
  <2>2. CASE Kill(w)
    <3> DEFINE n == Emptied(r)
    <3>1. n \in Host /\ n.loaded = {} /\ n.lock = r.lock
      BY <1>1 DEF Host, Emptied
    <3>2. Put(h, n) /\ At(w, "kill")
      BY <2>2 DEF Kill
    <3> QED BY <2>2, <3>1, <3>2
  <2>3. CASE Cancel(w)
    <3> DEFINE n == [r EXCEPT !.server = "draining"]
    <3>1. n \in Host /\ n.loaded = r.loaded /\ n.lock = r.lock
      BY <1>1 DEF Host
    <3>2. Put(h, n) /\ At(w, "cancel")
      BY <2>3 DEF Cancel
    <3> QED BY <2>3, <3>1, <3>2
  <2>4. CASE Await(w)
    <3> DEFINE n == Unlocked([r EXCEPT !.server = "stopped"])
    <3>1. n \in Host /\ n.loaded = r.loaded /\ n.lock = None
      BY <1>1 DEF Host, Unlocked
    <3>2. Put(h, n) /\ At(w, "await")
      BY <2>4 DEF Await
    <3> QED BY <2>4, <3>1, <3>2
  <2> QED BY <2>1, <2>2, <2>3, <2>4 DEF Close
<1>3. /\ host' \in Seq(Host) /\ Len(host') = Len(host) /\ Hosts' = Hosts
      /\ host'[h] = n /\ \A g \in Hosts : g # h => host'[g] = host[g]
  BY <1>1, <1>2, PutIs
<1>4. /\ call' = call /\ hostContext' = hostContext
      /\ \A v \in Workers : v # w => pc'[v] = pc[v] /\ mine'[v] = mine[v]
      /\ pc' \in [Workers -> Phases] /\ mine' \in [Workers -> 0..Len(host)]
      /\ \/ CloseLock(w) /\ pc[w] = "closing" /\ pc'[w] = "kill" /\ mine'[w] = h
         \/ Kill(w) /\ pc[w] = "kill" /\ pc'[w] = "cancel" /\ mine'[w] = h
         \/ Cancel(w) /\ pc[w] = "cancel" /\ pc'[w] = "await" /\ mine'[w] = h
         \/ Await(w) /\ pc[w] = "await" /\ pc'[w] = "idle" /\ mine'[w] = 0
  <2>1. 0 \in 0..Len(host) /\ mine \in [Workers -> 0..Len(host)]
    BY InHand DEF Typed
  <2>2. CASE CloseLock(w)
    BY <2>1, <2>2, GotoIs DEF CloseLock, At, Phases
  <2>3. CASE Kill(w)
    BY <2>1, <2>3, GotoIs DEF Kill, At, Phases
  <2>4. CASE Cancel(w)
    BY <2>1, <2>4, GotoIs DEF Cancel, At, Phases
  <2>5. CASE Await(w)
    BY <2>1, <2>5, GotoIs, HoldIs DEF Await, At, Phases
  <2> QED BY <2>2, <2>3, <2>4, <2>5 DEF Close
<1>5. \A t \in Threads : call[t].at \in {"asks", "load", "info"} => call[t].by # w
  BY <1>1 DEF InOperation
<1>6. Typed'
  <2>1. running' \in [Plugins -> 0..Len(host)] /\ lost' \subseteq Plugins
    <3>1. r.loaded \subseteq Plugins /\ 0 \in 0..Len(host)
      BY <1>1, InHand DEF Host
    <3>2. CASE Kill(w)
      BY <3>1, <3>2 DEF Typed, Kill, Victims
    <3> QED BY <3>2 DEF Close, CloseLock, Cancel, Await, Typed
  <2>2. (mine'[w] = 0 <=> pc'[w] = "idle") /\ pc'[w] # "load"
    BY <1>1, <1>4 DEF Hosts
  <2> QED BY <1>3, <1>4, <2>1, <2>2 DEF Typed, At
<1>7. LockIsHeld'
  <2>1. \/ ~Closing(w) /\ r.lock = None /\ n.lock = w /\ Closing(w)' /\ mine'[w] = h
        \/ Closing(w) /\ r.lock = w /\ n.lock = w /\ Closing(w)' /\ mine'[w] = h
        \/ Closing(w) /\ r.lock = w /\ n.lock = None /\ ~Closing(w)'
    <3>1. Closing(w) => r.lock = w
      BY <1>1 DEF LockIsHeld
    <3> QED BY <1>2, <1>4, <3>1 DEF Closing, At
  <2>2. None \notin Workers \cup Threads /\ Workers \cap Threads = {}
    BY PluginHostAssumption DEF PluginHostAssumption
  <2>3. ASSUME NEW g \in Hosts, g # h
        PROVE  /\ \A t \in Threads : host'[g].lock = t <=> Locking(t)' /\ call'[t].host = g
               /\ \A v \in Workers : host'[g].lock = v <=> Closing(v)' /\ mine'[v] = g
    <3>1. Closing(w)' => mine'[w] = h
      BY <2>1
    <3> QED BY <1>3, <1>4, <2>3, <3>1 DEF LockIsHeld, Closing, Locking
  <2>4. /\ \A t \in Threads : host'[h].lock = t <=> Locking(t)' /\ call'[t].host = h
        /\ \A v \in Workers : host'[h].lock = v <=> Closing(v)' /\ mine'[v] = h
    <3>1. \A v \in Workers : v # w => (Closing(v)' <=> Closing(v))
      BY <1>4 DEF Closing
    <3>2. \A t \in Threads : Locking(t)' <=> Locking(t)
      BY <1>4 DEF Locking
    <3> QED BY <1>1, <1>3, <1>4, <2>1, <2>2, <3>1, <3>2 DEF LockIsHeld
  <2> QED BY <1>3, <2>3, <2>4 DEF LockIsHeld
<1>8. Recorded'
  <2>1. ASSUME NEW p \in Plugins, running'[p] # running[p]
        PROVE  p \in r.loaded /\ n.loaded = {} /\ running[p] = h /\ r.lock = w
    <3>1. Kill(w)
      BY <2>1 DEF Close, CloseLock, Cancel, Await
    <3>2. p \in r.loaded /\ running[p] # 0
      BY <2>1, <3>1 DEF Kill, Victims, Typed
    <3>3. n.loaded = {}
      BY <1>2, <3>1 DEF Kill, At
    <3>4. r.lock = w
      BY <1>1, <3>1 DEF Kill, At, Closing, LockIsHeld
    <3> QED BY <1>1, <3>2, <3>3, <3>4 DEF Recorded
  <2>2. \A g \in Hosts : host[g].loaded \subseteq Plugins
    BY InHand DEF Host
  <2>3. ASSUME NEW g \in Hosts, NEW p \in host'[g].loaded
        PROVE  running'[p] = g \/ (running'[p] = 0 /\ p \in lost')
    <3>1. /\ p \in host[g].loaded /\ p \in Plugins
          /\ running[p] = g \/ (running[p] = 0 /\ p \in lost)
      BY <1>2, <1>3, <2>2, <2>3 DEF Recorded
    <3>2. lost \subseteq lost' /\ h # 0 /\ g # 0
      BY <1>1, <1>3, <2>3 DEF Close, CloseLock, Kill, Cancel, Await, Hosts
    <3> QED BY <1>3, <2>1, <2>3, <3>1, <3>2
  <2>4. ASSUME NEW t \in Threads, call[t].at = "info"
        PROVE  call[t].plugin \in Plugins /\ running'[call[t].plugin] = call[t].host
    <3>1. call[t].plugin \in Plugins /\ running[call[t].plugin] = call[t].host
      BY <2>4 DEF Recorded
    <3>2. call[t].host \in Hosts /\ host[call[t].host].lock = t
      BY <2>4, Exclusion DEF Locking
    <3>3. t # w
      BY PluginHostAssumption DEF PluginHostAssumption
    <3> QED BY <2>1, <3>1, <3>2, <3>3
  <2> QED BY <1>3, <1>4, <2>3, <2>4 DEF Recorded
<1>9. InOperation'
  BY <1>4, <1>5 DEF InOperation, At
<1> QED BY <1>6, <1>7, <1>8, <1>9

----------------------------------------------------------------------------
(* Threads.                                                                *)

\* The host h becomes n, and the others stay.
Edited(h, n) ==
  /\ host' \in Seq(Host) /\ Len(host') = Len(host) /\ Hosts' = Hosts
  /\ host'[h] = n
  /\ \A g \in Hosts : g # h => host'[g] = host[g]

\* What a thread that goes on to c does with host.m: nothing, Lock or Unlock.
Locked(c) == c.at \in {"load", "info", "signal"}
LockStep(t, c, r, n) ==
  \/ n.lock = r.lock /\ (Locked(c) <=> Locking(t))
  \/ r.lock = None /\ n.lock = t /\ Locked(c)
  \/ r.lock = t /\ n.lock = None /\ ~Locked(c)

\* A call stays with one host, and an operation's with its worker's.
OwnCall(t, c, h) ==
  /\ c \in Call
  /\ call[t].at # "none" => call[t].host = h
  /\ c.at = "none" => c.host = 0
  /\ c.at # "none" => c.host = h
  /\ c.at \in {"asks", "load", "info"} => c.by \in Workers /\ At(c.by, "engine") /\ mine[c.by] = h

\* A step of a thread that is one of these keeps what does not speak of plugins.
LEMMA ThreadKeeps ==
  ASSUME HostInv, NEW t \in Threads, NEW c, NEW h \in Hosts, NEW n \in Host,
         UNCHANGED <<pc, mine, hostContext>>, CallIs(t, c), Edited(h, n),
         LockStep(t, c, host[h], n), OwnCall(t, c, h),
         running' \in [Plugins -> 0..Len(host)], lost' \subseteq Plugins
  PROVE  Typed' /\ LockIsHeld' /\ InOperation' /\ call'[t] = c
         /\ \A s \in Threads : s # t => call'[s] = call[s]
<1> USE DEF HostInv, TypeOK
<1>1. /\ call' \in [Threads -> Call] /\ call'[t] = c
      /\ \A s \in Threads : s # t => call'[s] = call[s]
  BY DEF CallIs, Typed, OwnCall
<1>2. Typed'
  <2>1. c.host \in 0..Len(host) /\ (c.host = 0 <=> c.at = "none")
    BY InHand DEF OwnCall, Hosts
  <2>2. \A s \in Threads : call'[s].host \in 0..Len(host) /\ (call'[s].host = 0 <=> call'[s].at = "none")
    BY <1>1, <2>1 DEF Typed
  <2> QED BY <1>1, <2>2 DEF Typed, Edited, At
<1>3. LockIsHeld'
  <2>1. None \notin Workers \cup Threads /\ Workers \cap Threads = {}
    BY PluginHostAssumption DEF PluginHostAssumption
  <2>2. \A s \in Threads : s # t => (Locking(s)' <=> Locking(s))
    BY <1>1 DEF Locking
  <2>3. \A v \in Workers : Closing(v)' <=> Closing(v)
    BY DEF Closing
  <2>4. (Locking(t)' <=> Locked(c)) /\ (Locked(c) => c.host = h) /\ (Locking(t) => call[t].host = h)
    BY <1>1 DEF Locking, Locked, OwnCall
  <2>5. ASSUME NEW g \in Hosts, g # h
        PROVE  /\ \A s \in Threads : host'[g].lock = s <=> Locking(s)' /\ call'[s].host = g
               /\ \A v \in Workers : host'[g].lock = v <=> Closing(v)' /\ mine'[v] = g
    BY <1>1, <2>2, <2>3, <2>4, <2>5 DEF LockIsHeld, Edited
  <2>6. /\ \A s \in Threads : host'[h].lock = s <=> Locking(s)' /\ call'[s].host = h
        /\ \A v \in Workers : host'[h].lock = v <=> Closing(v)' /\ mine'[v] = h
    BY <1>1, <2>1, <2>2, <2>3, <2>4 DEF LockIsHeld, Edited, LockStep
  <2> QED BY <2>5, <2>6 DEF LockIsHeld, Edited
<1>4. InOperation'
  BY <1>1 DEF InOperation, OwnCall, At
<1> QED BY <1>1, <1>2, <1>3, <1>4

\* Calls that begin, end or go on without a plugin.
LEMMA KeepsCalls ==
  ASSUME HostInv, NEW t \in Threads, 
         Begin(t) \/ Analyzer(t) \/ LanguageRuntime(t) \/ Provider(t) \/ Answered(t)
           \/ SignalCancellation(t) \/ Signalled(t)
  PROVE  HostInv'
<1> USE DEF HostInv, TypeOK
<1>1. UNCHANGED <<pc, mine, hostContext, running, lost>>
  BY DEF Begin, Analyzer, LanguageRuntime, Provider, Answered, SignalCancellation, Signalled
<1>2. running \in [Plugins -> 0..Len(host)] /\ lost \subseteq Plugins
  BY DEF Typed
<1>3. call[t] \in Call /\ NoCall \in Call /\ NoCall.at = "none" /\ NoCall.host = 0
  BY InHand DEF NoCall
<1>4. ASSUME NEW c, NEW h \in Hosts, NEW n \in Host, CallIs(t, c), Edited(h, n),
             LockStep(t, c, host[h], n), OwnCall(t, c, h), n.loaded = host[h].loaded,
             c.at # "info"
      PROVE  HostInv'
  <2>1. /\ Typed' /\ LockIsHeld' /\ InOperation' /\ call'[t] = c
        /\ \A s \in Threads : s # t => call'[s] = call[s]
    BY <1>1, <1>2, <1>4, ThreadKeeps
  <2>2. Recorded'
    BY <1>1, <1>4, <2>1 DEF Recorded, Edited
  <2> QED BY <2>1, <2>2
<1>5. ASSUME NEW h \in Hosts PROVE Edited(h, host[h]) \/ host' # host
  BY DEF Edited, Hosts, Typed
<1>6. CASE Begin(t)
  <2>1. PICK w \in Workers, c \in Call :
          /\ CallIs(t, c) /\ At(w, "engine") /\ call[t] = NoCall /\ host' = host
          /\ c \in Call /\ c.at \in {"asks", "waits"} /\ c.by = w /\ c.host = mine[w]
    <3>1. PICK w \in Workers :
            /\ At(w, "engine") /\ call[t] = NoCall /\ host' = host
            /\ \/ \E kinds \in Requests :
                    CallIs(t, [[NoCall EXCEPT !.by = w, !.host = mine[w]]
                                 EXCEPT !.at = "asks", !.todo = kinds])
               \/ CallIs(t, [[NoCall EXCEPT !.by = w, !.host = mine[w]] EXCEPT !.at = "waits"])
      BY <1>6 DEF Begin
    <3>2. mine[w] \in 0..MaxHosts
      BY InHand DEF Typed
    <3>3. CASE CallIs(t, [[NoCall EXCEPT !.by = w, !.host = mine[w]] EXCEPT !.at = "waits"])
      <4> DEFINE c == [[NoCall EXCEPT !.by = w, !.host = mine[w]] EXCEPT !.at = "waits"]
      <4>1. c \in Call /\ c.at = "waits" /\ c.by = w /\ c.host = mine[w]
        BY <3>2 DEF NoCall, Call
      <4> QED BY <3>1, <3>3, <4>1
    <3>4. ASSUME NEW kinds \in Requests,
                 CallIs(t, [[NoCall EXCEPT !.by = w, !.host = mine[w]]
                              EXCEPT !.at = "asks", !.todo = kinds])
          PROVE  \E c : /\ CallIs(t, c) /\ c \in Call /\ c.at \in {"asks", "waits"}
                        /\ c.by = w /\ c.host = mine[w]
      <4> DEFINE c == [[NoCall EXCEPT !.by = w, !.host = mine[w]] EXCEPT !.at = "asks", !.todo = kinds]
      <4>1. kinds \subseteq Kinds
        BY PluginHostAssumption DEF PluginHostAssumption
      <4>2. c \in Call /\ c.at = "asks" /\ c.by = w /\ c.host = mine[w]
        BY <3>2, <4>1 DEF NoCall, Call, Kinds
      <4> QED BY <3>4, <4>2
    <3> QED BY <3>1, <3>3, <3>4
  <2>2. mine[w] \in Hosts
    BY <2>1, InHand DEF At
  <2>3. LockStep(t, c, host[mine[w]], host[mine[w]]) /\ OwnCall(t, c, mine[w])
    BY <1>3, <2>1, <2>2 DEF LockStep, OwnCall, Locked, Locking
  <2> QED BY <1>4, <1>5, <2>1, <2>2, <2>3, InHand
<1>7. ASSUME call[t].at # "none" PROVE call[t].host \in Hosts /\ host[call[t].host] \in Host
  BY <1>7, InHand
<1> DEFINE h == call[t].host
<1>8. ASSUME call[t].at = "asks", NEW kind \in Kinds
      PROVE  /\ Without(t, kind) \in Call /\ OwnCall(t, Without(t, kind), h)
             /\ Without(t, kind).at = "asks"
             /\ [Without(t, kind) EXCEPT !.at = "load"] \in Call
             /\ OwnCall(t, [Without(t, kind) EXCEPT !.at = "load"], h)
             /\ [Without(t, kind) EXCEPT !.at = "load"].at = "load"
  <2>1. call[t].by \in Workers /\ At(call[t].by, "engine") /\ mine[call[t].by] = h
    BY <1>8 DEF InOperation
  <2>2. Without(t, kind) \in Call /\ [Without(t, kind) EXCEPT !.at = "load"] \in Call
    BY <1>3 DEF Without, Call, Kinds
  <2> QED BY <1>3, <1>8, <2>1, <2>2 DEF Without, Call, OwnCall
<1>9. CASE Analyzer(t)
  <2>1. call[t].at = "asks" /\ CallIs(t, Without(t, "analyzer")) /\ host' = host
    BY <1>9 DEF Analyzer, Asks
  <2>2. LockStep(t, Without(t, "analyzer"), host[h], host[h])
    BY <1>8, <2>1 DEF LockStep, Locked, Locking, Kinds
  <2> QED BY <1>4, <1>5, <1>7, <1>8, <2>1, <2>2 DEF Kinds
<1>10. CASE LanguageRuntime(t)
  <2>1. call[t].at = "asks" /\ CallIs(t, Without(t, "language")) /\ host[h].lock = None
    BY <1>10 DEF LanguageRuntime, Asks, Served
  <2>2. PICK n \in Host : Edited(h, n) /\ n.lock = None /\ n.loaded = host[h].loaded
    <3> DEFINE n == [host[h] EXCEPT !.runtime = TRUE,
                                    !.plugins = Append(@, "embeddedLanguageRuntime")]
    <3>1. CASE Put(h, n)
      <4>1. n \in Host /\ n.lock = None /\ n.loaded = host[h].loaded
        <5>1. host[h] \in Host /\ host[h].lock = None
          BY <1>7, <2>1
        <5>2. n \in Host
          BY <5>1, HostEdits
        <5> QED BY <5>1, <5>2 DEF Host
      <4> QED BY <1>7, <2>1, <3>1, <4>1, PutIs DEF Edited
    <3>2. CASE host' = host
      BY <1>5, <1>7, <2>1, <3>2
    <3> QED BY <1>10, <3>1, <3>2 DEF LanguageRuntime, Served
  <2>3. LockStep(t, Without(t, "language"), host[h], n)
    BY <1>8, <2>1, <2>2 DEF LockStep, Locked, Locking, Kinds
  <2> QED BY <1>4, <1>7, <1>8, <2>1, <2>2, <2>3 DEF Kinds
<1>11. CASE Provider(t)
  <2> DEFINE c == [Without(t, "resource") EXCEPT !.at = "load"]
             n == [host[h] EXCEPT !.lock = t]
  <2>1. call[t].at = "asks" /\ CallIs(t, c) /\ host[h].lock = None /\ Put(h, n)
    BY <1>11 DEF Provider, Asks, Served
  <2>2. n \in Host /\ n.lock = t /\ n.loaded = host[h].loaded
    BY <1>7, <2>1 DEF Host
  <2>3. Edited(h, n)
    BY <1>7, <2>1, <2>2, PutIs DEF Edited
  <2>4. LockStep(t, c, host[h], n)
    BY <1>8, <2>1, <2>2 DEF LockStep, Locked, Kinds
  <2> QED BY <1>4, <1>7, <1>8, <2>1, <2>2, <2>3, <2>4 DEF Kinds
<1>12. OwnCall(t, NoCall, h)
  BY <1>3 DEF OwnCall
<1>13. CASE Answered(t)
  <2>1. call[t].at = "asks" /\ CallIs(t, NoCall) /\ host' = host
    BY <1>13 DEF Answered
  <2>2. LockStep(t, NoCall, host[h], host[h])
    BY <1>3, <2>1 DEF LockStep, Locked, Locking
  <2> QED BY <1>3, <1>4, <1>5, <1>7, <1>12, <2>1, <2>2
<1>14. CASE SignalCancellation(t)
  <2> DEFINE c == [call[t] EXCEPT !.at = "signal"]
             n == [host[h] EXCEPT !.lock = t]
  <2>1. call[t].at = "waits" /\ CallIs(t, c) /\ host[h].lock = None /\ Put(h, n)
    BY <1>14 DEF SignalCancellation, Served
  <2>2. n \in Host /\ n.lock = t /\ n.loaded = host[h].loaded
    BY <1>7, <2>1 DEF Host
  <2>3. Edited(h, n)
    BY <1>7, <2>1, <2>2, PutIs DEF Edited
  <2>4. c \in Call /\ c.at = "signal" /\ c.host = h
    BY <1>3 DEF Call
  <2>5. LockStep(t, c, host[h], n) /\ OwnCall(t, c, h)
    BY <2>1, <2>2, <2>4 DEF LockStep, Locked, OwnCall
  <2> QED BY <1>4, <1>7, <2>1, <2>2, <2>3, <2>4, <2>5
<1>15. CASE Signalled(t)
  <2> DEFINE n == Unlocked(host[h])
  <2>1. call[t].at = "signal" /\ CallIs(t, NoCall) /\ Put(h, n)
    BY <1>15 DEF Signalled, Served
  <2>2. n \in Host /\ n.lock = None /\ n.loaded = host[h].loaded
    BY <1>7, <2>1 DEF Host, Unlocked
  <2>3. Edited(h, n)
    BY <1>7, <2>1, <2>2, PutIs DEF Edited
  <2>4. host[h].lock = t
    BY <2>1, Exclusion DEF Locking
  <2>5. LockStep(t, NoCall, host[h], n)
    BY <1>3, <2>2, <2>4 DEF LockStep, Locked
  <2> QED BY <1>3, <1>4, <1>7, <1>12, <2>1, <2>2, <2>3, <2>5
<1> QED BY <1>6, <1>9, <1>10, <1>11, <1>13, <1>14, <1>15

\* A provider is launched while host.m is held, for this host alone.
LEMMA KeepsLoad ==
  ASSUME HostInv, NEW t \in Threads, LoadProvider(t)
  PROVE  HostInv'
<1> USE DEF HostInv, TypeOK
<1> DEFINE h == call[t].host
<1>1. /\ call[t].at = "load" /\ call[t] \in Call /\ h \in Hosts /\ host[h] \in Host
      /\ host[h].lock = t /\ lost \subseteq Plugins
      /\ call[t].by \in Workers /\ At(call[t].by, "engine") /\ mine[call[t].by] = h
      /\ UNCHANGED <<pc, mine, hostContext, lost>>
  BY InHand, Exclusion DEF LoadProvider, InOperation, Locking, Typed
<1>2. ASSUME NEW p \in Plugins, running[p] = 0, running' = [running EXCEPT ![p] = h],
             CallIs(t, [call[t] EXCEPT !.at = "info", !.plugin = p]), host' = host, p \notin lost
      PROVE  HostInv'
  <2> DEFINE c == [call[t] EXCEPT !.at = "info", !.plugin = p]
  <2>1. c \in Call /\ c.at = "info" /\ c.plugin = p /\ c.host = h /\ c.by = call[t].by
    BY <1>1 DEF Call
  <2>2. LockStep(t, c, host[h], host[h]) /\ OwnCall(t, c, h) /\ Edited(h, host[h])
    BY <1>1, <1>2, <2>1 DEF LockStep, OwnCall, Locked, Locking, Edited, Hosts, Typed
  <2>3. /\ running' \in [Plugins -> 0..Len(host)] /\ running'[p] = h
        /\ \A q \in Plugins : q # p => running'[q] = running[q]
    BY <1>1, <1>2 DEF Typed
  <2>4. /\ Typed' /\ LockIsHeld' /\ InOperation' /\ call'[t] = c
        /\ \A s \in Threads : s # t => call'[s] = call[s]
    BY <1>1, <1>2, <2>2, <2>3, ThreadKeeps
  <2>5. Recorded'
    <3>1. ASSUME NEW g \in Hosts, NEW q \in host[g].loaded
          PROVE  running'[q] = g \/ (running'[q] = 0 /\ q \in lost')
      <4>1. /\ q \in Plugins /\ g # 0 /\ q # p
            /\ running[q] = g \/ (running[q] = 0 /\ q \in lost)
        BY <1>2, <3>1, InHand DEF Recorded, Host, Hosts
      <4> QED BY <1>1, <2>3, <4>1
    <3>2. ASSUME NEW s \in Threads, call'[s].at = "info"
          PROVE  call'[s].plugin \in Plugins /\ running'[call'[s].plugin] = call'[s].host
      <4>1. CASE s = t
        BY <2>1, <2>3, <2>4, <4>1
      <4>2. CASE s # t
        <5>1. call[s].plugin \in Plugins /\ running[call[s].plugin] = call[s].host /\ call[s].host \in Hosts
          BY <2>4, <3>2, <4>2, InHand DEF Recorded
        <5> QED BY <1>2, <2>3, <2>4, <4>2, <5>1 DEF Hosts
      <4> QED BY <4>1, <4>2
    <3> QED BY <1>2, <3>1, <3>2 DEF Recorded, Hosts
  <2> QED BY <2>4, <2>5
<1>3. ASSUME Put(h, Unlocked(host[h])), CallIs(t, [call[t] EXCEPT !.at = "asks"]), running' = running
      PROVE  HostInv'
  <2> DEFINE c == [call[t] EXCEPT !.at = "asks"]
             n == Unlocked(host[h])
  <2>1. c \in Call /\ c.at = "asks" /\ c.host = h /\ c.by = call[t].by
    BY <1>1 DEF Call
  <2>2. n \in Host /\ n.lock = None /\ n.loaded = host[h].loaded
    BY <1>1 DEF Host, Unlocked
  <2>3. LockStep(t, c, host[h], n) /\ OwnCall(t, c, h) /\ Edited(h, n)
    BY <1>1, <1>3, <2>1, <2>2, PutIs DEF LockStep, OwnCall, Locked, Edited
  <2>4. running' \in [Plugins -> 0..Len(host)]
    BY <1>3 DEF Typed
  <2>5. /\ Typed' /\ LockIsHeld' /\ InOperation' /\ call'[t] = c
        /\ \A s \in Threads : s # t => call'[s] = call[s]
    BY <1>1, <1>3, <2>2, <2>3, <2>4, ThreadKeeps
  <2>6. Recorded'
    <3>1. \A g \in Hosts : host'[g].loaded = host[g].loaded
      BY <2>2, <2>3 DEF Edited
    <3>2. \A s \in Threads : call'[s].at = "info" => call'[s] = call[s]
      BY <2>1, <2>5
    <3> QED BY <1>1, <1>3, <2>3, <3>1, <3>2 DEF Recorded, Edited
  <2> QED BY <2>5, <2>6
<1> QED BY <1>2, <1>3 DEF LoadProvider, Served

\* What GetPluginInfo tells of the launched provider is recorded, or it fails.
LEMMA KeepsRecord ==
  ASSUME HostInv, NEW t \in Threads, Record(t)
  PROVE  HostInv'
<1> USE DEF HostInv, TypeOK
<1> DEFINE h == call[t].host
           p == call[t].plugin
           c == [call[t] EXCEPT !.at = "asks", !.plugin = None]
<1>1. /\ call[t].at = "info" /\ call[t] \in Call /\ h \in Hosts /\ host[h] \in Host
      /\ host[h].lock = t /\ p \in Plugins /\ running[p] = h
      /\ call[t].by \in Workers /\ At(call[t].by, "engine") /\ mine[call[t].by] = h
      /\ UNCHANGED <<pc, mine, hostContext, running>> /\ lost' \subseteq Plugins
      /\ running' \in [Plugins -> 0..Len(host)] /\ CallIs(t, c)
  BY InHand, Exclusion DEF Record, InOperation, Locking, Typed, Recorded
<1>2. PICK n \in Host : Put(h, n) /\ n.lock = None /\ n.loaded \subseteq host[h].loaded \cup {p}
  <2>1. /\ Unlocked(host[h]) \in Host /\ Unlocked(host[h]).lock = None
        /\ Unlocked(host[h]).loaded = host[h].loaded
    BY <1>1 DEF Host, Unlocked
  <2> DEFINE n == Unlocked([host[h] EXCEPT !.loaded = @ \cup {p},
                                           !.plugins = Reported(host[h], p)])
  <2>2. n \in Host /\ n.lock = None /\ n.loaded = host[h].loaded \cup {p}
    <3>1. n \in Host
      BY <1>1, HostEdits
    <3> QED BY <1>1, <3>1 DEF Host, Unlocked
  <2> QED BY <1>1, <2>1, <2>2 DEF Record, Served
<1>3. c \in Call /\ c.at = "asks" /\ c.host = h /\ c.by = call[t].by
  BY <1>1 DEF Call
<1>4. LockStep(t, c, host[h], n) /\ OwnCall(t, c, h) /\ Edited(h, n)
  BY <1>1, <1>2, <1>3, PutIs DEF LockStep, OwnCall, Locked, Edited
<1>5. /\ Typed' /\ LockIsHeld' /\ InOperation' /\ call'[t] = c
      /\ \A s \in Threads : s # t => call'[s] = call[s]
  BY <1>1, <1>4, ThreadKeeps
<1>6. Recorded'
  <2>0. lost \subseteq lost'
    BY DEF Record
  <2>1. \A g \in Hosts : \A q \in host'[g].loaded :
            running'[q] = g \/ (running'[q] = 0 /\ q \in lost')
    BY <1>1, <1>2, <1>4, <2>0 DEF Recorded, Edited
  <2>2. \A s \in Threads : call'[s].at = "info" => call'[s] = call[s]
    BY <1>3, <1>5
  <2> QED BY <1>1, <1>4, <2>1, <2>2 DEF Recorded, Edited
<1> QED BY <1>5, <1>6

\* What CloseProvider does to a host and one of its providers.
Closed(h, p) ==
  \/ /\ running' = [running EXCEPT ![p] = 0]
     /\ Put(h, [host[h] EXCEPT !.loaded = @ \ {p}])
     /\ UNCHANGED lost
  \/ /\ running' \in {running, [running EXCEPT ![p] = 0]}
     /\ lost' = lost \cup {p}
     /\ UNCHANGED host

\* A provider is closed while nobody holds host.m, so nobody asks it anything.
LEMMA KeepsCloseProvider ==
  ASSUME HostInv, NEW t \in Threads, CloseProvider(t)
  PROVE  HostInv'
<1> USE DEF HostInv, TypeOK
<1>1. PICK w \in Workers : At(w, "engine") /\ host[mine[w]].lock = None
        /\ \E p \in host[mine[w]].loaded : Closed(mine[w], p)
  BY DEF CloseProvider, Closed
<1> DEFINE h == mine[w]
<1>2. h \in Hosts /\ host[h] \in Host /\ UNCHANGED <<pc, mine, hostContext, call>>
  BY <1>1, InHand DEF At, CloseProvider
<1>3. PICK p \in host[h].loaded : Closed(h, p)
  BY <1>1
<1>4. p \in Plugins /\ running[p] \in {0, h}
  BY <1>2, <1>3 DEF Host, Recorded
<1>5. PICK n \in Host : /\ Edited(h, n) /\ n.lock = host[h].lock /\ n.loaded \subseteq host[h].loaded
                        /\ p \in n.loaded => p \in lost'
  <2> DEFINE n == [host[h] EXCEPT !.loaded = @ \ {p}]
  <2>1. CASE Put(h, n) /\ lost' = lost
    <3>1. n \in Host /\ n.lock = host[h].lock /\ n.loaded = host[h].loaded \ {p}
      BY <1>2 DEF Host
    <3>2. Edited(h, n)
      BY <1>2, <2>1, <3>1, PutIs DEF Edited
    <3> QED BY <3>1, <3>2
  <2>2. CASE host' = host /\ p \in lost'
    <3>1. Edited(h, host[h])
      BY <1>2, <2>2 DEF Edited, Hosts, Typed
    <3> QED BY <1>2, <2>2, <3>1
  <2> QED BY <1>3, <2>1, <2>2 DEF Closed
<1>6. /\ running' \in [Plugins -> 0..Len(host)] /\ running'[p] \in {0, running[p]}
      /\ \A q \in Plugins : q # p => running'[q] = running[q]
      /\ lost \subseteq lost' /\ lost' \subseteq Plugins
  BY <1>3, <1>4, InHand DEF Closed, Typed
<1>7. Typed'
  BY <1>2, <1>5, <1>6 DEF Typed, Edited, At
<1>8. LockIsHeld'
  <2>1. \A g \in Hosts : host'[g].lock = host[g].lock
    BY <1>5 DEF Edited
  <2> QED BY <1>2, <1>5, <2>1 DEF LockIsHeld, Edited, Closing, Locking
<1>9. Recorded'
  <2>1. ASSUME NEW g \in Hosts, NEW q \in host'[g].loaded
        PROVE  running'[q] = g \/ (running'[q] = 0 /\ q \in lost')
    <3>1. /\ q \in host[g].loaded /\ q \in Plugins /\ g # 0
          /\ running[q] = g \/ (running[q] = 0 /\ q \in lost)
      <4>1. q \in host[g].loaded /\ g \in 1..Len(host)
        BY <1>5, <2>1 DEF Edited, Hosts
      <4>2. host[g].loaded \subseteq Plugins
        BY <2>1, InHand DEF Host
      <4> QED BY <2>1, <4>1, <4>2 DEF Recorded
    <3>2. CASE q # p
      BY <1>6, <3>1, <3>2
    <3>3. CASE q = p /\ g = h
      BY <1>5, <1>6, <2>1, <3>1, <3>3 DEF Edited
    <3>4. CASE q = p /\ g # h
      BY <1>4, <1>6, <3>1, <3>4
    <3> QED BY <3>2, <3>3, <3>4
  <2>2. ASSUME NEW s \in Threads, call[s].at = "info"
        PROVE  call[s].plugin \in Plugins /\ running'[call[s].plugin] = call[s].host
    <3>1. /\ call[s].plugin \in Plugins /\ running[call[s].plugin] = call[s].host
          /\ call[s].host \in Hosts /\ host[call[s].host].lock = s
      BY <2>2, Exclusion DEF Recorded, Locking
    <3>2. call[s].host # h /\ call[s].host # 0
      BY <1>1, <3>1, PluginHostAssumption DEF PluginHostAssumption, Hosts
    <3> QED BY <1>4, <1>6, <3>1, <3>2
  <2> QED BY <1>2, <1>5, <2>1, <2>2 DEF Recorded, Edited
<1>10. InOperation'
  BY <1>2 DEF InOperation, At
<1> QED BY <1>7, <1>8, <1>9, <1>10

\* A callback changes what the host's server has in progress and nothing else.
LEMMA KeepsCallbacks ==
  ASSUME HostInv, NEW p \in Plugins, CallBack(p) \/ Answer(p)
  PROVE  HostInv'
<1> USE DEF HostInv, TypeOK
<1>1. UNCHANGED <<pc, mine, hostContext, running, call, lost>>
  BY DEF CallBack, Answer
<1>2. PICK h \in Hosts, n \in Host :
        Put(h, n) /\ n.lock = host[h].lock /\ n.loaded = host[h].loaded
  <2> SUFFICES \E h \in Hosts : \E n \in Host :
                 Put(h, n) /\ n.lock = host[h].lock /\ n.loaded = host[h].loaded
    OBVIOUS
  <2>1. CASE CallBack(p)
    <3> DEFINE h == running[p]
               n == [host[h] EXCEPT !.rpcs = @ \cup {p}]
    <3>1. h \in Hosts /\ host[h] \in Host /\ Put(h, n)
      BY <2>1, InHand DEF CallBack
    <3>2. n \in Host /\ n.lock = host[h].lock /\ n.loaded = host[h].loaded
      BY <3>1 DEF Host
    <3> QED BY <3>1, <3>2
  <2>2. CASE Answer(p)
    <3>1. PICK h \in Hosts : Put(h, [host[h] EXCEPT !.rpcs = @ \ {p}])
      BY <2>2 DEF Answer
    <3> DEFINE n == [host[h] EXCEPT !.rpcs = @ \ {p}]
    <3>2. n \in Host /\ n.lock = host[h].lock /\ n.loaded = host[h].loaded
      BY <3>1, InHand DEF Host
    <3> QED BY <3>1, <3>2
  <2> QED BY <2>1, <2>2
<1>3. Edited(h, n) /\ \A g \in Hosts : host'[g].lock = host[g].lock /\ host'[g].loaded = host[g].loaded
  BY <1>2, PutIs DEF Edited
<1>4. Typed'
  BY <1>1, <1>3 DEF Typed, Edited, At
<1>5. LockIsHeld'
  BY <1>1, <1>3 DEF LockIsHeld, Edited, Closing, Locking
<1>6. Recorded' /\ InOperation'
  BY <1>1, <1>3, InHand DEF Recorded, InOperation, Edited, At
<1> QED BY <1>4, <1>5, <1>6

----------------------------------------------------------------------------
(* What holds for any number of workers.                                   *)

\* At first there is no host.
LEMMA HostInvInit == ASSUME Init PROVE HostInv
<1>1. Typed
  <2>1. NoCall \in Call /\ 0 \in 0..Len(host) /\ Len(host) = 0 /\ host \in Seq(Host)
    BY PluginHostAssumption DEF Init, NoCall, Call, PluginHostAssumption
  <2> QED BY <2>1, PluginHostAssumption DEF Init, Typed, Phases, At, NoCall, PluginHostAssumption
<1>2. Hosts = {}
  BY DEF Init, Hosts
<1>3. LockIsHeld
  BY <1>2 DEF LockIsHeld
<1>4. Recorded /\ InOperation
  BY <1>2 DEF Init, Recorded, InOperation, NoCall
<1> QED BY <1>1, <1>3, <1>4 DEF HostInv, TypeOK

\* Every action keeps HostInv.
LEMMA HostInvNext == ASSUME HostInv, [Next]_vars PROVE HostInv'
<1>1. CASE UNCHANGED vars
  BY <1>1 DEF vars, HostInv, TypeOK, Typed, LockIsHeld, Recorded, InOperation,
              Hosts, At, Locking, Closing
<1>2. ASSUME NEW w \in Workers, Worker(w) PROVE HostInv'
  BY <1>2, KeepsCreate, KeepsMoves, KeepsClose DEF Worker
<1>3. ASSUME NEW t \in Threads, Thread(t) PROVE HostInv'
  BY <1>3, KeepsCalls, KeepsLoad, KeepsRecord, KeepsCloseProvider DEF Thread, Locks, Proceeds
<1>4. ASSUME NEW p \in Plugins, CallBack(p) \/ Answer(p) PROVE HostInv'
  BY <1>4, KeepsCallbacks
<1> QED BY <1>1, <1>2, <1>3, <1>4 DEF Next

\* host.m is held by one thread or worker that is at work with the host, and by
\* nobody else, however many of them use how many hosts (host.go: every method
\* locks it and defers the Unlock).
THEOREM HostTyped == Spec => []TypeOK
<1>1. Init => HostInv
  BY HostInvInit
<1>2. HostInv /\ [Next]_vars => HostInv'
  BY HostInvNext
<1>3. HostInv => TypeOK
  BY DEF HostInv
<1> QED BY <1>1, <1>2, <1>3, PTL DEF Spec

\* SignalCancellation meets no closed plugin in the cache, save one whose Close
\* failed, although nothing keeps it from running beside CloseProvider and after
\* Close.
THEOREM SignalsOpen == Spec => []SignalledAreOpen
<1>1. Init => HostInv
  BY HostInvInit
<1>2. HostInv /\ [Next]_vars => HostInv'
  BY HostInvNext
<1>3. HostInv => SignalledAreOpen
  BY InHand DEF HostInv, TypeOK, SignalledAreOpen, Recorded, Served
<1> QED BY <1>1, <1>2, <1>3, PTL DEF Spec

----------------------------------------------------------------------------
(* The life of a host.                                                     *)

\* The rest of the step leaves g as it is: no plugin is launched for it, no call
\* of it begins, and no call that asks a plugin goes on.
Apart(g) ==
  /\ lost \subseteq lost'
  /\ \A p \in Plugins : running'[p] = g => running[p] = g
  /\ \A s \in Threads : call'[s].host = g =>
       /\ call[s].host = g
       /\ call[s].at \in {"waits", "signal"} => call'[s].at \in {"waits", "signal"}
  /\ \A s \in Threads : call[s].at = "info" /\ call[s].host = g => call'[s] = call[s]

\* The host's server, cache and list are as they were.
SameHost(g) ==
  /\ host'[g].loaded = host[g].loaded /\ host'[g].server = host[g].server
  /\ host'[g].plugins = host[g].plugins /\ host'[g].runtime = host[g].runtime

\* The parts of a host's life keep.
LEMMA PartsKeep ==
  ASSUME HostInv, NEW g \in Hosts, Apart(g), SameHost(g)
  PROVE  /\ Left(g) => Left(g)'
         /\ Accounted(g) => Accounted(g)'
         /\ Emptyhanded(g) => Emptyhanded(g)'
         /\ Untouched(g) /\ host'[g] = host[g] => Untouched(g)'
<1>1. ASSUME Left(g) PROVE Left(g)'
  BY <1>1 DEF Left, Apart
<1>2. ASSUME Accounted(g) PROVE Accounted(g)'
  <2> SUFFICES ASSUME NEW p \in Plugins, running'[p] = g
               PROVE  \/ p \in host'[g].loaded \cup lost'
                      \/ \E t \in Threads : call'[t].at = "info" /\ call'[t].plugin = p
    BY DEF Accounted
  <2>1. running[p] = g
    BY DEF Apart
  <2>2. CASE p \in host[g].loaded \cup lost
    BY <2>2 DEF Apart, SameHost
  <2>3. ASSUME NEW t \in Threads, call[t].at = "info", call[t].plugin = p
        PROVE  call'[t].at = "info" /\ call'[t].plugin = p
    <3>1. call[t].host = g
      BY <2>1, <2>3 DEF HostInv, Recorded
    <3> QED BY <2>3, <3>1 DEF Apart
  <2> QED BY <1>2, <2>1, <2>2, <2>3 DEF Accounted
<1>3. ASSUME Emptyhanded(g) PROVE Emptyhanded(g)'
  BY <1>3 DEF Emptyhanded, Apart, SameHost
<1>4. ASSUME Untouched(g), host'[g] = host[g] PROVE Untouched(g)'
  BY <1>4 DEF Untouched, Apart
<1> QED BY <1>1, <1>2, <1>3, <1>4

\* A step that is apart from a host, and whose worker neither takes it in hand,
\* lets it go nor goes on with it, keeps the host's life.
LEMMA LivesKeep ==
  ASSUME HostInv, NEW g \in Hosts, Lives(g), Apart(g), SameHost(g),
         \A v \in Workers : mine'[v] = g <=> mine[v] = g,
         \A v \in Workers : mine[v] = g =>
           pc'[v] = pc[v] /\ (OneWorker => hostContext' = hostContext),
         Untouched(g) => host'[g] = host[g]
  PROVE  Lives(g)'
<1>1. /\ Accounted(g)'
      /\ Untouched(g) => Untouched(g)'
      /\ Ended(g) => Ended(g)'
  BY PartsKeep DEF Lives, Ended, SameHost
<1>2. InUse(g) => InUse(g)'
  BY DEF InUse
<1>3. ASSUME NEW v \in Workers, mine'[v] = g
      PROVE  /\ pc'[v] \in {"cancel", "await"} => host'[g].loaded = {}
             /\ At(v, "await")' => host'[g].server = "draining"
  BY <1>3 DEF Lives, At, SameHost
<1>4. ASSUME OneWorker PROVE Alone(g)'
  <2>1. Alone(g)
    BY <1>4 DEF Lives
  <2>2. Listed(g)'
    BY <2>1 DEF Alone, Listed, SameHost, At
  <2>3. ASSUME NEW v \in Workers, mine'[v] = g
        PROVE  /\ pc'[v] \in {"context", "assign", "load"} => Untouched(g)'
               /\ At(v, "load")' => hostContext' = g
               /\ ~At(v, "await")' => host'[g].server = "serving"
    BY <1>1, <1>4, <2>1, <2>3 DEF Alone, At, SameHost
  <2> QED BY <2>2, <2>3 DEF Alone
<1> QED BY <1>1, <1>2, <1>3, <1>4 DEF Lives

\* In an operation of a worker, what the host accounts for and lists is all there
\* is to keep.
LEMMA LivesAtWork ==
  ASSUME HostInv, NEW w \in Workers, At(w, "engine"), UNCHANGED <<pc, mine, hostContext>>,
         NEW h \in Hosts, mine[w] = h, Lives(h), Accounted(h)', OneWorker => Listed(h)',
         host'[h].server = host[h].server,
         \/ host'[h].loaded \subseteq host[h].loaded
         \/ \A v \in Workers : Closing(v) => mine[v] # h
  PROVE  Lives(h)'
<1>1. InUse(h)'
  BY DEF InUse, At
<1>2. ASSUME NEW v \in Workers, mine'[v] = h
      PROVE  /\ pc'[v] \in {"cancel", "await"} => host'[h].loaded = {}
             /\ At(v, "await")' => host'[h].server = "draining"
  BY <1>2 DEF Lives, At, Closing
<1>3. ASSUME OneWorker PROVE Alone(h)'
  <2>1. \A v \in Workers : v = w
    BY <1>3 DEF OneWorker
  <2> QED BY <1>3, <2>1 DEF Lives, Alone, At
<1> QED BY <1>1, <1>2, <1>3 DEF Lives

\* createPluginHost's new host is untouched.
LEMMA LivesCreate ==
  ASSUME HostInv, HostLives, NEW w \in Workers, Create(w)
  PROVE  HostLives'
<1> USE DEF HostInv, TypeOK
<1>1. /\ Hosts' = Hosts \cup {Len(host) + 1} /\ Len(host) + 1 \notin Hosts
      /\ host'[Len(host) + 1] = NewHost
      /\ \A g \in Hosts : host'[g] = host[g]
      /\ Len(host) \in Nat
  BY AddIs DEF Create
<1>2. UNCHANGED <<hostContext, running, call, lost>>
  BY DEF Create
<1>3. /\ pc'[w] = "context" /\ mine'[w] = Len(host) + 1 /\ mine[w] = 0
      /\ \A v \in Workers : v # w => pc'[v] = pc[v] /\ mine'[v] = mine[v]
      /\ \A v \in Workers : mine[v] \in 0..Len(host)
  BY DEF Create, Typed, Goto, Hold, At
<1>4. ASSUME NEW g \in Hosts PROVE Lives(g)'
  <2>1. Apart(g) /\ SameHost(g) /\ host'[g] = host[g]
    BY <1>1, <1>2 DEF Apart, SameHost
  <2>2. /\ \A v \in Workers : mine'[v] = g <=> mine[v] = g
        /\ \A v \in Workers : mine[v] = g => pc'[v] = pc[v]
    BY <1>1, <1>3 DEF Hosts
  <2> QED BY <1>2, <2>1, <2>2, LivesKeep DEF HostLives
<1>5. PICK h : h = Len(host) + 1
  OBVIOUS
<1>6. Lives(h)'
  <2>1. /\ \A p \in Plugins : running[p] # h
        /\ \A t \in Threads : call[t].host # h
    BY <1>1, <1>5 DEF Typed, Hosts
  <2>2. Untouched(h)' /\ Accounted(h)'
    BY <1>1, <1>2, <1>5, <2>1 DEF Untouched, Accounted
  <2>3. Listed(h)' /\ host'[h].server = "serving"
    <3>1. host'[h].plugins = <<>> /\ host'[h].server = "serving"
      BY <1>1, <1>5 DEF NewHost
    <3> QED BY <3>1 DEF Listed
  <2>4. \A v \in Workers : mine'[v] = h => v = w
    BY <1>3, <1>5, <1>1
  <2> QED BY <1>3, <1>5, <2>2, <2>3, <2>4 DEF Lives, Alone, At
<1> QED BY <1>1, <1>4, <1>5, <1>6 DEF HostLives

\* Of the only worker, the host in hand is the one assigned last, and untouched
\* until its stack is loaded.
LEMMA AloneMoves ==
  ASSUME HostInv, HostLives, OneWorker, NEW w \in Workers,
         Context(w) \/ Assign(w) \/ Load(w) \/ Return(w),
         NEW g \in Hosts, Untouched(g) => Untouched(g)'
  PROVE  Alone(g)'
<1> USE DEF HostInv, TypeOK
<1>0. PICK h : h = mine[w]
  OBVIOUS
<1>1. /\ UNCHANGED <<host, running, call, lost>> /\ Hosts' = Hosts
      /\ \A v \in Workers : v = w
      /\ pc[w] \in {"context", "assign", "load", "engine"} /\ h \in Hosts /\ mine[w] = h
  BY <1>0, InHand DEF Context, Assign, Load, Return, EngineCloses, At, OneWorker, Hosts
<1>2. Alone(h) /\ Alone(g)
  BY <1>1 DEF HostLives, Lives
<1>3. /\ mine'[w] = h \/ mine'[w] = 0
      /\ \/ pc'[w] \in {"assign", "closing"} /\ mine'[w] = h /\ pc[w] = "context"
         \/ pc'[w] = "idle" /\ mine'[w] = 0 /\ pc[w] \in {"context", "load"}
         \/ pc'[w] = "load" /\ mine'[w] = h /\ hostContext' = h /\ pc[w] = "assign"
         \/ pc'[w] = "engine" /\ mine'[w] = h /\ pc[w] \in {"load", "engine"}
         \/ pc'[w] = "closing" /\ mine'[w] = h /\ pc[w] = "engine"
  <2>1. /\ hostContext \in 0..Len(host) /\ mine[w] \in 0..Len(host) /\ 0 \in 0..Len(host)
        /\ mine \in [Workers -> 0..Len(host)]
    BY InHand DEF Typed
  <2>2. CASE Context(w)
    BY <1>1, <2>1, <2>2, GotoIs, HoldIs DEF Context, At, Phases
  <2>3. CASE Assign(w)
    BY <1>1, <2>1, <2>3, GotoIs DEF Assign, At, Phases
  <2>4. CASE Load(w)
    <3>1. hostContext = h
      BY <1>1, <1>2, <2>4 DEF Load, Alone
    <3> QED BY <1>1, <2>1, <2>4, <3>1, GotoIs, HoldIs DEF Load, At, Phases
  <2>5. CASE Return(w)
    BY <1>1, <2>1, <2>5, GotoIs DEF Return, At, Phases
  <2> QED BY <2>2, <2>3, <2>4, <2>5
<1>4. pc[w] # "engine" => Untouched(h) /\ host[h].plugins = <<>>
  <2>1. pc[w] # "engine" => Untouched(h)
    BY <1>1, <1>2 DEF Alone
  <2> QED BY <2>1 DEF Untouched, NewHost
<1>5. Listed(g)'
  BY <1>1, <1>2, <1>3, <1>4 DEF Alone, Listed, At, Hosts
<1>6. ASSUME NEW v \in Workers, mine'[v] = g
      PROVE  /\ pc'[v] \in {"context", "assign", "load"} => Untouched(g)'
             /\ At(v, "load")' => hostContext' = g
             /\ ~At(v, "await")' => host'[g].server = "serving"
  <2>1. v = w /\ g = h
    BY <1>1, <1>3, <1>6 DEF Hosts
  <2>2. host[h].server = "serving"
    BY <1>1, <1>2 DEF Alone, At
  <2>3. CASE pc[w] = "engine"
    BY <1>1, <1>3, <2>1, <2>2, <2>3 DEF At
  <2>4. CASE pc[w] # "engine"
    BY <1>1, <1>3, <1>4, <2>1, <2>2, <2>4 DEF At
  <2> QED BY <2>3, <2>4
<1> QED BY <1>5, <1>6 DEF Alone

\* Up to its operations and between them, a worker changes no host; it may begin
\* to use one, and stops using none.
LEMMA LivesMoves ==
  ASSUME HostInv, HostLives, NEW w \in Workers,
         Context(w) \/ Assign(w) \/ Load(w) \/ Return(w)
  PROVE  HostLives'
<1> USE DEF HostInv, TypeOK
<1>1. UNCHANGED <<host, running, call, lost>> /\ Hosts' = Hosts
  BY DEF Context, Assign, Load, Return, EngineCloses, Hosts
<1>2. /\ \A v \in Workers : v # w => pc'[v] = pc[v] /\ mine'[v] = mine[v]
      /\ pc[w] \in {"context", "assign", "load", "engine"}
      /\ pc[w] = "engine" => pc'[w] \in {"engine", "closing"} /\ mine'[w] = mine[w]
      /\ pc'[w] \notin {"cancel", "await"}
  BY DEF Context, Assign, Load, Return, Goto, Hold, Typed, At
<1>3. ASSUME NEW g \in Hosts PROVE Lives(g)'
  <2>1. Apart(g) /\ SameHost(g) /\ host'[g] = host[g] /\ Lives(g)
    BY <1>1 DEF Apart, SameHost, HostLives
  <2>2. /\ Accounted(g)'
        /\ Untouched(g) => Untouched(g)'
        /\ Ended(g) => Ended(g)'
    BY <2>1, PartsKeep DEF Lives, Ended, SameHost
  <2>3. InUse(g) => InUse(g)'
    BY <1>2 DEF InUse
  <2>4. ASSUME NEW v \in Workers, mine'[v] = g
        PROVE  /\ pc'[v] \in {"cancel", "await"} => host'[g].loaded = {}
               /\ At(v, "await")' => host'[g].server = "draining"
    BY <1>1, <1>2, <2>1, <2>4 DEF Lives, At
  <2>5. OneWorker => Alone(g)'
    BY <2>2, AloneMoves
  <2> QED BY <2>1, <2>2, <2>3, <2>4, <2>5 DEF Lives
<1> QED BY <1>1, <1>3 DEF HostLives

\* Close leaves no plugin but those that were lost, and a server that stopped;
\* while it holds host.m nobody else gets as far.
LEMMA LivesClose ==
  ASSUME HostInv, HostLives, NEW w \in Workers, Close(w)
  PROVE  HostLives'
<1> USE DEF HostInv, TypeOK
<1>0. PICK h : h = mine[w]
  OBVIOUS
<1>1. /\ h \in Hosts /\ mine[w] = h /\ host[h] \in Host
      /\ UNCHANGED <<hostContext, call>>
  BY <1>0, InHand DEF Close, CloseLock, Kill, Cancel, Await, At
<1>2. Lives(h) /\ Accounted(h)
  BY <1>1 DEF HostLives, Lives
<1>3. PICK n \in Host :
        /\ Put(h, n) /\ n.plugins = host[h].plugins
        /\ \/ /\ pc[w] = "closing" /\ pc'[w] = "kill" /\ mine'[w] = h
              /\ n = [host[h] EXCEPT !.lock = w] /\ UNCHANGED <<running, lost>>
           \/ /\ pc[w] = "kill" /\ pc'[w] = "cancel" /\ mine'[w] = h
              /\ n.loaded = {} /\ n.server = host[h].server /\ Kill(w)
           \/ /\ pc[w] = "cancel" /\ pc'[w] = "await" /\ mine'[w] = h
              /\ n.loaded = host[h].loaded /\ n.server = "draining" /\ UNCHANGED <<running, lost>>
           \/ /\ pc[w] = "await" /\ pc'[w] = "idle" /\ mine'[w] = 0
              /\ n.loaded = host[h].loaded /\ n.server = "stopped" /\ UNCHANGED <<running, lost>>
  <2> DEFINE Step(n) ==
        /\ Put(h, n) /\ n.plugins = host[h].plugins
        /\ \/ /\ pc[w] = "closing" /\ pc'[w] = "kill" /\ mine'[w] = h
              /\ n = [host[h] EXCEPT !.lock = w] /\ UNCHANGED <<running, lost>>
           \/ /\ pc[w] = "kill" /\ pc'[w] = "cancel" /\ mine'[w] = h
              /\ n.loaded = {} /\ n.server = host[h].server /\ Kill(w)
           \/ /\ pc[w] = "cancel" /\ pc'[w] = "await" /\ mine'[w] = h
              /\ n.loaded = host[h].loaded /\ n.server = "draining" /\ UNCHANGED <<running, lost>>
           \/ /\ pc[w] = "await" /\ pc'[w] = "idle" /\ mine'[w] = 0
              /\ n.loaded = host[h].loaded /\ n.server = "stopped" /\ UNCHANGED <<running, lost>>
  <2> SUFFICES \E n \in Host : Step(n)
    OBVIOUS
  <2>1. 0 \in 0..Len(host)
    BY InHand
  <2>2. CASE CloseLock(w)
    <3> DEFINE n == [host[h] EXCEPT !.lock = w]
    <3>1. n \in Host /\ n.plugins = host[h].plugins
      BY <1>1 DEF Host
    <3>2. Put(h, n) /\ pc[w] = "closing" /\ pc'[w] = "kill" /\ mine'[w] = h /\ UNCHANGED <<running, lost>>
      BY <1>1, <2>2, GotoIs DEF CloseLock, At, Phases
    <3> QED BY <3>1, <3>2
  <2>3. CASE Kill(w)
    <3> DEFINE n == Emptied(host[h])
    <3>1. n \in Host /\ n.plugins = host[h].plugins /\ n.loaded = {} /\ n.server = host[h].server
      BY <1>1 DEF Host, Emptied
    <3>2. Put(h, n) /\ pc[w] = "kill" /\ pc'[w] = "cancel" /\ mine'[w] = h
      BY <1>1, <2>3, GotoIs DEF Kill, At, Phases
    <3> QED BY <2>3, <3>1, <3>2
  <2>4. CASE Cancel(w)
    <3> DEFINE n == [host[h] EXCEPT !.server = "draining"]
    <3>1. /\ n \in Host /\ n.plugins = host[h].plugins /\ n.loaded = host[h].loaded
          /\ n.server = "draining"
      BY <1>1 DEF Host
    <3>2. Put(h, n) /\ pc[w] = "cancel" /\ pc'[w] = "await" /\ mine'[w] = h /\ UNCHANGED <<running, lost>>
      BY <1>1, <2>4, GotoIs DEF Cancel, At, Phases
    <3> QED BY <3>1, <3>2
  <2>5. CASE Await(w)
    <3> DEFINE n == Unlocked([host[h] EXCEPT !.server = "stopped"])
    <3>1. /\ n \in Host /\ n.plugins = host[h].plugins /\ n.loaded = host[h].loaded
          /\ n.server = "stopped"
      BY <1>1 DEF Host, Unlocked
    <3>2. Put(h, n) /\ pc[w] = "await" /\ pc'[w] = "idle" /\ mine'[w] = 0 /\ UNCHANGED <<running, lost>>
      BY <1>1, <2>1, <2>5, GotoIs, HoldIs DEF Await, At, Phases
    <3> QED BY <3>1, <3>2
  <2> QED BY <2>2, <2>3, <2>4, <2>5 DEF Close
<1>4. /\ Edited(h, n) /\ host'[h] = n
      /\ \A v \in Workers : v # w => pc'[v] = pc[v] /\ mine'[v] = mine[v]
  <2>1. \A v \in Workers : v # w => pc'[v] = pc[v] /\ mine'[v] = mine[v]
    BY DEF Close, CloseLock, Kill, Cancel, Await, Goto, Hold, Typed
  <2> QED BY <1>1, <1>3, <2>1, PutIs DEF Edited
<1>5. ASSUME NEW p \in Plugins, running'[p] # running[p]
      PROVE  Kill(w) /\ p \in host[h].loaded /\ running[p] = h /\ running'[p] = 0
  <2>1. Kill(w)
    BY <1>3, <1>5
  <2>2. p \in host[h].loaded /\ running'[p] = 0 /\ running[p] # 0
    BY <1>1, <1>5, <2>1 DEF Kill, Victims, Typed
  <2> QED BY <1>1, <2>1, <2>2 DEF Recorded
<1>6. lost \subseteq lost'
  BY <1>3 DEF Kill
<1>7. ASSUME NEW g \in Hosts PROVE Apart(g)
  BY <1>1, <1>5, <1>6, <1>7 DEF Apart, Hosts
<1>8. ASSUME NEW g \in Hosts, g # h PROVE Lives(g)'
  <2>1. /\ \A v \in Workers : mine'[v] = g <=> mine[v] = g
        /\ \A v \in Workers : mine[v] = g => pc'[v] = pc[v]
    BY <1>1, <1>3, <1>4, <1>8 DEF Hosts
  <2>2. SameHost(g) /\ host'[g] = host[g]
    BY <1>4, <1>8 DEF SameHost, Edited
  <2> QED BY <1>1, <1>7, <2>1, <2>2, LivesKeep DEF HostLives
<1>9. Accounted(h)'
  <2>1. CASE Kill(w)
    <3>1. PICK survivors \in SUBSET host[h].loaded :
            /\ running' = [q \in Plugins |-> IF q \in host[h].loaded \ survivors THEN 0 ELSE running[q]]
            /\ lost' = lost \cup survivors
      BY <1>1, <2>1 DEF Kill, Victims
    <3>2. ASSUME NEW p \in Plugins, running'[p] = h
          PROVE  \/ p \in lost'
                 \/ \E t \in Threads : call[t].at = "info" /\ call[t].plugin = p
      <4>1. running[p] = h
        BY <1>1, <1>5, <3>2 DEF Hosts
      <4>2. p \in host[h].loaded => p \in survivors
        BY <1>1, <3>1, <3>2 DEF Hosts
      <4> QED BY <1>2, <3>1, <4>1, <4>2 DEF Accounted
    <3> QED BY <1>1, <3>2 DEF Accounted
  <2>2. CASE UNCHANGED <<running, lost>> /\ n.loaded = host[h].loaded
    BY <1>1, <1>2, <1>4, <2>2 DEF Accounted
  <2>3. Kill(w) \/ (UNCHANGED <<running, lost>> /\ n.loaded = host[h].loaded)
    BY <1>1, <1>3 DEF Host
  <2> QED BY <2>1, <2>2, <2>3
<1>10. ASSUME NEW v \in Workers, v # w, Closing(v), mine[v] = h
       PROVE  pc[w] = "closing"
  BY <1>1, <1>3, <1>10, Exclusion DEF Closing
<1>11. \/ pc'[w] = "idle" /\ pc[w] = "await"
       \/ pc'[w] \in {"kill", "cancel", "await"} /\ mine'[w] = h
  BY <1>3
<1>12. ASSUME pc[w] = "await" PROVE Lives(h)'
  <2>1. n.server = "stopped" /\ n.loaded = {} /\ UNCHANGED <<running, lost>>
    BY <1>1, <1>2, <1>3, <1>12 DEF Lives
  <2>2. ASSUME ~InUse(h)' PROVE Ended(h)'
    <3>1. \A v \in Workers : ~(At(v, "engine") /\ mine[v] = h)
      BY <1>4, <1>12, <2>2 DEF InUse, At
    <3>2. \A t \in Threads : call[t].host = h => call[t].at \notin {"asks", "load", "info"}
      BY <3>1 DEF InOperation
    <3>3. \A t \in Threads : call[t].host = h =>
            call[t].at \in {"asks", "load", "info", "waits", "signal"}
      BY <1>1 DEF Typed, Call, Hosts
    <3>4. Left(h)'
      BY <1>1, <3>2, <3>3 DEF Left
    <3>5. ASSUME NEW p \in Plugins, running[p] = h PROVE p \in lost
      <4>1. host[h].loaded = {}
        BY <1>1, <1>2, <1>12 DEF Lives
      <4>2. \A t \in Threads : call[t].at = "info" /\ call[t].plugin = p => call[t].host = h
        BY <3>5 DEF Recorded
      <4> QED BY <1>2, <3>2, <3>5, <4>1, <4>2 DEF Accounted
    <3>6. Emptyhanded(h)'
      BY <1>4, <2>1, <3>5 DEF Emptyhanded
    <3> QED BY <1>4, <2>1, <3>4, <3>6 DEF Ended
  <2>3. ASSUME NEW v \in Workers, mine'[v] = h PROVE pc'[v] \notin {"cancel", "await"}
    BY <1>1, <1>3, <1>4, <1>10, <1>12, <2>3 DEF Closing, Hosts
  <2>4. ASSUME OneWorker PROVE Alone(h)'
    <3>1. \A v \in Workers : mine'[v] # h
      BY <1>1, <1>3, <1>12, <2>4 DEF OneWorker, Hosts
    <3>2. Listed(h)
      BY <1>2, <2>4 DEF Lives, Alone
    <3>3. Listed(h)'
      BY <1>3, <1>4, <3>1, <3>2 DEF Listed
    <3> QED BY <3>1, <3>3 DEF Alone
  <2> QED BY <1>9, <2>2, <2>3, <2>4 DEF Lives, At
<1>13. ASSUME pc[w] # "await" PROVE Lives(h)'
  <2>1. InUse(h)' /\ mine'[w] = h /\ pc'[w] \in {"kill", "cancel", "await"}
    BY <1>11, <1>13 DEF InUse
  <2>2. ASSUME NEW v \in Workers, mine'[v] = h
        PROVE  /\ pc'[v] \in {"cancel", "await"} => host'[h].loaded = {}
               /\ At(v, "await")' => host'[h].server = "draining"
    <3>1. CASE v = w
      BY <1>1, <1>2, <1>3, <1>4, <1>13, <3>1 DEF Lives, At
    <3>2. CASE v # w /\ pc[w] = "closing"
      <4>1. n.loaded = host[h].loaded /\ n.server = host[h].server
        BY <1>1, <1>3, <3>2 DEF Host
      <4> QED BY <1>2, <1>4, <2>2, <3>2, <4>1 DEF Lives, At
    <3>3. CASE v # w /\ pc[w] # "closing"
      BY <1>4, <1>10, <2>2, <3>3 DEF Closing, At
    <3> QED BY <3>1, <3>2, <3>3
  <2>3. ASSUME OneWorker PROVE Alone(h)'
    <3>1. /\ \A v \in Workers : v = w
          /\ Listed(h) /\ host[h].server = "serving"
      BY <1>1, <1>2, <1>13, <2>3 DEF OneWorker, Lives, Alone, At
    <3>2. Listed(h)'
      BY <1>3, <1>4, <2>1, <3>1 DEF Listed, At
    <3>3. pc'[w] # "await" => host'[h].server = "serving"
      BY <1>1, <1>3, <1>4, <1>13, <3>1 DEF Host
    <3> QED BY <2>1, <3>1, <3>2, <3>3 DEF Alone, At
  <2> QED BY <1>9, <2>1, <2>2, <2>3 DEF Lives
<1>14. Lives(h)'
  BY <1>12, <1>13
<1> QED BY <1>4, <1>8, <1>14 DEF HostLives, Edited

\* A call that asks no plugin and changes neither cache nor list keeps every life.
LEMMA LivesPass ==
  ASSUME HostInv, HostLives, NEW t \in Threads, NEW c, CallIs(t, c), Hosts' = Hosts,
         UNCHANGED <<pc, mine, hostContext, running, lost>>,
         call[t].at # "none", call[t].at # "info",
         c.host = call[t].host \/ c.host = 0,
         call[t].at \in {"waits", "signal"} => c.at = "signal" \/ c.host = 0,
         \A g \in Hosts : SameHost(g) /\ (g # call[t].host => host'[g] = host[g])
  PROVE  HostLives'
<1>1. /\ call'[t] = c /\ call[t].host \in Hosts
      /\ \A s \in Threads : s # t => call'[s] = call[s]
  BY InHand DEF HostInv, TypeOK, Typed, CallIs
<1>2. ASSUME NEW g \in Hosts PROVE Lives(g)'
  <2>1. Apart(g)
    BY <1>1 DEF Apart, Hosts
  <2>2. Untouched(g) => host'[g] = host[g]
    BY DEF Untouched
  <2> QED BY <2>1, <2>2, LivesKeep DEF HostLives
<1> QED BY <1>2 DEF HostLives

\* A call of an operation is of the host of a worker that is in one.
LEMMA CallerAtWork ==
  ASSUME HostInv, NEW t \in Threads, call[t].at \in {"asks", "load", "info"}
  PROVE  \E w \in Workers : At(w, "engine") /\ mine[w] = call[t].host
BY DEF HostInv, InOperation

\* Refused analyzers, a lock for a provider, an answer and a cancellation's
\* signal are such steps.
LEMMA LivesCalls ==
  ASSUME HostInv, HostLives, NEW t \in Threads,
         Analyzer(t) \/ Provider(t) \/ Answered(t) \/ SignalCancellation(t) \/ Signalled(t)
  PROVE  HostLives'
<1> USE DEF HostInv, TypeOK
<1>1. UNCHANGED <<pc, mine, hostContext, running, lost>>
  BY DEF Analyzer, Provider, Answered, SignalCancellation, Signalled
<1>2. call[t] \in Call /\ NoCall.host = 0
  BY InHand DEF NoCall
<1>3. PICK h : h = call[t].host
  OBVIOUS
<1>4. call[t].at # "none" => h \in Hosts /\ host[h] \in Host
  BY <1>3, InHand
<1>5. ASSUME host' = host
      PROVE  Hosts' = Hosts /\ \A g \in Hosts : SameHost(g) /\ host'[g] = host[g]
  BY <1>5 DEF Hosts, SameHost
<1>6. ASSUME NEW l \in {None} \cup Threads, Put(h, [host[h] EXCEPT !.lock = l]), call[t].at # "none"
      PROVE  Hosts' = Hosts /\ \A g \in Hosts : SameHost(g) /\ (g # h => host'[g] = host[g])
  <2> DEFINE n == [host[h] EXCEPT !.lock = l]
  <2>1. /\ n \in Host /\ n.loaded = host[h].loaded /\ n.server = host[h].server
        /\ n.plugins = host[h].plugins /\ n.runtime = host[h].runtime
    BY <1>4, <1>6 DEF Host
  <2>2. Edited(h, n)
    BY <1>4, <1>6, <2>1, PutIs DEF Edited
  <2> QED BY <2>1, <2>2 DEF Edited, SameHost
<1>7. CASE Analyzer(t)
  <2>1. call[t].at = "asks" /\ CallIs(t, Without(t, "analyzer")) /\ host' = host
    BY <1>7 DEF Analyzer, Asks
  <2>2. Without(t, "analyzer").host = call[t].host
    BY <1>2 DEF Without, Call
  <2> QED BY <1>1, <1>5, <2>1, <2>2, LivesPass
<1>8. CASE Provider(t)
  <2> DEFINE c == [Without(t, "resource") EXCEPT !.at = "load"]
  <2>1. call[t].at = "asks" /\ CallIs(t, c) /\ Put(h, [host[h] EXCEPT !.lock = t])
    BY <1>3, <1>8 DEF Provider, Asks, Served
  <2>2. c.host = call[t].host
    BY <1>2 DEF Without, Call
  <2> QED BY <1>1, <1>3, <1>6, <2>1, <2>2, LivesPass
<1>9. CASE Answered(t)
  <2>1. call[t].at = "asks" /\ CallIs(t, NoCall) /\ host' = host
    BY <1>9 DEF Answered
  <2> QED BY <1>1, <1>2, <1>5, <2>1, LivesPass
<1>10. CASE SignalCancellation(t)
  <2> DEFINE c == [call[t] EXCEPT !.at = "signal"]
  <2>1. call[t].at = "waits" /\ CallIs(t, c) /\ Put(h, [host[h] EXCEPT !.lock = t])
    BY <1>3, <1>10 DEF SignalCancellation, Served
  <2>2. c.host = call[t].host /\ c.at = "signal"
    BY <1>2 DEF Call
  <2> QED BY <1>1, <1>3, <1>6, <2>1, <2>2, LivesPass
<1>11. CASE Signalled(t)
  <2>1. call[t].at = "signal" /\ CallIs(t, NoCall) /\ Put(h, [host[h] EXCEPT !.lock = None])
    BY <1>3, <1>11 DEF Signalled, Served, Unlocked
  <2> QED BY <1>1, <1>2, <1>3, <1>6, <2>1, LivesPass
<1> QED BY <1>7, <1>8, <1>9, <1>10, <1>11

\* What one call does to the host of the operation it belongs to leaves the
\* other hosts alone.
LEMMA OthersKeep ==
  ASSUME HostInv, HostLives, NEW h, NEW n, Edited(h, n), UNCHANGED <<pc, mine, hostContext>>,
         lost \subseteq lost',
         \A p \in Plugins : running'[p] = running[p] \/ running'[p] \in {0, h},
         \A s \in Threads : call'[s] = call[s] \/ {call[s].host, call'[s].host} \subseteq {0, h},
         NEW g \in Hosts, g # h
  PROVE  Lives(g)'
<1>1. Apart(g)
  BY DEF Apart, Hosts
<1>2. SameHost(g) /\ host'[g] = host[g]
  BY DEF Edited, SameHost
<1> QED BY <1>1, <1>2, LivesKeep DEF HostLives

\* A call begins while the worker is in an operation.
LEMMA LivesBegin ==
  ASSUME HostInv, HostLives, NEW t \in Threads, Begin(t)
  PROVE  HostLives'
<1> USE DEF HostInv, TypeOK
<1>1. PICK w, c : /\ w \in Workers /\ At(w, "engine") /\ call[t] = NoCall
                  /\ CallIs(t, c) /\ c.host = mine[w]
  <2>1. PICK w \in Workers :
          /\ At(w, "engine") /\ call[t] = NoCall
          /\ \/ \E kinds \in Requests :
                  CallIs(t, [[NoCall EXCEPT !.by = w, !.host = mine[w]]
                               EXCEPT !.at = "asks", !.todo = kinds])
             \/ CallIs(t, [[NoCall EXCEPT !.by = w, !.host = mine[w]] EXCEPT !.at = "waits"])
    BY DEF Begin
  <2>2. [[NoCall EXCEPT !.by = w, !.host = mine[w]] EXCEPT !.at = "waits"].host = mine[w]
    BY DEF NoCall
  <2>3. \A kinds \in Requests : [[NoCall EXCEPT !.by = w, !.host = mine[w]]
                                   EXCEPT !.at = "asks", !.todo = kinds].host = mine[w]
    BY DEF NoCall
  <2> QED BY <2>1, <2>2, <2>3
<1>2. PICK h : h = mine[w]
  OBVIOUS
<1>3. UNCHANGED <<pc, mine, hostContext, host, running, lost>>
  BY DEF Begin
<1>4. h \in Hosts /\ Edited(h, host[h]) /\ Lives(h) /\ Accounted(h)
  BY <1>1, <1>2, <1>3, InHand DEF At, Edited, Typed, Hosts, HostLives, Lives
<1>5. call'[t] = c /\ \A s \in Threads : s # t => call'[s] = call[s]
  BY <1>1 DEF CallIs, Typed
<1>6. ASSUME NEW g \in Hosts, g # h PROVE Lives(g)'
  <2>1. \A s \in Threads : call'[s] = call[s] \/ {call[s].host, call'[s].host} \subseteq {0, h}
    BY <1>1, <1>2, <1>5 DEF NoCall
  <2> QED BY <1>3, <1>4, <1>6, <2>1, OthersKeep
<1>7. Lives(h)'
  <2>1. OneWorker => Listed(h)'
    BY <1>3, <1>4 DEF Lives, Alone, Listed, At
  <2>2. \A s \in Threads : call[s].at = "info" => call'[s] = call[s]
    BY <1>1, <1>5 DEF NoCall
  <2>3. Accounted(h)'
    BY <1>3, <1>4, <2>2 DEF Accounted
  <2> QED BY <1>1, <1>2, <1>3, <1>4, <2>1, <2>3, LivesAtWork
<1> QED BY <1>4, <1>6, <1>7 DEF HostLives, Edited

\* The runtime is listed when it is first cached, and so once.
LEMMA LivesRuntime ==
  ASSUME HostInv, HostLives, NEW t \in Threads, LanguageRuntime(t)
  PROVE  HostLives'
<1> USE DEF HostInv, TypeOK
<1>0. PICK h : h = call[t].host
  OBVIOUS
<1> DEFINE c == Without(t, "language")
           n == [host[h] EXCEPT !.runtime = TRUE,
                                !.plugins = Append(@, "embeddedLanguageRuntime")]
<1>1. /\ call[t].at = "asks" /\ CallIs(t, c) /\ call[t] \in Call /\ h \in Hosts /\ host[h] \in Host
      /\ UNCHANGED <<pc, mine, hostContext, running, lost>>
      /\ (~host[h].runtime /\ Put(h, n)) \/ host' = host
  BY <1>0, InHand DEF LanguageRuntime, Asks, Served
<1>2. c.host = h
  BY <1>0, <1>1 DEF Without, Call
<1>3. CASE host' = host
  <2>1. Hosts' = Hosts /\ \A g \in Hosts : SameHost(g) /\ host'[g] = host[g]
    BY <1>3 DEF Hosts, SameHost
  <2> QED BY <1>0, <1>1, <1>2, <2>1, LivesPass
<1>4. CASE ~host[h].runtime /\ Put(h, n)
  <2>1. PICK w \in Workers : At(w, "engine") /\ mine[w] = h
    BY <1>0, <1>1, CallerAtWork
  <2>2. n \in Host
    BY <1>1, HostEdits
  <2>3. /\ n.loaded = host[h].loaded /\ n.runtime
        /\ n.plugins = Append(host[h].plugins, "embeddedLanguageRuntime")
    BY <1>1 DEF Host
  <2>4. Edited(h, n)
    BY <1>1, <1>4, <2>2, PutIs DEF Edited
  <2>5. call'[t] = c /\ \A s \in Threads : s # t => call'[s] = call[s]
    BY <1>1 DEF CallIs, Typed
  <2>6. ASSUME NEW g \in Hosts, g # h PROVE Lives(g)'
    <3>1. \A s \in Threads : call'[s] = call[s] \/ {call[s].host, call'[s].host} \subseteq {0, h}
      BY <1>0, <1>2, <2>5
    <3> QED BY <1>1, <2>4, <2>6, <3>1, OthersKeep
  <2>7. Lives(h) /\ Accounted(h)
    BY <1>1, <2>1 DEF HostLives, Lives
  <2>8. ASSUME OneWorker PROVE Listed(h)'
    <3>0. Listed(h)
      BY <2>7, <2>8 DEF Lives, Alone
    <3>1. \A i \in 1..Len(host[h].plugins) : host[h].plugins[i] # "embeddedLanguageRuntime"
      BY <1>4, <2>1, <3>0 DEF Listed
    <3>2. host'[h].plugins = Append(host[h].plugins, "embeddedLanguageRuntime") /\ host'[h].runtime
      BY <2>3, <2>4 DEF Edited
    <3>3. \A i, j \in 1..Len(host'[h].plugins) : host'[h].plugins[i] = host'[h].plugins[j] => i = j
      <4>1. host[h].plugins \in Seq(Infos \cup {"embeddedLanguageRuntime"})
        BY <1>1 DEF Host
      <4> QED BY <3>0, <3>1, <3>2, <4>1 DEF Listed
    <3> QED BY <3>2, <3>3 DEF Listed
  <2>9. Accounted(h)'
    <3>1. \A s \in Threads : call[s].at = "info" => call'[s] = call[s]
      BY <1>1, <2>5
    <3>2. host'[h].loaded = host[h].loaded
      BY <2>3, <2>4 DEF Edited
    <3> QED BY <1>1, <2>7, <3>1, <3>2 DEF Accounted
  <2>10. host'[h].loaded = host[h].loaded /\ host'[h].server = host[h].server
    BY <1>1, <2>4 DEF Edited, Host
  <2>11. Lives(h)'
    BY <1>1, <2>1, <2>7, <2>8, <2>9, <2>10, LivesAtWork
  <2> QED BY <2>4, <2>6, <2>11 DEF HostLives, Edited
<1> QED BY <1>1, <1>3, <1>4

\* A provider that is launched is asked, and one that is not changes nothing.
LEMMA LivesLoad ==
  ASSUME HostInv, HostLives, NEW t \in Threads, LoadProvider(t)
  PROVE  HostLives'
<1> USE DEF HostInv, TypeOK
<1>0. PICK h : h = call[t].host
  OBVIOUS
<1>1. /\ call[t].at = "load" /\ call[t] \in Call /\ h \in Hosts /\ host[h] \in Host
      /\ UNCHANGED <<pc, mine, hostContext, lost>>
  BY <1>0, InHand DEF LoadProvider
<1>2. ASSUME NEW p \in Plugins, running' = [running EXCEPT ![p] = h],
             CallIs(t, [call[t] EXCEPT !.at = "info", !.plugin = p]), host' = host
      PROVE  HostLives'
  <2> DEFINE c == [call[t] EXCEPT !.at = "info", !.plugin = p]
  <2>1. c.at = "info" /\ c.plugin = p /\ c.host = h
    BY <1>0, <1>1 DEF Call
  <2>2. call'[t] = c /\ \A s \in Threads : s # t => call'[s] = call[s]
    BY <1>2 DEF CallIs, Typed
  <2>3. running'[p] = h /\ \A q \in Plugins : q # p => running'[q] = running[q]
    BY <1>2 DEF Typed
  <2>4. Edited(h, host[h])
    BY <1>1, <1>2 DEF Edited, Hosts, Typed
  <2>5. ASSUME NEW g \in Hosts, g # h PROVE Lives(g)'
    <3>1. \A s \in Threads : call'[s] = call[s] \/ {call[s].host, call'[s].host} \subseteq {0, h}
      BY <1>0, <2>1, <2>2
    <3>2. \A q \in Plugins : running'[q] = running[q] \/ running'[q] \in {0, h}
      BY <2>3
    <3> QED BY <1>1, <2>4, <2>5, <3>1, <3>2, OthersKeep
  <2>6. PICK w \in Workers : At(w, "engine") /\ mine[w] = h
    BY <1>0, <1>1, CallerAtWork
  <2>7. Lives(h) /\ Accounted(h)
    BY <1>1, <2>6 DEF HostLives, Lives
  <2>8. OneWorker => Listed(h)'
    BY <1>1, <1>2, <2>7 DEF Lives, Alone, Listed, At
  <2>9. Accounted(h)'
    <3>1. \A s \in Threads : call[s].at = "info" => call'[s] = call[s]
      BY <1>1, <2>2
    <3>2. \A q \in Plugins : running'[q] = h => q = p \/ running[q] = h
      BY <2>3
    <3>3. call'[t].at = "info" /\ call'[t].plugin = p
      BY <2>1, <2>2
    <3>4. host' = host /\ lost' = lost
      BY <1>1, <1>2
    <3> HIDE DEF c
    <3> QED BY <2>7, <3>1, <3>2, <3>3, <3>4 DEF Accounted
  <2>10. Lives(h)'
    BY <1>1, <1>2, <2>6, <2>7, <2>8, <2>9, LivesAtWork
  <2> QED BY <2>4, <2>5, <2>10 DEF HostLives, Edited
<1>3. ASSUME Put(h, Unlocked(host[h])), CallIs(t, [call[t] EXCEPT !.at = "asks"]), running' = running
      PROVE  HostLives'
  <2> DEFINE n == Unlocked(host[h])
  <2>1. /\ n \in Host /\ n.loaded = host[h].loaded /\ n.server = host[h].server
        /\ n.plugins = host[h].plugins /\ n.runtime = host[h].runtime
    BY <1>1 DEF Host, Unlocked
  <2>2. Edited(h, n)
    BY <1>1, <1>3, <2>1, PutIs DEF Edited
  <2>3. Hosts' = Hosts /\ \A g \in Hosts : SameHost(g) /\ (g # h => host'[g] = host[g])
    BY <2>1, <2>2 DEF Edited, SameHost
  <2>4. [call[t] EXCEPT !.at = "asks"].host = call[t].host
    BY <1>1 DEF Call
  <2> QED BY <1>0, <1>1, <1>3, <2>3, <2>4, LivesPass
<1> QED BY <1>0, <1>2, <1>3 DEF LoadProvider, Served

\* The provider is recorded and listed if it is new, or it is lost.
LEMMA LivesRecord ==
  ASSUME HostInv, HostLives, NEW t \in Threads, Record(t)
  PROVE  HostLives'
<1> USE DEF HostInv, TypeOK
<1>0. PICK h : h = call[t].host
  OBVIOUS
<1> DEFINE p == call[t].plugin
           c == [call[t] EXCEPT !.at = "asks", !.plugin = None]
           kept == [host[h] EXCEPT !.loaded = @ \cup {p}, !.plugins = Reported(host[h], p)]
<1>1. /\ call[t].at = "info" /\ call[t] \in Call /\ h \in Hosts /\ host[h] \in Host
      /\ p \in Plugins /\ UNCHANGED <<pc, mine, hostContext, running>> /\ CallIs(t, c)
  BY <1>0, InHand DEF Record, Recorded
<1>2. PICK n \in Host :
        /\ Put(h, n) /\ n.runtime = host[h].runtime /\ n.server = host[h].server
        /\ \/ n.loaded = host[h].loaded \cup {p} /\ n.plugins = Reported(host[h], p) /\ lost' = lost
           \/ n.loaded = host[h].loaded /\ n.plugins = host[h].plugins /\ lost' = lost \cup {p}
  <2>1. /\ Unlocked(host[h]) \in Host /\ Unlocked(host[h]).loaded = host[h].loaded
        /\ Unlocked(host[h]).plugins = host[h].plugins /\ Unlocked(host[h]).runtime = host[h].runtime
        /\ Unlocked(host[h]).server = host[h].server
    BY <1>1 DEF Host, Unlocked
  <2>2. /\ Unlocked(kept) \in Host /\ Unlocked(kept).loaded = host[h].loaded \cup {p}
        /\ Unlocked(kept).plugins = Reported(host[h], p) /\ Unlocked(kept).runtime = host[h].runtime
        /\ Unlocked(kept).server = host[h].server
    <3>1. Unlocked(kept) \in Host
      BY <1>1, HostEdits
    <3> QED BY <1>1, <3>1 DEF Host, Unlocked
  <2>3. \/ Put(h, Unlocked(kept)) /\ lost' = lost
        \/ Put(h, Unlocked(host[h])) /\ lost' = lost \cup {p}
    BY <1>0 DEF Record, Served
  <2> QED BY <2>1, <2>2, <2>3
<1>3. c.at = "asks" /\ c.host = h
  BY <1>0, <1>1 DEF Call
<1>4. call'[t] = c /\ \A s \in Threads : s # t => call'[s] = call[s]
  BY <1>1 DEF CallIs, Typed
<1>5. Edited(h, n) /\ lost \subseteq lost'
  BY <1>1, <1>2, PutIs DEF Edited
<1>6. ASSUME NEW g \in Hosts, g # h PROVE Lives(g)'
  <2>1. \A s \in Threads : call'[s] = call[s] \/ {call[s].host, call'[s].host} \subseteq {0, h}
    BY <1>0, <1>3, <1>4
  <2> QED BY <1>1, <1>5, <1>6, <2>1, OthersKeep
<1>7. PICK w \in Workers : At(w, "engine") /\ mine[w] = h
  BY <1>0, <1>1, CallerAtWork
<1>8. Lives(h) /\ Accounted(h)
  BY <1>1, <1>7 DEF HostLives, Lives
<1>9. ASSUME OneWorker PROVE Listed(h)'
  <2>1. host'[h] = n /\ Listed(h) /\ host[h].plugins \in Seq(Infos \cup {"embeddedLanguageRuntime"})
    BY <1>1, <1>5, <1>8, <1>9 DEF Edited, Lives, Alone, Host
  <2>2. CASE n.plugins = host[h].plugins
    BY <1>1, <1>2, <2>1, <2>2 DEF Listed, At
  <2>3. CASE /\ n.plugins = Append(host[h].plugins, Info[p])
             /\ \A i \in 1..Len(host[h].plugins) : host[h].plugins[i] # Info[p]
    <3>1. Info[p] # "embeddedLanguageRuntime" /\ Info[p] \in Infos \cup {"embeddedLanguageRuntime"}
      BY <1>1, PluginHostAssumption DEF PluginHostAssumption
    <3>2. \A i, j \in 1..Len(n.plugins) : n.plugins[i] = n.plugins[j] => i = j
      BY <2>1, <2>3, <3>1 DEF Listed
    <3>3. ~n.runtime => \A i \in 1..Len(n.plugins) : n.plugins[i] # "embeddedLanguageRuntime"
      BY <1>2, <1>7, <2>1, <2>3, <3>1 DEF Listed
    <3> QED BY <2>1, <3>2, <3>3 DEF Listed
  <2> QED BY <1>2, <2>2, <2>3 DEF Reported
<1>10. Accounted(h)'
  <2>1. \A s \in Threads : call[s].at = "info" /\ call[s].plugin # p => call'[s] = call[s]
    BY <1>4
  <2>2. \A q \in Plugins : q = p \/ q \in host[h].loaded \cup lost => q \in host'[h].loaded \cup lost'
    BY <1>2, <1>5 DEF Edited
  <2> QED BY <1>1, <1>8, <2>1, <2>2 DEF Accounted
<1>11. \A v \in Workers : Closing(v) => mine[v] # h
  <2>1. host[h].lock = t /\ t \notin Workers
    BY <1>0, <1>1, Exclusion, PluginHostAssumption DEF Locking, PluginHostAssumption
  <2> QED BY <2>1, Exclusion
<1>12. Lives(h)'
  <2>1. host'[h].server = host[h].server
    BY <1>2, <1>5 DEF Edited
  <2> QED BY <1>1, <1>7, <1>8, <1>9, <1>10, <1>11, <2>1, LivesAtWork
<1> QED BY <1>5, <1>6, <1>12 DEF HostLives, Edited

\* A provider that is closed is struck from the cache; one that cannot be is lost.
LEMMA LivesCloseProvider ==
  ASSUME HostInv, HostLives, NEW t \in Threads, CloseProvider(t)
  PROVE  HostLives'
<1> USE DEF HostInv, TypeOK
<1>1. PICK w \in Workers : At(w, "engine") /\ \E p \in host[mine[w]].loaded : Closed(mine[w], p)
  BY DEF CloseProvider, Closed
<1>2. PICK h : h = mine[w]
  OBVIOUS
<1>3. /\ h \in Hosts /\ host[h] \in Host /\ UNCHANGED <<pc, mine, hostContext, call>>
      /\ Lives(h) /\ Accounted(h)
  BY <1>1, <1>2, InHand DEF At, CloseProvider, HostLives, Lives
<1>4. PICK p \in host[h].loaded : Closed(h, p)
  BY <1>1, <1>2
<1>5. p \in Plugins
  BY <1>3, <1>4 DEF Host
<1>6. /\ running'[p] \in {0, running[p]} /\ \A q \in Plugins : q # p => running'[q] = running[q]
      /\ lost \subseteq lost'
  BY <1>4, <1>5 DEF Closed, Typed
<1>7. PICK n \in Host :
        /\ Edited(h, n) /\ n.server = host[h].server
        /\ n.plugins = host[h].plugins /\ n.runtime = host[h].runtime
        /\ n.loaded \subseteq host[h].loaded
        /\ \A q \in host[h].loaded \ n.loaded : running'[q] = 0
  <2> DEFINE n == [host[h] EXCEPT !.loaded = @ \ {p}]
  <2>1. CASE Put(h, n) /\ running' = [running EXCEPT ![p] = 0]
    <3>1. /\ n \in Host /\ n.loaded = host[h].loaded \ {p} /\ n.server = host[h].server
          /\ n.plugins = host[h].plugins /\ n.runtime = host[h].runtime
      BY <1>3 DEF Host
    <3>2. Edited(h, n) /\ running'[p] = 0
      BY <1>3, <1>5, <2>1, <3>1, PutIs DEF Edited, Typed
    <3> QED BY <3>1, <3>2
  <2>2. CASE host' = host
    <3>1. Edited(h, host[h])
      BY <1>3, <2>2 DEF Edited, Hosts, Typed
    <3> QED BY <1>3, <3>1
  <2> QED BY <1>4, <2>1, <2>2 DEF Closed
<1>8. ASSUME NEW g \in Hosts, g # h PROVE Lives(g)'
  <2>1. \A q \in Plugins : running'[q] = running[q] \/ running'[q] \in {0, h}
    BY <1>6
  <2> QED BY <1>3, <1>6, <1>7, <1>8, <2>1, OthersKeep
<1>9. OneWorker => Listed(h)'
  BY <1>3, <1>7 DEF Lives, Alone, Listed, At, Edited
<1>10. Accounted(h)'
  <2>1. \A q \in Plugins : running'[q] = h => running[q] = h /\ (q \in host[h].loaded => q \in n.loaded)
    BY <1>3, <1>5, <1>6, <1>7 DEF Hosts
  <2>2. host'[h].loaded = n.loaded
    BY <1>7 DEF Edited
  <2> QED BY <1>3, <1>6, <2>1, <2>2 DEF Accounted
<1>11. host'[h].loaded \subseteq host[h].loaded /\ host'[h].server = host[h].server
  BY <1>7 DEF Edited
<1>12. Lives(h)'
  BY <1>1, <1>2, <1>3, <1>9, <1>10, <1>11, LivesAtWork
<1> QED BY <1>7, <1>8, <1>12 DEF HostLives, Edited

\* A plugin calls back only once it was launched.
LEMMA LivesCallbacks ==
  ASSUME HostInv, HostLives, NEW p \in Plugins, CallBack(p) \/ Answer(p)
  PROVE  HostLives'
<1> USE DEF HostInv, TypeOK
<1>1. UNCHANGED <<pc, mine, hostContext, running, call, lost>>
  BY DEF CallBack, Answer
<1> DEFINE Step(h, n) ==
      /\ Put(h, n) /\ n.loaded = host[h].loaded /\ n.server = host[h].server
      /\ n.plugins = host[h].plugins /\ n.runtime = host[h].runtime /\ ~Untouched(h)
<1>2. PICK h \in Hosts, n \in Host : Step(h, n)
  <2> SUFFICES \E h \in Hosts : \E n \in Host : Step(h, n)
    OBVIOUS
  <2>1. CASE CallBack(p)
    <3> DEFINE h == running[p]
               n == [host[h] EXCEPT !.rpcs = @ \cup {p}]
    <3>1. h \in Hosts /\ host[h] \in Host /\ Put(h, n) /\ ~Untouched(h)
      BY <2>1, InHand DEF CallBack, Untouched
    <3>2. n \in Host /\ Step(h, n)
      BY <3>1 DEF Host
    <3> HIDE DEF n, h, Step
    <3> QED BY <3>1, <3>2
  <2>2. CASE Answer(p)
    <3>1. PICK h \in Hosts : p \in host[h].rpcs /\ Put(h, [host[h] EXCEPT !.rpcs = @ \ {p}])
      BY <2>2 DEF Answer
    <3> DEFINE n == [host[h] EXCEPT !.rpcs = @ \ {p}]
    <3>2. ~Untouched(h)
      BY <3>1 DEF Untouched, NewHost
    <3>3. n \in Host /\ Step(h, n)
      BY <3>1, <3>2, InHand DEF Host
    <3> HIDE DEF n, Step
    <3> QED BY <3>1, <3>3
  <2> QED BY <2>1, <2>2
<1>3. Edited(h, n)
  BY <1>2, PutIs DEF Edited
<1>4. ASSUME NEW g \in Hosts PROVE Lives(g)'
  <2>1. Apart(g)
    BY <1>1 DEF Apart
  <2>2. SameHost(g) /\ (Untouched(g) => host'[g] = host[g])
    BY <1>2, <1>3 DEF Edited, SameHost
  <2> QED BY <1>1, <2>1, <2>2, LivesKeep DEF HostLives
<1> QED BY <1>3, <1>4 DEF HostLives, Edited

\* Every action keeps the hosts' lives.
LEMMA HostLivesNext ==
  ASSUME HostInv, HostLives, [Next]_vars
  PROVE  HostLives'
<1>1. CASE UNCHANGED vars
  <2>1. ASSUME NEW g \in Hosts PROVE Lives(g)'
    <3>1. Apart(g) /\ SameHost(g) /\ host'[g] = host[g]
      BY <1>1 DEF vars, Apart, SameHost
    <3> QED BY <1>1, <3>1, LivesKeep DEF vars, HostLives
  <2> QED BY <1>1, <2>1 DEF vars, HostLives, Hosts
<1>2. ASSUME NEW w \in Workers, Worker(w) PROVE HostLives'
  BY <1>2, LivesCreate, LivesMoves, LivesClose DEF Worker
<1>3. ASSUME NEW t \in Threads, Thread(t) PROVE HostLives'
  BY <1>3, LivesBegin, LivesCalls, LivesRuntime, LivesLoad, LivesRecord, LivesCloseProvider
     DEF Thread, Locks, Proceeds
<1>4. ASSUME NEW p \in Plugins, CallBack(p) \/ Answer(p) PROVE HostLives'
  BY <1>4, LivesCallbacks
<1> QED BY <1>1, <1>2, <1>3, <1>4 DEF Next

\* The invariant that the host run checks is inductive and holds for any number of
\* workers.
THEOREM HostInductive == Spec => []HostIInv
<1>1. Init => HostIInv
  BY HostInvInit DEF Init, HostIInv, HostLives, Hosts
<1>2. HostIInv /\ [Next]_vars => HostIInv'
  BY HostInvNext, HostLivesNext DEF HostIInv
<1> QED BY <1>1, <1>2, PTL DEF Spec

\* A host that no reconciliation has in hand any more is closed, however many of
\* them took it from the reconciler's field: its server has stopped and no plugin
\* runs for it but those whose GetPluginInfo or Close failed; unless
\* createPluginHost or LoadStack failed, before it had any.
THEOREM HostsAreClosed == Spec => []HostsClose
<1>1. HostIInv => HostsClose
  <2>1. ASSUME NEW h \in Hosts, \A w \in Workers : mine[w] # h PROVE ~InUse(h)
    BY <2>1 DEF InUse
  <2> QED BY <2>1 DEF HostIInv, HostLives, Lives, Untouched, Ended, Emptyhanded, HostsClose
<1> QED BY <1>1, HostInductive, PTL

\* With one worker, no plugin is listed twice, whichever threads load plugins of
\* one name and version at once and however often they are closed and loaded.
THEOREM ListedOnce == ASSUME OneWorker PROVE Spec => []ReportedOnce
<1>1. HostIInv => ReportedOnce
  BY OneWorker DEF HostIInv, HostLives, Lives, Alone, Listed, ReportedOnce
<1> QED BY <1>1, HostInductive, PTL

\* With one worker, the server's Cancel is received: Close never waits for a server
\* that was told to stop before.
THEOREM CancelTaken == ASSUME OneWorker PROVE Spec => []CancelIsTaken
<1>1. HostIInv => CancelIsTaken
  <2> SUFFICES ASSUME HostIInv, NEW w \in Workers, At(w, "cancel")
               PROVE  host[mine[w]].server = "serving"
    BY DEF CancelIsTaken
  <2>1. mine[w] \in Hosts
    BY InHand DEF HostIInv, HostInv, TypeOK, At
  <2> QED BY <2>1, OneWorker DEF HostIInv, HostLives, Lives, Alone, At
<1> QED BY <1>1, HostInductive, PTL
=============================================================================

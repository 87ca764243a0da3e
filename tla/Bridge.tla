-------------------------------- MODULE Bridge --------------------------------
(* The native bridge as a whole: BridgeState behind its one mutex, the       *)
(* endpoint that start() and stop() create and close, the cache of QUIC      *)
(* sessions that connect() and the TCP forwarders share, and the forwarders' *)
(* accept loops and pump tasks, which run on the tokio worker threads and    *)
(* take the state mutex there, blocking the worker.                          *)
(*                                                                           *)
(* What happens on an open stream is FramedStream's business, and the bytes  *)
(* a forwarder copies are left out.  A name (forwarder id, endpoint          *)
(* generation, QUIC connection, stream) is a number or a model value that is *)
(* not used twice.                                                           *)
EXTENDS Integers, Sequences, FiniteSets, SequencesExt

CONSTANTS
  Callers,              \* application threads (the JS thread, if only one)
  Forwarders,           \* ids start_tcp_forwarder can give out
  PumpsPerForwarder,    \* bound: TCP connections a forwarder accepts
  Keys,                 \* session keys: peer and ALPN
  Workers,              \* worker threads of the runtime
  MAX_CACHED_SESSIONS,
  MaxStarts,            \* bound: endpoints bound
  MaxDials              \* bound: QUIC connections dialled

ASSUME BridgeAssumption ==
  /\ IsFiniteSet(Forwarders)
  /\ PumpsPerForwarder \in Nat /\ MaxStarts \in Nat /\ MaxDials \in Nat
  /\ Workers \in Nat \ {0} /\ MAX_CACHED_SESSIONS \in Nat \ {0}

Pumps == Forwarders \X (1..PumpsPerForwarder)
PumpsOf(f) == {f} \X (1..PumpsPerForwarder)

VARIABLES
  held,       \* a start() or stop() keeps the state mutex while it waits
  endpoint,   \* generation of the current endpoint, 0 for None
  started,    \* endpoints bound so far
  open,       \* generations whose endpoint is not closed
  dialled,    \* the QUIC connections made: key and generation
  live,       \* those not closed
  sessions,   \* BridgeState.sessions, least recently used first
  streams,    \* BridgeState.connections: the QUIC connection of each entry
  forwarders, \* the FORWARDERS map
  signalled,  \* forwarders whose stop_tx is true
  cPc, local, \* per caller: position in its call, and the call's variables
  loop,       \* per forwarder: its accept loop
  route,      \* per forwarder: key and endpoint
  dialing,    \* per forwarder: the pump that holds dial_lock
  active,     \* per forwarder: stats.active_connections
  pPc, pConn, \* per pump task: position, its QUIC connection
  aborted     \* pump tasks aborted while they had not ended

stateVars  == <<endpoint, started, open, streams>>
quicVars   == <<dialled, live>>
callerVars == <<cPc, local>>
mapVars    == <<forwarders, signalled, loop, route>>
pumpVars   == <<dialing, active, pPc, pConn, aborted>>
vars == <<held, stateVars, quicVars, sessions, callerVars, mapVars, pumpVars>>

None == <<>>

(* The locals of an exported call: the session key, the generation of the    *)
(* endpoint it cloned, its QUIC connection and the forwarder it starts.      *)
NoCall == [key |-> None, gen |-> 0, conn |-> 0, fw |-> None]

Init ==
  /\ held = FALSE /\ endpoint = 0 /\ started = 0 /\ open = {}
  /\ dialled = <<>> /\ live = {} /\ sessions = <<>> /\ streams = {}
  /\ forwarders = {} /\ signalled = {}
  /\ cPc = [a \in Callers |-> "idle"] /\ local = [a \in Callers |-> NoCall]
  /\ loop = [f \in Forwarders |-> "none"]
  /\ route = [f \in Forwarders |-> None]
  /\ dialing = [f \in Forwarders |-> None]
  /\ active = [f \in Forwarders |-> 0]
  /\ pPc = [p \in Pumps |-> "none"] /\ pConn = [p \in Pumps |-> 0]
  /\ aborted = {}

-----------------------------------------------------------------------------
(* The session cache.  Every operation on it holds the state mutex, so the   *)
(* order of the sequence stands for the values of last_used.                 *)

OfKey(k) == {s \in ToSet(sessions) : s.key = k}

(* HashMap::remove: a key has one entry at most.                             *)
Without(k) ==
  LET At == {i \in DOMAIN sessions : sessions[i].key = k}
  IN  IF At = {} THEN sessions ELSE RemoveAt(sessions, CHOOSE i \in At : TRUE)

(* Mutant: the cache has no limit.                                           *)
EvictNothing(ss) == ss

(* The eviction loop of cache_session.                                       *)
Evict(ss) == IF Len(ss) <= MAX_CACHED_SESSIONS THEN ss
             ELSE SubSeq(ss, Len(ss) - MAX_CACHED_SESSIONS + 1, Len(ss))

CacheSession(k, c) ==
  sessions' = Evict(Append(Without(k), [key |-> k, conn |-> c]))

(* A cached session that has not closed is used, and becomes the newest.     *)
Reuse(k, c) ==
  /\ [key |-> k, conn |-> c] \in ToSet(sessions) /\ c \in live
  /\ sessions' = Append(Without(k), [key |-> k, conn |-> c])

NothingToReuse(k) == \A s \in OfKey(k) : s.conn \notin live

(* endpoint.connect() succeeds: a new QUIC connection, number c.             *)
Dial(k, g, c) ==
  /\ g \in open /\ Len(dialled) < MaxDials
  /\ c = Len(dialled) + 1
  /\ dialled' = Append(dialled, [key |-> k, gen |-> g])
  /\ live' = live \cup {c}

SessionDies(c) ==
  /\ c \in live /\ live' = live \ {c}
  /\ UNCHANGED <<held, stateVars, dialled, sessions, callerVars, mapVars, pumpVars>>

-----------------------------------------------------------------------------
(* Worker threads.  A pump inside with_state occupies one, also while it     *)
(* waits for the mutex; every other step of a task needs a free one.         *)
Blocked == {p \in Pumps : pPc[p] \in {"lookup", "cache"}}
WorkerFree == Cardinality(Blocked) < Workers

-----------------------------------------------------------------------------
(* The exported calls.  A caller is an application thread: it may wait for   *)
(* the mutex without occupying a worker.                                     *)

(* From one position to another; l are the locals from now on.               *)
CallerTo(a, from, to, l) ==
  /\ cPc[a] = from /\ cPc' = [cPc EXCEPT ![a] = to]
  /\ local' = [local EXCEPT ![a] = IF to = "idle" THEN NoCall ELSE l]
CallerAt(a, from, to) == CallerTo(a, from, to, local[a])

(* start(): the mutex is held while the endpoint is bound.                   *)
StartCall(a) ==
  /\ started < MaxStarts /\ ~held
  /\ CallerAt(a, "idle", IF endpoint = 0 THEN "binding" ELSE "idle")
  /\ held' = (endpoint = 0)
  /\ UNCHANGED <<stateVars, quicVars, sessions, mapVars, pumpVars>>

StartBound(a) ==
  /\ CallerAt(a, "binding", "idle") /\ held' = FALSE
  /\ started' = started + 1 /\ endpoint' = started' /\ open' = open \cup {started'}
  /\ UNCHANGED <<streams, quicVars, sessions, mapVars, pumpVars>>

StartFails(a) ==
  /\ CallerAt(a, "binding", "idle") /\ held' = FALSE
  /\ UNCHANGED <<stateVars, quicVars, sessions, mapVars, pumpVars>>

(* Mutant: stop() leaves the forwarders alone.                               *)
StopCallBare(a) ==
  /\ CallerAt(a, "idle", "stop")
  /\ UNCHANGED <<held, stateVars, quicVars, sessions, mapVars, pumpVars>>

(* stop() begins with stop_all_tcp_forwarders().                             *)
StopCall(a) ==
  /\ CallerAt(a, "idle", "stop")
  /\ forwarders' = {} /\ signalled' = signalled \cup forwarders
  /\ UNCHANGED <<held, stateVars, quicVars, sessions, loop, route, pumpVars>>

(* Under the mutex it drains and clears, then waits for endpoint.close().    *)
StopDrain(a) ==
  /\ ~held /\ CallerTo(a, "stop", IF endpoint = 0 THEN "idle" ELSE "closing",
                       [NoCall EXCEPT !.gen = endpoint])
  /\ held' = (endpoint # 0)
  /\ streams' = {} /\ sessions' = <<>> /\ endpoint' = 0
  /\ UNCHANGED <<started, open, quicVars, mapVars, pumpVars>>

(* endpoint.close() is driven by tasks of the endpoint on the workers.       *)
StopClosed(a) ==
  /\ WorkerFree /\ CallerAt(a, "closing", "idle") /\ held' = FALSE
  /\ open' = open \ {local[a].gen}
  /\ live' = {c \in live : dialled[c].gen # local[a].gen}
  /\ UNCHANGED <<endpoint, started, streams, dialled, sessions, mapVars, pumpVars>>

-----------------------------------------------------------------------------
(* connect() and connect_target(), after the target has been parsed.         *)

ConnectCall(a, k) ==
  /\ CallerTo(a, "idle", "lookup", [NoCall EXCEPT !.key = k])
  /\ UNCHANGED <<held, stateVars, quicVars, sessions, mapVars, pumpVars>>

(* Not started: an error.  Else the endpoint and perhaps a session are       *)
(* cloned, and a closed session is removed.                                  *)
ConnectLookup(a) ==
  LET k == local[a].key
      To(pc, c) == CallerTo(a, "lookup", pc,
                            [local[a] EXCEPT !.gen = endpoint, !.conn = c])
  IN  /\ ~held
      /\ \/ endpoint = 0 /\ To("idle", 0) /\ UNCHANGED sessions
         \/ endpoint # 0 /\ \E c \in live : Reuse(k, c) /\ To("reuse", c)
         \/ /\ endpoint # 0 /\ NothingToReuse(k) /\ To("dial", 0)
            /\ sessions' = Without(k)
      /\ UNCHANGED <<held, stateVars, quicVars, mapVars, pumpVars>>

(* open_bi on the cached session; when it fails or times out: dial.          *)
ConnectReuse(a) ==
  /\ WorkerFree
  /\ \/ local[a].conn \in live /\ CallerAt(a, "reuse", "cache")
     \/ CallerAt(a, "reuse", "dial")
  /\ UNCHANGED <<held, stateVars, quicVars, sessions, mapVars, pumpVars>>

ConnectDial(a) ==
  /\ WorkerFree
  /\ \E c \in 1..MaxDials :
       /\ Dial(local[a].key, local[a].gen, c)
       /\ CallerTo(a, "dial", "cache", [local[a] EXCEPT !.conn = c])
  /\ UNCHANGED <<held, stateVars, sessions, mapVars, pumpVars>>

(* Mutant: a failed dial is cached.                                          *)
ConnectFailsCached(a) ==
  /\ WorkerFree /\ CallerAt(a, "dial", "cache")
  /\ UNCHANGED <<held, stateVars, quicVars, sessions, mapVars, pumpVars>>

(* The dial or open_bi on the new connection fails or times out.             *)
ConnectFails(a) ==
  /\ WorkerFree /\ CallerAt(a, "dial", "idle")
  /\ UNCHANGED <<held, stateVars, quicVars, sessions, mapVars, pumpVars>>

ConnectCache(a) ==
  /\ ~held /\ CallerAt(a, "cache", "insert")
  /\ CacheSession(local[a].key, local[a].conn)
  /\ UNCHANGED <<held, stateVars, quicVars, mapVars, pumpVars>>

ConnectInsert(a) ==
  /\ ~held /\ CallerAt(a, "insert", "idle")
  /\ streams' = streams \cup {local[a].conn}
  /\ UNCHANGED <<held, endpoint, started, open, quicVars, sessions, mapVars, pumpVars>>

(* close() of the streams on one QUIC connection.                            *)
CloseStreams(a, c) ==
  /\ ~held /\ cPc[a] = "idle" /\ c \in streams
  /\ streams' = streams \ {c}
  /\ UNCHANGED <<held, endpoint, started, open, quicVars, sessions, callerVars,
                 mapVars, pumpVars>>

-----------------------------------------------------------------------------
(* start_tcp_forwarder() and stop_tcp_forwarder().                           *)

ForwardCall(a, f, k) ==
  /\ loop[f] = "none" /\ \A b \in Callers : local[b].fw # f
  /\ CallerTo(a, "idle", "forward", [NoCall EXCEPT !.key = k, !.fw = f])
  /\ UNCHANGED <<held, stateVars, quicVars, sessions, mapVars, pumpVars>>

ForwardEndpoint(a) ==
  /\ ~held /\ CallerTo(a, "forward", IF endpoint = 0 THEN "idle" ELSE "spawn",
                       [local[a] EXCEPT !.gen = endpoint])
  /\ UNCHANGED <<held, stateVars, quicVars, sessions, mapVars, pumpVars>>

ForwardSpawn(a) ==
  /\ CallerAt(a, "spawn", "register")
  /\ loop' = [loop EXCEPT ![local[a].fw] = "running"]
  /\ route' = [route EXCEPT ![local[a].fw] =
                 [key |-> local[a].key, gen |-> local[a].gen]]
  /\ UNCHANGED <<held, stateVars, quicVars, sessions, forwarders, signalled, pumpVars>>

(* The loopback port cannot be bound.                                        *)
ForwardFails(a) ==
  /\ CallerAt(a, "spawn", "idle")
  /\ UNCHANGED <<held, stateVars, quicVars, sessions, mapVars, pumpVars>>

ForwardRegister(a) ==
  /\ CallerAt(a, "register", "idle")
  /\ forwarders' = forwarders \cup {local[a].fw}
  /\ UNCHANGED <<held, stateVars, quicVars, sessions, signalled, loop, route, pumpVars>>

ForwardStop(a, f) ==
  /\ cPc[a] = "idle" /\ f \in forwarders
  /\ forwarders' = forwarders \ {f} /\ signalled' = signalled \cup {f}
  /\ UNCHANGED <<held, stateVars, quicVars, sessions, callerVars, loop, route,
                 pumpVars>>

CallerStep(a) ==
  \/ StartBound(a) \/ StartFails(a) \/ StopDrain(a) \/ StopClosed(a)
  \/ ConnectLookup(a) \/ ConnectReuse(a) \/ ConnectDial(a) \/ ConnectFails(a)
  \/ ConnectCache(a) \/ ConnectInsert(a)
  \/ ForwardEndpoint(a) \/ ForwardSpawn(a) \/ ForwardFails(a) \/ ForwardRegister(a)

Call(a) ==
  \/ StartCall(a) \/ StopCall(a)
  \/ \E k \in Keys : ConnectCall(a, k)
  \/ \E c \in streams : CloseStreams(a, c)
  \/ \E f \in Forwarders : ForwardStop(a, f) \/ \E k \in Keys : ForwardCall(a, f, k)

-----------------------------------------------------------------------------
(* A forwarder's accept loop.                                                *)

TaskUnchanged == UNCHANGED <<held, stateVars, callerVars, forwarders, signalled, route>>

Accept(f, p) ==
  /\ WorkerFree /\ loop[f] = "running" /\ p \in PumpsOf(f) /\ pPc[p] = "none"
  /\ pPc' = [pPc EXCEPT ![p] = "lock"]
  /\ active' = [active EXCEPT ![f] = @ + 1]
  /\ TaskUnchanged /\ UNCHANGED <<quicVars, sessions, loop, dialing, pConn, aborted>>

(* Mutant: open connections are left to end by themselves.                   *)
LoopStopsGently(f) ==
  /\ WorkerFree /\ loop[f] = "running" /\ f \in signalled
  /\ loop' = [loop EXCEPT ![f] = "ended"]
  /\ active' = [active EXCEPT ![f] = 0]
  /\ TaskUnchanged /\ UNCHANGED <<quicVars, sessions, dialing, pPc, pConn, aborted>>

(* The stop signal: abort_all() and active_connections = 0.                  *)
LoopStops(f) ==
  /\ WorkerFree /\ loop[f] = "running" /\ f \in signalled
  /\ loop' = [loop EXCEPT ![f] = "ended"]
  /\ aborted' = aborted \cup {p \in PumpsOf(f) : pPc[p] \notin {"none", "ended"}}
  /\ active' = [active EXCEPT ![f] = 0]
  /\ TaskUnchanged /\ UNCHANGED <<quicVars, sessions, dialing, pPc, pConn>>

-----------------------------------------------------------------------------
(* pump(), with session().  An aborted task ends where it awaits, but not in *)
(* the middle of with_state.                                                 *)

PumpAt(p, from, to) == /\ pPc[p] = from /\ pPc' = [pPc EXCEPT ![p] = to]
                       /\ TaskUnchanged /\ UNCHANGED <<loop, aborted>>

Runs(p) == WorkerFree /\ p \notin aborted
FreeDialLock(f) == dialing' = [dialing EXCEPT ![f] = None]

(* Mutant: the dials of one forwarder are not serialized.                    *)
PumpLockShared(f, p) ==
  /\ Runs(p) /\ PumpAt(p, "lock", "lookup")
  /\ dialing' = [dialing EXCEPT ![f] = p]
  /\ UNCHANGED <<quicVars, sessions, active, pConn>>

(* dial_lock is free; with_state follows without an await.                   *)
PumpLock(f, p) ==
  /\ Runs(p) /\ dialing[f] = None /\ PumpAt(p, "lock", "lookup")
  /\ dialing' = [dialing EXCEPT ![f] = p]
  /\ UNCHANGED <<quicVars, sessions, active, pConn>>

PumpLookup(f, p) ==
  /\ ~held
  /\ \/ /\ PumpAt(p, "lookup", "open") /\ FreeDialLock(f)
        /\ \E c \in live : Reuse(route[f].key, c) /\ pConn' = [pConn EXCEPT ![p] = c]
     \/ /\ PumpAt(p, "lookup", "dial")
        /\ NothingToReuse(route[f].key) /\ UNCHANGED <<sessions, dialing, pConn>>
  /\ UNCHANGED <<quicVars, active>>

PumpDial(f, p) ==
  /\ Runs(p) /\ PumpAt(p, "dial", "cache")
  /\ \E c \in 1..MaxDials : /\ Dial(route[f].key, route[f].gen, c)
                           /\ pConn' = [pConn EXCEPT ![p] = c]
  /\ UNCHANGED <<sessions, dialing, active>>

PumpDialFails(f, p) ==
  /\ Runs(p) /\ PumpAt(p, "dial", "count") /\ FreeDialLock(f)
  /\ UNCHANGED <<quicVars, sessions, active, pConn>>

PumpCache(f, p) ==
  /\ ~held /\ PumpAt(p, "cache", "open") /\ FreeDialLock(f)
  /\ CacheSession(route[f].key, pConn[p])
  /\ UNCHANGED <<quicVars, active, pConn>>

(* open_bi, preamble and copying end, well or not.                           *)
PumpEnds(f, p) ==
  /\ Runs(p) /\ PumpAt(p, "open", "count")
  /\ pConn' = [pConn EXCEPT ![p] = 0]
  /\ UNCHANGED <<quicVars, sessions, dialing, active>>

(* Mutant: a pump whose loop has ended subtracts as well.                    *)
PumpCountsPlain(f, p) ==
  /\ PumpAt(p, "count", "ended")
  /\ active' = [active EXCEPT ![f] = @ - 1]
  /\ UNCHANGED <<quicVars, sessions, dialing, pConn>>

(* The task's last stretch: active_connections.saturating_sub(1).            *)
PumpCounts(f, p) ==
  /\ PumpAt(p, "count", "ended")
  /\ active' = [active EXCEPT ![f] = IF @ > 0 THEN @ - 1 ELSE 0]
  /\ UNCHANGED <<quicVars, sessions, dialing, pConn>>

(* The aborted task is dropped, and with it its hold of dial_lock.           *)
PumpAborted(f, p) ==
  /\ WorkerFree /\ p \in aborted
  /\ \E pc \in {"lock", "dial", "open"} : PumpAt(p, pc, "ended")
  /\ dialing' = [dialing EXCEPT ![f] = IF @ = p THEN None ELSE @]
  /\ pConn' = [pConn EXCEPT ![p] = 0]
  /\ UNCHANGED <<quicVars, sessions, active>>

Pump(f, p) ==
  \/ PumpLock(f, p) \/ PumpLookup(f, p) \/ PumpDial(f, p) \/ PumpDialFails(f, p)
  \/ PumpCache(f, p) \/ PumpEnds(f, p) \/ PumpCounts(f, p) \/ PumpAborted(f, p)

Next ==
  \/ \E a \in Callers : Call(a) \/ CallerStep(a)
  \/ \E f \in Forwarders :
       LoopStops(f) \/ \E p \in PumpsOf(f) : Accept(f, p) \/ Pump(f, p)
  \/ \E c \in live : SessionDies(c)

(* Threads inside a call and tasks go on.  Dials and open_bi end, if only by *)
(* their timeout; a copying pump ends only when a side ends it or it is      *)
(* aborted.  select! and the mutex are fair enough that a step which is      *)
(* possible again and again is taken.                                        *)
Fairness ==
  /\ \A a \in Callers : SF_vars(CallerStep(a))
  /\ \A f \in Forwarders :
       /\ SF_vars(LoopStops(f))
       /\ \A p \in PumpsOf(f) :
            SF_vars(Pump(f, p) /\ (pPc[p] = "open" => p \in aborted))

Spec == Init /\ [][Next]_vars /\ Fairness

-----------------------------------------------------------------------------
(* Every variable has its type.                                              *)
TypeOK ==
  /\ held \in BOOLEAN
  /\ started \in 0..MaxStarts /\ endpoint \in 0..started
  /\ open \subseteq 1..started
  /\ dialled \in Seq([key : Keys, gen : 1..started]) /\ Len(dialled) <= MaxDials
  /\ live \subseteq 1..Len(dialled) /\ streams \subseteq 1..Len(dialled)
  /\ sessions \in Seq([key : Keys, conn : 1..Len(dialled)])
  /\ forwarders \subseteq Forwarders /\ signalled \subseteq Forwarders
  /\ cPc \in [Callers -> {"idle", "binding", "stop", "closing", "lookup", "reuse",
                          "dial", "cache", "insert", "forward", "spawn", "register"}]
  /\ local \in [Callers -> [key : Keys \cup {None}, gen : 0..started,
                           conn : 0..Len(dialled), fw : Forwarders \cup {None}]]
  /\ loop \in [Forwarders -> {"none", "running", "ended"}]
  /\ route \in [Forwarders -> [key : Keys, gen : 1..started] \cup {None}]
  /\ dialing \in [Forwarders -> Pumps \cup {None}]
  /\ active \in [Forwarders -> Int]
  /\ pPc \in [Pumps -> {"none", "lock", "lookup", "dial", "cache", "open", "count",
                        "ended"}]
  /\ pConn \in [Pumps -> 0..Len(dialled)]
  /\ aborted \subseteq Pumps

(* The session cache is bounded, has one session per peer and ALPN, and      *)
(* leads to the peer the key names, although callers and pumps dial outside  *)
(* the mutex and cache what they dialled later.                              *)
CacheSound ==
  /\ Len(sessions) <= MAX_CACHED_SESSIONS
  /\ \A i, j \in 1..Len(sessions) : sessions[i].key = sessions[j].key => i = j
  /\ \A i \in 1..Len(sessions) : dialled[sessions[i].conn].key = sessions[i].key

(* "connections accepted together share one dial" (tcp_forward.rs:129): of   *)
(* one forwarder's pumps, one at most is between the cache lookup and the    *)
(* caching of what it dialled, also when pumps fail or are aborted there.    *)
SingleFlight ==
  \A f \in Forwarders : \A p, q \in PumpsOf(f) :
    {pPc[p], pPc[q]} \subseteq {"lookup", "dial", "cache"} => p = q

(* Forwarders block at most one worker thread each: with fewer forwarders    *)
(* than worker threads one of them is always free for the endpoint's tasks.  *)
BlockedBounded == Cardinality(Blocked) <= Cardinality(Forwarders)

(* active_connections is the number of pump tasks of a forwarder that runs,  *)
(* and 0 of one that has stopped, although pumps that were finishing when    *)
(* the loop aborted them still subtract their one.                           *)
ActiveCounted ==
  \A f \in Forwarders :
    active[f] = IF loop[f] = "running"
                THEN Cardinality({p \in PumpsOf(f) : pPc[p] \notin {"none", "ended"}})
                ELSE 0

(* stop() "Closes all open streams, clears the warm session cache, and shuts *)
(* down the endpoint" (react-native/README.md:159), and stops all forwarders:*)
(* with one calling thread, between its calls a stopped bridge has no stream *)
(* and no forwarder, no running accept loop without its stop signal, and no  *)
(* usable session, whatever pump tasks were doing meanwhile.                 *)
StoppedIsEmpty ==
  endpoint = 0 /\ (\A a \in Callers : cPc[a] = "idle") =>
    /\ streams = {} /\ forwarders = {}
    /\ \A f \in Forwarders : loop[f] = "running" => f \in signalled
    /\ \A i \in 1..Len(sessions) : sessions[i].conn \notin live

(* stop() returns: closing the endpoint under the state mutex is not         *)
(* prevented by the tasks that want the mutex.                               *)
StopReturns == \A a \in Callers : cPc[a] = "stop" ~> cPc[a] = "idle"

(* A stopped forwarder's loop and all its pump tasks end.                    *)
StopEndsPumps ==
  \A f \in Forwarders :
    f \in signalled ~> /\ loop[f] # "running"
                      /\ \A p \in PumpsOf(f) : pPc[p] \in {"none", "ended"}
=============================================================================

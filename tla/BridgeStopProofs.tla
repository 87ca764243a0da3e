--------------------------- MODULE BridgeStopProofs ---------------------------
(* Theorems about Bridge with one calling thread, as the JavaScript API is   *)
(* used: what stop() leaves behind.                                          *)
EXTENDS BridgeProofs

-----------------------------------------------------------------------------
(* The inductive invariant.                                                  *)

(* A QUIC connection that has not closed is one of an endpoint that is open. *)
LiveOpen == \A c \in live : dialled[c].gen \in open

(* The thread js is where only an endpoint, or none, can have brought it.    *)
CallState(js) ==
  /\ open \subseteq {IF cPc[js] = "closing" THEN local[js].gen ELSE endpoint}
  /\ cPc[js] \in Holding => endpoint = 0
  /\ cPc[js] \in WithGen \ {"closing"} => endpoint # 0
  /\ endpoint = 0 => streams = {}

(* The FORWARDERS map is empty from stop_all_tcp_forwarders() until start()  *)
(* has bound an endpoint again, and a loop that runs is in the map, has its  *)
(* signal or is about to be registered.                                      *)
Registered(js) ==
  /\ endpoint = 0 \/ cPc[js] = "stop" => forwarders = {}
  /\ \A f \in Forwarders :
       loop[f] = "running" => \/ f \in forwarders \cup signalled
                              \/ cPc[js] = "register" /\ local[js].fw = f

StopInv(js) == LiveOpen /\ CallState(js) /\ Registered(js)

(* Where a call goes on, and with which locals.                              *)
LEMMA CallerNow ==
  ASSUME CallTypes, NEW a \in Callers, NEW from, NEW to, NEW l,
         CallerTo(a, from, to, l)
  PROVE  /\ cPc[a] = from /\ cPc'[a] = to
         /\ to # "idle" => local'[a] = l
  BY DEF CallTypes, CallerTo

(* Only an open endpoint is dialled from, and its connections are closed     *)
(* before it is.                                                             *)
LEMMA LiveOpenStep ==
  ASSUME BridgeInv, [Next]_vars, Grown, LiveOpen PROVE LiveOpen'
<1>i. QuicTypes /\ live \subseteq 1..Len(dialled)
  BY DEF BridgeInv, QuicTypes
<1>u. UNCHANGED <<dialled, live, open>> => LiveOpen'
  BY DEF LiveOpen
<1>d. ASSUME NEW k, NEW g, NEW c, Dial(k, g, c), open' = open PROVE LiveOpen'
  <2>1. /\ g \in open /\ live' = live \cup {c}
        /\ dialled'[c] = [key |-> k, gen |-> g]
    BY <1>i, <1>d, DialGrows DEF Dial
  <2>2. \A d \in live : dialled'[d] = dialled[d]
    BY <1>i DEF Grown
  <2> QED
    BY <1>d, <2>1, <2>2 DEF LiveOpen
<1>1. ASSUME NEW a \in Callers, Call(a) \/ StartFails(a) \/ StopDrain(a) \/
            ConnectLookup(a) \/ ConnectReuse(a) \/ ConnectFails(a) \/
            ConnectCache(a) \/ ConnectInsert(a) \/ ForwardEndpoint(a) \/
            ForwardSpawn(a) \/ ForwardFails(a) \/ ForwardRegister(a)
      PROVE  LiveOpen'
  <2>1. UNCHANGED <<dialled, live, open>>
    BY <1>1 DEF Call, StartCall, StopCall, ConnectCall, CloseStreams,
      ForwardStop, ForwardCall, StartFails, StopDrain, ConnectLookup,
      ConnectReuse, ConnectFails, ConnectCache, ConnectInsert,
      ForwardEndpoint, ForwardSpawn, ForwardFails, ForwardRegister, CallerAt,
      CallerTo, stateVars, quicVars, callerVars, mapVars, pumpVars
  <2> QED
    BY <1>u, <2>1
<1>2. ASSUME NEW f \in Forwarders, NEW p \in PumpsOf(f), Accept(f, p) \/
            PumpLock(f, p) \/ PumpLookup(f, p) \/ PumpDialFails(f, p) \/
            PumpCache(f, p) \/ PumpEnds(f, p) \/ PumpCounts(f, p) \/
            PumpAborted(f, p)
      PROVE  LiveOpen'
  <2>1. UNCHANGED <<dialled, live, open>>
    BY <1>2 DEF Accept, PumpLock, PumpLookup, PumpDialFails, PumpCache,
      PumpEnds, PumpCounts, PumpAborted, PumpAt, FreeDialLock, TaskUnchanged,
      stateVars, quicVars, callerVars, mapVars, pumpVars
  <2> QED
    BY <1>u, <2>1
<1>3. CASE UNCHANGED vars \/ \E f \in Forwarders : LoopStops(f)
  <2>1. UNCHANGED <<dialled, live, open>>
    BY <1>3 DEF LoopStops, TaskUnchanged, vars, stateVars, quicVars,
      callerVars, mapVars, pumpVars
  <2> QED
    BY <1>u, <2>1
<1>4. ASSUME NEW c \in live, SessionDies(c) PROVE LiveOpen'
  BY <1>4 DEF SessionDies, stateVars, LiveOpen
<1>5. ASSUME NEW a \in Callers, StartBound(a) PROVE LiveOpen'
  BY <1>5 DEF StartBound, quicVars, LiveOpen
<1>6. ASSUME NEW a \in Callers, StopClosed(a) PROVE LiveOpen'
  BY <1>6 DEF StopClosed, LiveOpen
<1>7. ASSUME NEW a \in Callers, ConnectDial(a) PROVE LiveOpen'
  BY <1>d, <1>7 DEF ConnectDial, stateVars
<1>8. ASSUME NEW f \in Forwarders, NEW p \in PumpsOf(f), PumpDial(f, p)
      PROVE  LiveOpen'
  BY <1>d, <1>8 DEF PumpDial, PumpAt, TaskUnchanged, stateVars
<1> QED
  BY <1>1, <1>2, <1>3, <1>4, <1>5, <1>6, <1>7, <1>8 DEF Next, CallerStep, Pump

(* The thread is inside a call that needs the endpoint only while there is   *)
(* one, and stop() leaves no stream and no forwarder.                        *)
LEMMA OneCallStep ==
  ASSUME NEW js, Callers = {js}, BridgeInv, [Next]_vars,
         CallState(js), Registered(js)
  PROVE  CallState(js)' /\ Registered(js)'
<1>i. CallTypes /\ MapTypes /\ StateTypes
  BY DEF BridgeInv
<1>j. js \in Callers /\ \A a \in Callers : a = js
  OBVIOUS
<1>o. started \in Nat /\ open \subseteq 1..started
  BY <1>i, BridgeAssumption DEF StateTypes
<1> DEFINE Goal == CallState(js)' /\ Registered(js)'
<1>u. UNCHANGED <<stateVars, callerVars, mapVars>> => Goal
  BY DEF stateVars, callerVars, mapVars, CallState, Registered
<1>1. ASSUME NEW f \in Forwarders, NEW p \in PumpsOf(f),
             Accept(f, p) \/ Pump(f, p)
      PROVE  Goal
  <2>1. UNCHANGED <<stateVars, callerVars, mapVars>>
    BY <1>1 DEF Accept, Pump, PumpLock, PumpLookup, PumpDial, PumpDialFails,
      PumpCache, PumpEnds, PumpCounts, PumpAborted, PumpAt, TaskUnchanged,
      mapVars
  <2> QED
    BY <1>u, <2>1
<1>2. CASE UNCHANGED vars \/ \E c \in live : SessionDies(c)
  <2>1. UNCHANGED <<stateVars, callerVars, mapVars>>
    BY <1>2 DEF SessionDies, vars
  <2> QED
    BY <1>u, <2>1
<1>3. ASSUME NEW f \in Forwarders, LoopStops(f) PROVE Goal
  <2>1. /\ UNCHANGED <<stateVars, callerVars, forwarders, signalled>>
        /\ loop' = [loop EXCEPT ![f] = "ended"]
    BY <1>3 DEF LoopStops, TaskUnchanged
  <2>2. \A g \in Forwarders : loop'[g] = "running" => loop[g] = "running"
    BY <1>i, <2>1 DEF MapTypes
  <2> QED
    BY <2>1, <2>2 DEF stateVars, callerVars, CallState, Registered
<1>4. CASE StartCall(js) \/ StartFails(js)
  <2>1. PICK from \in {"idle", "binding"}, to \in {"idle", "binding"} :
          /\ cPc[js] = from /\ cPc'[js] = to /\ (to = "binding" => endpoint = 0)
    BY <1>i, <1>j, <1>4, CallerNow DEF StartCall, StartFails, CallerAt
  <2>2. UNCHANGED <<stateVars, mapVars>>
    BY <1>4 DEF StartCall, StartFails
  <2> QED
    BY <2>1, <2>2
    DEF stateVars, mapVars, CallState, Registered, Holding, WithGen
<1>5. CASE StartBound(js)
  <2>1. cPc[js] = "binding" /\ cPc'[js] = "idle"
    BY <1>i, <1>j, <1>5, CallerNow DEF StartBound, CallerAt
  <2>2. /\ started' = started + 1 /\ endpoint' = started'
        /\ open' = open \cup {started'}
        /\ UNCHANGED <<streams, mapVars>>
    BY <1>5 DEF StartBound
  <2>3. endpoint = 0 /\ open \subseteq {0}
    BY <2>1 DEF CallState, Holding
  <2>4. open = {} /\ endpoint' # 0
    BY <1>o, <2>2, <2>3
  <2> QED
    BY <2>1, <2>2, <2>4 DEF mapVars, CallState, Registered, Holding, WithGen
<1>6. CASE StopCall(js)
  <2>1. cPc[js] = "idle" /\ cPc'[js] = "stop"
    BY <1>i, <1>j, <1>6, CallerNow DEF StopCall, CallerAt
  <2>2. /\ forwarders' = {} /\ signalled' = signalled \cup forwarders
        /\ UNCHANGED <<stateVars, loop>>
    BY <1>6 DEF StopCall
  <2> QED
    BY <2>1, <2>2 DEF stateVars, CallState, Registered, Holding, WithGen
<1>7. CASE StopDrain(js)
  <2>1. CallerTo(js, "stop", IF endpoint = 0 THEN "idle" ELSE "closing",
                 [NoCall EXCEPT !.gen = endpoint])
    BY <1>7 DEF StopDrain
  <2>2. /\ cPc[js] = "stop"
        /\ cPc'[js] = IF endpoint = 0 THEN "idle" ELSE "closing"
        /\ endpoint # 0 => local'[js].gen = endpoint
    BY <1>i, <1>j, <2>1, CallerNow DEF NoCall
  <2>3. /\ streams' = {} /\ endpoint' = 0 /\ UNCHANGED <<open, mapVars>>
    BY <1>7 DEF StopDrain
  <2>4. forwarders = {} /\ open \subseteq {endpoint}
    BY <2>2 DEF Registered, CallState
  <2> QED
    BY <2>2, <2>3, <2>4 DEF mapVars, CallState, Registered, Holding, WithGen
<1>8. CASE StopClosed(js)
  <2>1. cPc[js] = "closing" /\ cPc'[js] = "idle"
    BY <1>i, <1>j, <1>8, CallerNow DEF StopClosed, CallerAt
  <2>2. /\ open' = open \ {local[js].gen}
        /\ UNCHANGED <<endpoint, streams, mapVars>>
    BY <1>8 DEF StopClosed
  <2> QED
    BY <2>1, <2>2 DEF mapVars, CallState, Registered, Holding, WithGen
<1>9. ASSUME NEW k \in Keys, ConnectCall(js, k) PROVE Goal
  <2>1. cPc[js] = "idle" /\ cPc'[js] = "lookup"
    BY <1>i, <1>j, <1>9, CallerNow DEF ConnectCall
  <2>2. UNCHANGED <<stateVars, mapVars>>
    BY <1>9 DEF ConnectCall
  <2> QED
    BY <2>1, <2>2
    DEF stateVars, mapVars, CallState, Registered, Holding, WithGen
<1>10. CASE ConnectLookup(js)
  <2>1. PICK to \in {"idle", "reuse", "dial"}, c \in live \cup {0} :
          /\ CallerTo(js, "lookup", to,
                      [local[js] EXCEPT !.gen = endpoint, !.conn = c])
          /\ to # "idle" => endpoint # 0
    BY <1>10 DEF ConnectLookup
  <2>2. cPc[js] = "lookup" /\ cPc'[js] = to
    BY <1>i, <1>j, <2>1, CallerNow
  <2>3. UNCHANGED <<stateVars, mapVars>>
    BY <1>10 DEF ConnectLookup
  <2> QED
    BY <2>1, <2>2, <2>3
    DEF stateVars, mapVars, CallState, Registered, Holding, WithGen
<1>11. CASE ConnectReuse(js) \/ ConnectDial(js) \/ ConnectFails(js) \/
            ConnectCache(js)
  <2>1. PICK from \in {"reuse", "dial", "cache"},
             to \in {"idle", "dial", "cache", "insert"} :
          cPc[js] = from /\ cPc'[js] = to
    BY <1>i, <1>j, <1>11, CallerNow
    DEF ConnectReuse, ConnectDial, ConnectFails, ConnectCache, CallerAt
  <2>2. UNCHANGED <<stateVars, mapVars>>
    BY <1>11 DEF ConnectReuse, ConnectDial, ConnectFails, ConnectCache
  <2> QED
    BY <2>1, <2>2
    DEF stateVars, mapVars, CallState, Registered, Holding, WithGen
<1>12. CASE ConnectInsert(js)
  <2>1. cPc[js] = "insert" /\ cPc'[js] = "idle"
    BY <1>i, <1>j, <1>12, CallerNow DEF ConnectInsert, CallerAt
  <2>2. UNCHANGED <<endpoint, open, mapVars>>
    BY <1>12 DEF ConnectInsert
  <2> QED
    BY <2>1, <2>2 DEF mapVars, CallState, Registered, Holding, WithGen
<1>13. ASSUME NEW c \in streams, CloseStreams(js, c) PROVE Goal
  <2>1. /\ streams' \subseteq streams
        /\ UNCHANGED <<endpoint, open, callerVars, mapVars>>
    BY <1>13 DEF CloseStreams
  <2> QED
    BY <2>1 DEF callerVars, mapVars, CallState, Registered
<1>14. ASSUME NEW f \in Forwarders, ForwardStop(js, f) PROVE Goal
  <2>1. /\ forwarders' = forwarders \ {f} /\ signalled' = signalled \cup {f}
        /\ UNCHANGED <<stateVars, callerVars, loop>>
    BY <1>14 DEF ForwardStop
  <2> QED
    BY <2>1 DEF stateVars, callerVars, CallState, Registered
<1>15. ASSUME NEW f \in Forwarders, NEW k \in Keys, ForwardCall(js, f, k)
       PROVE  Goal
  <2>1. cPc[js] = "idle" /\ cPc'[js] = "forward"
    BY <1>i, <1>j, <1>15, CallerNow DEF ForwardCall
  <2>2. UNCHANGED <<stateVars, mapVars>>
    BY <1>15 DEF ForwardCall
  <2> QED
    BY <2>1, <2>2
    DEF stateVars, mapVars, CallState, Registered, Holding, WithGen
<1>16. CASE ForwardEndpoint(js)
  <2>1. /\ cPc[js] = "forward"
        /\ cPc'[js] = IF endpoint = 0 THEN "idle" ELSE "spawn"
    BY <1>i, <1>j, <1>16, CallerNow DEF ForwardEndpoint
  <2>2. UNCHANGED <<stateVars, mapVars>>
    BY <1>16 DEF ForwardEndpoint
  <2> QED
    BY <2>1, <2>2
    DEF stateVars, mapVars, CallState, Registered, Holding, WithGen
<1>17. CASE ForwardSpawn(js)
  <2>1. /\ cPc[js] = "spawn" /\ cPc'[js] = "register" /\ local'[js] = local[js]
    BY <1>i, <1>j, <1>17, CallerNow DEF ForwardSpawn, CallerAt
  <2>2. /\ loop' = [loop EXCEPT ![local[js].fw] = "running"]
        /\ UNCHANGED <<stateVars, forwarders, signalled>>
    BY <1>17 DEF ForwardSpawn
  <2>3. \A f \in Forwarders : loop'[f] = "running" =>
          loop[f] = "running" \/ f = local[js].fw
    BY <1>i, <2>2 DEF MapTypes
  <2> QED
    BY <2>1, <2>2, <2>3 DEF stateVars, CallState, Registered, Holding, WithGen
<1>18. CASE ForwardFails(js)
  <2>1. cPc[js] = "spawn" /\ cPc'[js] = "idle"
    BY <1>i, <1>j, <1>18, CallerNow DEF ForwardFails, CallerAt
  <2>2. UNCHANGED <<stateVars, mapVars>>
    BY <1>18 DEF ForwardFails
  <2> QED
    BY <2>1, <2>2
    DEF stateVars, mapVars, CallState, Registered, Holding, WithGen
<1>19. CASE ForwardRegister(js)
  <2>1. cPc[js] = "register" /\ cPc'[js] = "idle"
    BY <1>i, <1>j, <1>19, CallerNow DEF ForwardRegister, CallerAt
  <2>2. /\ forwarders' = forwarders \cup {local[js].fw}
        /\ UNCHANGED <<stateVars, signalled, loop>>
    BY <1>19 DEF ForwardRegister
  <2>3. endpoint # 0
    BY <2>1 DEF CallState, WithGen
  <2> QED
    BY <2>1, <2>2, <2>3 DEF stateVars, CallState, Registered, Holding, WithGen
<1>20. CASE Call(js)
  BY <1>4, <1>6, <1>9, <1>13, <1>14, <1>15, <1>20 DEF Call
<1>21. CASE CallerStep(js)
  BY <1>4, <1>5, <1>7, <1>8, <1>10, <1>11, <1>12, <1>16, <1>17, <1>18, <1>19,
    <1>21 DEF CallerStep
<1> QED
  BY <1>j, <1>1, <1>2, <1>3, <1>20, <1>21 DEF Next

(* It holds before the first call.                                           *)
LEMMA StopInit ==
  ASSUME NEW js, Callers = {js} PROVE Init => StopInv(js)
<1> SUFFICES ASSUME Init PROVE StopInv(js)
  OBVIOUS
<1>1. cPc[js] = "idle" /\ \A f \in Forwarders : loop[f] = "none"
  BY DEF Init
<1>2. open = {} /\ endpoint = 0 /\ live = {} /\ streams = {} /\ forwarders = {}
  BY DEF Init
<1> QED
  BY <1>1, <1>2 DEF StopInv, LiveOpen, CallState, Registered, Holding, WithGen

(* With one calling thread a stopped bridge is empty between its calls, for  *)
(* any number of forwarders and pump tasks that were dialling, caching or    *)
(* being aborted meanwhile: no stream, no forwarder in the map, no accept    *)
(* loop without its stop signal, no session that could be used.              *)
THEOREM StopLeavesNothing ==
  ASSUME NEW js, Callers = {js} PROVE Spec => []StoppedIsEmpty
<1>1. BridgeInv /\ StopInv(js) => StoppedIsEmpty
  <2> SUFFICES ASSUME BridgeInv, StopInv(js), endpoint = 0, cPc[js] = "idle"
               PROVE  /\ streams = {} /\ forwarders = {}
                      /\ \A f \in Forwarders :
                           loop[f] = "running" => f \in signalled
                      /\ live = {}
    BY DEF StoppedIsEmpty
  <2>1. open \subseteq {0} /\ open \subseteq 1..started /\ started \in Nat
    BY BridgeAssumption DEF StopInv, CallState, BridgeInv, StateTypes
  <2>2. open = {}
    BY <2>1
  <2>3. live = {}
    BY <2>2 DEF StopInv, LiveOpen
  <2> QED
    BY <2>3 DEF StopInv, CallState, Registered
<1>2. BridgeInv /\ StopInv(js) /\ [Next]_vars => StopInv(js)'
  BY BridgeStep, LiveOpenStep, OneCallStep DEF StopInv
<1>3. Init => StopInv(js)
  BY StopInit
<1> QED
  BY <1>1, <1>2, <1>3, BridgeAlways, PTL DEF Spec
=============================================================================

------------------------------ MODULE JsStream ------------------------------
(* The stream object that createStream of index.js builds over one native    *)
(* connection: the receive pump, the handler sets, the chain of sends and    *)
(* close().  JavaScript runs one call stack at a time, but the native tasks  *)
(* of NativeStream go on between any two native calls, and a handler may     *)
(* call the stream again while the pump is still iterating over handlers.    *)
(*                                                                           *)
(* onError handlers only report and are left out.  A handler that closes the *)
(* stream does nothing after that.  A JS Set is iterated live: what is added *)
(* during the iteration is visited, what is deleted is not; the order is any.*)
EXTENDS NativeStream, Sequences

CONSTANTS
  Listeners,   \* handlers for onMessage
  Closers,     \* handlers for onClose, each registered at most once
  MaxSends     \* bound: calls of send()

ASSUME BoundsAssumption == MaxPeerFrames \in Nat /\ MaxSends \in Nat

VARIABLES
  jsClosed,    \* closed
  pumping,
  armed,       \* pump loops that wait for their setTimeout
  listeners,   \* messageHandlers
  closers,     \* closeHandlers
  js,          \* what the JS thread is doing for the pump
  todo,        \* listeners the iteration has still to hand the frame to
  telling,     \* close handlers the iteration of emitClose has still to call
  inHandler,   \* a handler is running
  unused,      \* close handlers not registered yet
  micro,       \* close handlers scheduled as a microtask
  told,        \* how often each close handler was called
  since, got,  \* per listener: frames popped before it subscribed, frames since
  issued,      \* calls of send()
  pending,     \* sends whose promise is not settled
  trying,      \* the send whose turn it is was refused once and retries
  late,        \* it has been retrying for 30 s
  taken        \* sends the native queue accepted, in order

handlerVars == <<listeners, closers, unused, micro, told, since, got>>
sendVars    == <<issued, pending, trying, late, taken>>
pumpVars    == <<pumping, armed, js, todo>>
callVars    == <<jsClosed, telling, inHandler>>
vars == <<nativeVars, handlerVars, sendVars, pumpVars, callVars>>

Init ==
  /\ NativeInit
  /\ jsClosed = FALSE /\ pumping = FALSE /\ armed = 0
  /\ listeners = {} /\ closers = {} /\ unused = Closers /\ micro = {}
  /\ js = "idle" /\ todo = {} /\ telling = {} /\ inHandler = FALSE
  /\ told = [c \in Closers |-> 0]
  /\ since = [h \in Listeners |-> 0] /\ got = [h \in Listeners |-> <<>>]
  /\ issued = 0 /\ pending = {} /\ trying = FALSE /\ late = FALSE
  /\ taken = <<>>

(* No JavaScript is on the stack: timers and microtasks may run.             *)
Free == js = "idle" /\ telling = {} /\ ~inHandler

(* Application code runs: a task of its own, or a handler.                   *)
AppRuns == entry # "absent" /\ (Free \/ inHandler)

(* Mutant: onClose handlers alone do not keep the pump going.                *)
HasPumpListeners(ls, cs) == ls # {}

HasPumpObservers(ls, cs) == ls # {} \/ cs # {}

(* Mutants: two pumps may run; a handler does not start the pump.            *)
PumpAgain(ls, cs) ==
  IF jsClosed \/ ~HasPumpObservers(ls, cs)
  THEN UNCHANGED <<pumping, js>>
  ELSE pumping' = TRUE /\ js' = "poll"
PumpNot(ls, cs) == UNCHANGED <<pumping, js>>

(* pump(), called synchronously: up to its first await it runs on the        *)
(* caller's stack.                                                           *)
Pump(ls, cs) ==
  IF pumping \/ jsClosed \/ ~HasPumpObservers(ls, cs)
  THEN UNCHANGED <<pumping, js>>
  ELSE pumping' = TRUE /\ js' = "poll"

(* emitClose() up to the loop over the close handlers.                       *)
EmitClose == /\ jsClosed' = TRUE
             /\ telling' = IF jsClosed THEN telling ELSE closers

-----------------------------------------------------------------------------
(* Calls the application makes.                                              *)

(* The native connect has inserted the entry and returned its id.            *)
Connect == /\ Insert
           /\ UNCHANGED <<handlerVars, sendVars, pumpVars, callVars>>

(* Mutant: a listener added by another listener waits for the next frame,    *)
(* although the frame counts as its first.                                   *)
OnMessageSnapshot(h) ==
  /\ AppRuns /\ ~jsClosed /\ h \notin listeners
  /\ listeners' = listeners \cup {h}
  /\ since' = [since EXCEPT ![h] = IF js = "deliver" THEN popped - 1 ELSE popped]
  /\ got' = [got EXCEPT ![h] = <<>>]
  /\ UNCHANGED todo
  /\ Pump(listeners', closers)
  /\ UNCHANGED <<nativeVars, closers, unused, micro, told, sendVars, armed,
                 callVars>>

(* Subscribing in the middle of a delivery includes the frame in hand.       *)
OnMessage(h) ==
  /\ AppRuns /\ ~jsClosed /\ h \notin listeners
  /\ listeners' = listeners \cup {h}
  /\ since' = [since EXCEPT ![h] = IF js = "deliver" THEN popped - 1 ELSE popped]
  /\ got' = [got EXCEPT ![h] = <<>>]
  /\ todo' = IF js = "deliver" THEN todo \cup {h} ELSE todo
  /\ Pump(listeners', closers)
  /\ UNCHANGED <<nativeVars, closers, unused, micro, told, sendVars, armed,
                 callVars>>

OffMessage(h) ==
  /\ AppRuns /\ h \in listeners
  /\ listeners' = listeners \ {h} /\ todo' = todo \ {h}
  /\ UNCHANGED <<nativeVars, closers, unused, micro, told, since, got, sendVars,
                 pumping, armed, js, callVars>>

(* Mutant: a handler is kept although the stream has closed.                 *)
OnCloseUnchecked(c) ==
  /\ AppRuns /\ c \in unused
  /\ unused' = unused \ {c} /\ closers' = closers \cup {c}
  /\ Pump(listeners, closers')
  /\ UNCHANGED <<nativeVars, listeners, micro, told, since, got, sendVars, armed,
                 todo, callVars>>

(* After the close the handler is called once, from a microtask.             *)
OnClose(c) ==
  /\ AppRuns /\ c \in unused
  /\ unused' = unused \ {c}
  /\ IF jsClosed
     THEN micro' = micro \cup {c} /\ UNCHANGED <<closers, pumping, js>>
     ELSE /\ closers' = closers \cup {c} /\ UNCHANGED micro
          /\ Pump(listeners, closers')
  /\ UNCHANGED <<nativeVars, listeners, told, since, got, sendVars, armed, todo,
                 callVars>>

OffClose(c) ==
  /\ AppRuns /\ c \in closers
  /\ closers' = closers \ {c} /\ telling' = telling \ {c}
  /\ UNCHANGED <<nativeVars, listeners, unused, micro, told, since, got, sendVars,
                 pumpVars, jsClosed, inHandler>>

(* stream.close()                                                            *)
Close ==
  /\ AppRuns /\ ~jsClosed
  /\ Release
  /\ EmitClose
  /\ inHandler' = FALSE
  /\ UNCHANGED <<handlerVars, sendVars, pumpVars>>

(* bridge.stop(): the native side drains its connections; no stream object   *)
(* is told.                                                                  *)
StopBridge ==
  /\ AppRuns /\ entry = "present"
  /\ Release
  /\ UNCHANGED <<handlerVars, sendVars, pumpVars, callVars>>

SendCall ==
  /\ AppRuns /\ issued < MaxSends
  /\ issued' = issued + 1 /\ pending' = pending \cup {issued'}
  /\ UNCHANGED <<nativeVars, handlerVars, pumpVars, callVars, trying, late, taken>>

App == \/ Connect \/ Close \/ StopBridge \/ SendCall
       \/ \E h \in Listeners : OnMessage(h) \/ OffMessage(h)
       \/ \E c \in Closers : OnClose(c) \/ OffClose(c)

-----------------------------------------------------------------------------
(* The pump.                                                                 *)

PumpTo(pc) == js' = pc /\ UNCHANGED <<handlerVars, sendVars, pumping>>

(* setTimeout and await: the stack unwinds.                                  *)
Sleep == /\ PumpTo("idle") /\ armed' = armed + 1
         /\ UNCHANGED <<todo, callVars>>

(* The timer fires: the loop's condition, else the finally block.  Its       *)
(* restart of the pump has the same condition and so never runs.             *)
PumpWakes ==
  /\ Free /\ armed > 0
  /\ armed' = armed - 1
  /\ IF ~jsClosed /\ HasPumpObservers(listeners, closers)
     THEN js' = "poll" /\ UNCHANGED pumping
     ELSE pumping' = FALSE /\ UNCHANGED js
  /\ UNCHANGED <<nativeVars, handlerVars, sendVars, todo, callVars>>

(* Mutant: the frame is not removed from the native inbox.                   *)
PumpTakesPeek ==
  /\ js = "poll" /\ listeners # {} /\ entry = "present" /\ popped < arrived
  /\ UNCHANGED nativeVars
  /\ todo' = listeners /\ PumpTo("deliver")
  /\ UNCHANGED <<armed, callVars>>

(* nextMessage(id, 0) returns a frame.                                       *)
PumpTakes ==
  /\ js = "poll" /\ listeners # {} /\ entry = "present"
  /\ Pop
  /\ todo' = listeners /\ PumpTo("deliver")
  /\ UNCHANGED <<armed, callVars>>

(* It returns null, or is not called because nobody listens.                 *)
PumpFindsNone ==
  /\ js = "poll"
  /\ listeners = {} \/ (entry = "present" /\ Inbox = {})
  /\ PumpTo("check")
  /\ UNCHANGED <<nativeVars, armed, todo, callVars>>

(* It throws NotConnected: the catch block.                                  *)
PumpFails ==
  /\ js = "poll" /\ listeners # {} /\ entry # "present"
  /\ Release /\ EmitClose /\ PumpTo("end")
  /\ UNCHANGED <<armed, todo, inHandler>>

Deliver(h) ==
  /\ js = "deliver" /\ ~inHandler /\ telling = {} /\ h \in todo
  /\ got' = [got EXCEPT ![h] = Append(@, popped)]
  /\ todo' = todo \ {h} /\ inHandler' = TRUE
  /\ UNCHANGED <<nativeVars, listeners, closers, unused, micro, told, since,
                 sendVars, pumping, armed, js, jsClosed, telling>>

PumpDelivered ==
  /\ js = "deliver" /\ ~inHandler /\ telling = {} /\ todo = {}
  /\ Sleep /\ UNCHANGED nativeVars

IsStreamOpen == entry = "present" /\ ~closed

PumpStaysOpen == /\ js = "check" /\ IsStreamOpen
                 /\ Sleep /\ UNCHANGED nativeVars

PumpSeesEnd ==
  /\ js = "check" /\ ~IsStreamOpen
  /\ PumpTo("shut")
  /\ UNCHANGED <<nativeVars, armed, todo, callVars>>

(* Mutant: the native entry is kept.                                         *)
PumpShutsLeaking ==
  /\ js = "shut"
  /\ UNCHANGED nativeVars /\ EmitClose /\ PumpTo("end")
  /\ UNCHANGED <<armed, todo, inHandler>>

(* runtime.close and emitClose, in one stretch.                              *)
PumpShuts ==
  /\ js = "shut"
  /\ Release /\ EmitClose /\ PumpTo("end")
  /\ UNCHANGED <<armed, todo, inHandler>>

(* The finally block, once emitClose has called its handlers.                *)
PumpEnds ==
  /\ js = "end" /\ telling = {} /\ ~inHandler
  /\ js' = "idle" /\ pumping' = FALSE
  /\ UNCHANGED <<nativeVars, handlerVars, sendVars, armed, todo, callVars>>

TellClose(c) ==
  /\ c \in telling /\ ~inHandler
  /\ telling' = telling \ {c} /\ told' = [told EXCEPT ![c] = @ + 1]
  /\ inHandler' = TRUE
  /\ UNCHANGED <<nativeVars, listeners, closers, unused, micro, since, got,
                 sendVars, pumpVars, jsClosed>>

HandlerReturns == /\ inHandler /\ inHandler' = FALSE
                  /\ UNCHANGED <<nativeVars, handlerVars, sendVars, pumpVars,
                                 jsClosed, telling>>

(* Promise.resolve().then(handler) of an onClose after the close.            *)
Microtask(c) ==
  /\ Free /\ c \in micro
  /\ micro' = micro \ {c} /\ told' = [told EXCEPT ![c] = @ + 1]
  /\ inHandler' = TRUE
  /\ UNCHANGED <<nativeVars, listeners, closers, unused, since, got, sendVars,
                 pumpVars, jsClosed, telling>>

Js == \/ PumpWakes \/ PumpTakes \/ PumpFindsNone \/ PumpFails
      \/ PumpDelivered \/ PumpStaysOpen \/ PumpSeesEnd \/ PumpShuts \/ PumpEnds
      \/ HandlerReturns
      \/ \E h \in Listeners : Deliver(h)
      \/ \E c \in Closers : TellClose(c)

-----------------------------------------------------------------------------
(* The operation that send() chains on sendTail.                             *)

(* Mutant: sends are not chained.                                            *)
AnyTurn(k) == k \in pending

(* sendTail: k is the first whose promise is not settled.                    *)
Turn(k) == k \in pending /\ \A i \in pending : k <= i

Settle(k) == /\ pending' = pending \ {k} /\ trying' = FALSE /\ late' = FALSE
             /\ UNCHANGED <<nativeVars, handlerVars, pumpVars, callVars, issued>>

SendAccepted(k) ==
  /\ Free /\ Turn(k) /\ IsStreamOpen /\ (trying \/ ~jsClosed)
  /\ taken' = Append(taken, k)
  /\ Settle(k)

(* Rejected: the stream is closed, or the native send throws NotConnected.   *)
SendRejected(k) ==
  /\ Free /\ Turn(k) /\ (~IsStreamOpen \/ (~trying /\ jsClosed))
  /\ UNCHANGED taken
  /\ Settle(k)

(* Rejected on an open stream too: the frame is empty or too long.           *)
SendInvalid(k) ==
  /\ Free /\ Turn(k) /\ IsStreamOpen /\ ~trying /\ ~jsClosed
  /\ UNCHANGED taken
  /\ Settle(k)

(* "send queue is full": wait 5 ms and try again.                            *)
SendBackpressured(k) ==
  /\ Free /\ Turn(k) /\ IsStreamOpen /\ ~trying /\ ~jsClosed
  /\ trying' = TRUE
  /\ UNCHANGED <<nativeVars, handlerVars, pumpVars, callVars, issued, pending,
                 late, taken>>

ThirtySeconds ==
  /\ trying /\ ~late /\ late' = TRUE
  /\ UNCHANGED <<nativeVars, handlerVars, pumpVars, callVars, issued, pending,
                 trying, taken>>

(* Mutant: only a closed stream ends the retries.                            *)
SendGivesUpNever(k) == Free /\ Turn(k) /\ trying /\ jsClosed /\ UNCHANGED taken
                       /\ Settle(k)

(* Full once more, after 30 s.                                               *)
SendGivesUp(k) ==
  /\ Free /\ Turn(k) /\ IsStreamOpen /\ trying /\ late
  /\ UNCHANGED taken
  /\ Settle(k)

Sends == 1..MaxSends

Send == \E k \in Sends : \/ SendAccepted(k) \/ SendRejected(k) \/ SendInvalid(k)
                         \/ SendBackpressured(k) \/ SendGivesUp(k)

Native == NativeTasks /\ UNCHANGED <<handlerVars, sendVars, pumpVars, callVars>>

Next == App \/ Js \/ Send \/ ThirtySeconds \/ Native
        \/ \E c \in Closers : Microtask(c)

(* The event loop goes on with what is on the stack, handlers return, and a  *)
(* microtask or timer that is due again and again whenever the thread is     *)
(* free gets its turn, as queues of both are served in order: SF.  Nothing   *)
(* is assumed of the application, the peer, or room in the send queue.       *)
Fairness ==
  /\ WF_vars(Js) /\ WF_vars(ThirtySeconds)
  /\ SF_vars(\E c \in Closers : Microtask(c))
  /\ SF_vars(\E k \in Sends : SendRejected(k) \/ SendGivesUp(k))
  /\ SF_vars(\E k \in Sends : SendBackpressured(k))

Spec == Init /\ [][Next]_vars /\ Fairness

-----------------------------------------------------------------------------
(* Every variable has its type.                                              *)
TypeOK ==
  /\ entry \in {"absent", "present", "removed"}
  /\ closed \in BOOLEAN /\ reading \in BOOLEAN
  /\ arrived \in 0..MaxPeerFrames /\ popped \in 0..arrived
  /\ jsClosed \in BOOLEAN /\ pumping \in BOOLEAN /\ armed \in Nat
  /\ listeners \subseteq Listeners /\ todo \subseteq Listeners
  /\ closers \subseteq Closers /\ telling \subseteq Closers
  /\ unused \subseteq Closers /\ micro \subseteq Closers
  /\ js \in {"idle", "poll", "deliver", "check", "shut", "end"}
  /\ inHandler \in BOOLEAN
  /\ told \in [Closers -> Nat]
  /\ since \in [Listeners -> Nat] /\ got \in [Listeners -> Seq(Nat)]
  /\ issued \in 0..MaxSends /\ pending \subseteq Sends
  /\ trying \in BOOLEAN /\ late \in BOOLEAN /\ taken \in Seq(Sends)

(* Never two receive loops on one stream, which would split its frames       *)
(* between them, and never none while an open stream has an observer, which  *)
(* would leave it deaf, whatever handlers subscribe and unsubscribe when.    *)
OnePump ==
  /\ armed <= 1 /\ (js # "idle" => armed = 0)
  /\ Free /\ ~jsClosed /\ HasPumpObservers(listeners, closers) => armed = 1

(* "Multiple listeners on the same stream each receive every frame"          *)
(* (react-native/README.md:261): a subscribed listener has been handed, once *)
(* and in order, every frame popped since it subscribed, except the one of a *)
(* delivery that has still to reach it; handlers that subscribe, unsubscribe *)
(* or close the stream in the middle of a delivery change nothing in that.   *)
EveryListenerEveryFrame ==
  \A h \in listeners :
    /\ Len(got[h]) = popped - since[h] - (IF h \in todo THEN 1 ELSE 0)
    /\ \A i \in 1..Len(got[h]) : got[h][i] = since[h] + i

(* onClose "Fires once when the stream closes" (react-native/README.md:267): *)
(* never before, never twice, and never left out once emitClose is done.     *)
ToldOnce ==
  \A c \in Closers :
    /\ told[c] <= IF jsClosed THEN 1 ELSE 0
    /\ jsClosed /\ c \in closers => told[c] = 1 \/ c \in telling

(* A stream object that says it is closed no longer holds a native entry.    *)
ClosedIsReleased == jsClosed => entry = "removed"

(* "Sends on one stream are serialized (ordered)" (react-native/README.md:   *)
(* 252): whatever fails or retries, the native queue is given them in order. *)
SendsInOrder == \A i, j \in 1..Len(taken) : i < j => taken[i] < taken[j]

(* The thread comes free again and again.  A listener that unsubscribes and  *)
(* subscribes itself in its own call is visited again at once, so one that   *)
(* always does hangs the thread in the delivery: the liveness properties     *)
(* assume that the application has no such listener.                         *)
NoEndlessDelivery == []<>Free

(* A stream that ends, at either side or by bridge.stop(), is reported to    *)
(* every onClose handler that stays registered, with or without listeners.   *)
CloseIsTold ==
  NoEndlessDelivery => \A c \in Closers :
    closed /\ c \in closers ~> told[c] = 1 \/ c \notin closers

(* A frame in the inbox is handed over while somebody listens, unless the    *)
(* stream closes.                                                            *)
ArrivedIsTaken ==
  NoEndlessDelivery => \A k \in 1..MaxPeerFrames : \A h \in Listeners :
    arrived >= k /\ h \in listeners ~> popped >= k \/ h \notin listeners \/ closed

(* Every promise of send() settles: accepted, or rejected because of a       *)
(* closed stream or of 30 s of backpressure.                                 *)
SendsSettle == NoEndlessDelivery => \A k \in Sends : k \in pending ~> k \notin pending

(* "Multiple listeners on the same stream each receive every frame": what    *)
(* the peer sent before it ended the stream has all been handed over when    *)
(* the pump, not the application, closes a stream somebody listens to.       *)
PumpClosesDrained == [][PumpShuts /\ listeners # {} => Inbox = {}]_vars
=============================================================================

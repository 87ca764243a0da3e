---------------------------- MODULE JsStreamProofs ----------------------------
(* Theorems about JsStream: however the application's handlers, the pump,    *)
(* the sends and the native tasks interleave, one pump at most runs and a    *)
(* stream with observers has one, every listener gets every frame, onClose   *)
(* fires once, a closed stream holds no native entry, and sends keep order.  *)
EXTENDS JsStream, TLAPS

(* Before the native connect returns, the stream object does not exist.      *)
BeforeConnect ==
  entry = "absent" =>
    /\ js = "idle" /\ armed = 0 /\ ~pumping /\ ~jsClosed /\ ~inHandler
    /\ listeners = {} /\ closers = {} /\ telling = {} /\ micro = {}

(* The flag is set exactly while a pump is on the stack or waits for its     *)
(* timer; the parts of the pump that look at the native stream run before    *)
(* the close and with no handler on the stack.                               *)
PumpState ==
  /\ armed \in {0, 1}
  /\ js # "idle" => armed = 0
  /\ pumping <=> js # "idle" \/ armed = 1
  /\ ~jsClosed /\ HasPumpObservers(listeners, closers) => pumping
  /\ js \in {"poll", "check", "shut"} => ~jsClosed /\ ~inHandler
  /\ js = "end" => jsClosed
  /\ inHandler /\ js = "idle" => jsClosed

(* Only a delivery in progress owes a listener a frame.                      *)
FrameState ==
  /\ todo \subseteq listeners
  /\ todo # {} => js = "deliver"
  /\ js = "deliver" => popped >= 1
  /\ \A h \in Listeners : since[h] <= popped
  /\ EveryListenerEveryFrame

(* A close handler is unused, registered or scheduled, and is called only    *)
(* after the close.                                                          *)
CloseState ==
  /\ telling \subseteq closers
  /\ telling # {} \/ micro # {} => jsClosed
  /\ \A c \in Closers :
       /\ told[c] \in {0, 1}
       /\ ~jsClosed \/ c \in unused \cup micro \cup telling => told[c] = 0
       /\ c \in unused => c \notin closers \cup micro
       /\ c \in micro => c \notin closers
       /\ jsClosed /\ c \in closers => told[c] = 1 \/ c \in telling

(* Whatever the native queue has taken came before every pending send.       *)
SendState ==
  /\ pending \subseteq 1..issued
  /\ \A i \in 1..Len(taken) : /\ taken[i] <= issued
                              /\ \A k \in pending : taken[i] < k
  /\ SendsInOrder

IInv == /\ TypeOK /\ BeforeConnect /\ ClosedIsReleased
        /\ PumpState /\ FrameState /\ CloseState /\ SendState

(* TypeOK by sort: flags, and the rest.                                      *)
FlagTypes ==
  /\ closed \in BOOLEAN /\ reading \in BOOLEAN /\ jsClosed \in BOOLEAN
  /\ pumping \in BOOLEAN /\ inHandler \in BOOLEAN
  /\ trying \in BOOLEAN /\ late \in BOOLEAN

DataTypes ==
  /\ entry \in {"absent", "present", "removed"}
  /\ arrived \in 0..MaxPeerFrames /\ popped \in 0..arrived /\ armed \in Nat
  /\ listeners \subseteq Listeners /\ todo \subseteq Listeners
  /\ closers \subseteq Closers /\ telling \subseteq Closers
  /\ unused \subseteq Closers /\ micro \subseteq Closers
  /\ js \in {"idle", "poll", "deliver", "check", "shut", "end"}
  /\ told \in [Closers -> Nat]
  /\ since \in [Listeners -> Nat] /\ got \in [Listeners -> Seq(Nat)]
  /\ issued \in 0..MaxSends /\ pending \subseteq Sends /\ taken \in Seq(Sends)

-----------------------------------------------------------------------------

(* The two halves make the type invariant.                                   *)
LEMMA TypeHalves == /\ TypeOK <=> FlagTypes /\ DataTypes
                    /\ TypeOK' <=> (FlagTypes /\ DataTypes)'
  BY DEF TypeOK, FlagTypes, DataTypes

(* The inductive invariant holds before anything has happened.               *)
LEMMA InitInv == Init => IInv
<1> SUFFICES ASSUME Init PROVE IInv
  OBVIOUS
<1> USE BoundsAssumption DEF Init, NativeInit
<1>1. TypeOK
  <2>1. FlagTypes
    BY DEF FlagTypes
  <2>2. DataTypes
    BY DEF DataTypes, Sends
  <2> QED
    BY <2>1, <2>2, TypeHalves
<1>2. BeforeConnect /\ ClosedIsReleased
  BY DEF BeforeConnect, ClosedIsReleased
<1>3. PumpState
  BY DEF PumpState, HasPumpObservers
<1>4. FrameState
  BY DEF FrameState, EveryListenerEveryFrame
<1>5. CloseState
  BY DEF CloseState
<1>6. SendState
  BY DEF SendState, SendsInOrder
<1> QED
  BY <1>1, <1>2, <1>3, <1>4, <1>5, <1>6 DEF IInv

(* Every step keeps the types; a listener added by a delivery counts the     *)
(* frame in hand, so the delivery must have popped one.                      *)
LEMMA TypeStep == IInv /\ [Next]_vars => TypeOK'
<1> SUFFICES ASSUME IInv, [Next]_vars PROVE TypeOK'
  OBVIOUS
<1> USE BoundsAssumption
<1>t. TypeOK /\ FlagTypes /\ DataTypes
  BY TypeHalves DEF IInv
<1>1. CASE Connect
  BY <1>t, <1>1 DEF TypeOK, Connect, Insert, handlerVars, sendVars, pumpVars,
    callVars
<1>2. CASE Close
  BY <1>t, <1>2 DEF TypeOK, Close, Release, EmitClose, nativeVars,
    handlerVars, sendVars, pumpVars
<1>3. CASE StopBridge
  BY <1>t, <1>3 DEF TypeOK, StopBridge, Release, nativeVars, handlerVars,
    sendVars, pumpVars, callVars
<1>4. CASE SendCall
  BY <1>t, <1>4 DEF TypeOK, SendCall, nativeVars, handlerVars, pumpVars,
    callVars, Sends
<1>5. ASSUME NEW h \in Listeners, OnMessage(h) PROVE TypeOK'
  <2>1. FlagTypes'
    BY <1>5, <1>t DEF FlagTypes, OnMessage, Pump, nativeVars, sendVars, callVars
  <2>3. since' \in [Listeners -> Nat] /\ got' \in [Listeners -> Seq(Nat)]
    BY <1>5, <1>t DEF DataTypes, OnMessage, IInv, FrameState
  <2>2. DataTypes'
    BY <1>5, <1>t, <2>3 DEF DataTypes, OnMessage, Pump, nativeVars, sendVars,
      callVars
  <2> QED
    BY <2>1, <2>2, TypeHalves
<1>6. ASSUME NEW h \in Listeners, OffMessage(h) PROVE TypeOK'
  BY <1>t, <1>6 DEF TypeOK, OffMessage, nativeVars, sendVars, callVars
<1>7. ASSUME NEW c \in Closers, OnClose(c) PROVE TypeOK'
  <2>1. FlagTypes'
    BY <1>7, <1>t DEF FlagTypes, OnClose, Pump, nativeVars, sendVars, callVars
  <2>2. DataTypes'
    BY <1>7, <1>t DEF DataTypes, OnClose, Pump, nativeVars, sendVars, callVars
  <2> QED
    BY <2>1, <2>2, TypeHalves
<1>8. ASSUME NEW c \in Closers, OffClose(c) PROVE TypeOK'
  BY <1>t, <1>8 DEF TypeOK, OffClose, nativeVars, sendVars, pumpVars
<1>9. CASE PumpWakes
  <2>1. FlagTypes'
    BY <1>9, <1>t DEF FlagTypes, PumpWakes, nativeVars, handlerVars, sendVars,
      callVars
  <2>2. DataTypes'
    BY <1>9, <1>t DEF DataTypes, PumpWakes, nativeVars, handlerVars, sendVars,
      callVars
  <2> QED
    BY <2>1, <2>2, TypeHalves
<1>10. CASE PumpTakes
  BY <1>t, <1>10 DEF TypeOK, PumpTakes, Pop, PumpTo, handlerVars, sendVars,
    callVars
<1>11. CASE PumpFindsNone
  BY <1>t, <1>11 DEF TypeOK, PumpFindsNone, PumpTo, nativeVars, handlerVars,
    sendVars, callVars
<1>12. CASE PumpFails \/ PumpShuts
  BY <1>t, <1>12 DEF TypeOK, PumpFails, PumpShuts, Release, EmitClose, PumpTo,
    nativeVars, handlerVars, sendVars
<1>13. CASE PumpDelivered \/ PumpStaysOpen
  BY <1>t, <1>13 DEF TypeOK, PumpDelivered, PumpStaysOpen, Sleep, PumpTo,
    nativeVars, handlerVars, sendVars, callVars
<1>14. CASE PumpSeesEnd
  BY <1>t, <1>14 DEF TypeOK, PumpSeesEnd, PumpTo, nativeVars, handlerVars,
    sendVars, callVars
<1>15. CASE PumpEnds
  BY <1>t, <1>15 DEF TypeOK, PumpEnds, nativeVars, handlerVars, sendVars,
    callVars
<1>16. CASE HandlerReturns
  BY <1>t, <1>16 DEF TypeOK, HandlerReturns, nativeVars, handlerVars,
    sendVars, pumpVars
<1>17. ASSUME NEW h \in Listeners, Deliver(h) PROVE TypeOK'
  BY <1>t, <1>17 DEF TypeOK, Deliver, nativeVars, sendVars
<1>18. ASSUME NEW c \in Closers, TellClose(c) \/ Microtask(c) PROVE TypeOK'
  <2>1. FlagTypes'
    BY <1>18, <1>t DEF FlagTypes, TellClose, Microtask, nativeVars, sendVars,
      pumpVars
  <2>4. told' = [told EXCEPT ![c] = told[c] + 1] /\ told[c] \in Nat
    BY <1>18, <1>t DEF DataTypes, TellClose, Microtask
  <2>3. told' \in [Closers -> Nat]
    BY <1>t, <2>4 DEF DataTypes
  <2>2. DataTypes'
    BY <1>18, <1>t, <2>3 DEF DataTypes, TellClose, Microtask, nativeVars,
      sendVars, pumpVars
  <2> QED
    BY <2>1, <2>2, TypeHalves
<1>19. ASSUME NEW k \in Sends, SendAccepted(k) PROVE TypeOK'
  <2>1. FlagTypes'
    BY <1>19, <1>t DEF FlagTypes, SendAccepted, Settle, nativeVars, handlerVars,
      pumpVars, callVars
  <2>2. DataTypes'
    BY <1>19, <1>t DEF DataTypes, SendAccepted, Settle, nativeVars, handlerVars,
      pumpVars, callVars
  <2> QED
    BY <2>1, <2>2, TypeHalves
<1>20. ASSUME NEW k \in Sends,
             \/ SendRejected(k) \/ SendInvalid(k)
             \/ SendGivesUp(k) \/ SendBackpressured(k)
      PROVE  TypeOK'
  <2>1. FlagTypes'
    BY <1>20, <1>t DEF FlagTypes, SendRejected, SendInvalid, SendGivesUp,
      SendBackpressured, Settle, nativeVars, handlerVars, pumpVars, callVars
  <2>2. DataTypes'
    BY <1>20, <1>t DEF DataTypes, SendRejected, SendInvalid, SendGivesUp,
      SendBackpressured, Settle, nativeVars, handlerVars, pumpVars, callVars
  <2> QED
    BY <2>1, <2>2, TypeHalves
<1>21. CASE ThirtySeconds
  BY <1>t, <1>21 DEF TypeOK, ThirtySeconds, nativeVars, handlerVars, pumpVars,
    callVars
<1>22. CASE Native
  <2>1. FlagTypes'
    BY <1>22, <1>t DEF FlagTypes, Native, NativeTasks, Arrive, ReaderEnds,
      WriterEnds, handlerVars, sendVars, pumpVars, callVars
  <2>2. DataTypes'
    BY <1>22, <1>t DEF DataTypes, Native, NativeTasks, Arrive, ReaderEnds,
      WriterEnds, handlerVars, sendVars, pumpVars, callVars
  <2> QED
    BY <2>1, <2>2, TypeHalves
<1>23. CASE UNCHANGED vars
  BY <1>t, <1>23 DEF TypeOK, vars, nativeVars, handlerVars, sendVars,
    pumpVars, callVars
<1> QED
  BY <1>1, <1>2, <1>3, <1>4, <1>5, <1>6, <1>7, <1>8, <1>9, <1>10, <1>11,
    <1>12, <1>13, <1>14, <1>15, <1>16, <1>17, <1>18, <1>19, <1>20, <1>21,
    <1>22, <1>23 DEF Next, App, Js, Send

(* No call can come before the native connect has returned.                 *)
LEMMA BeforeStep == IInv /\ [Next]_vars => BeforeConnect'
<1> SUFFICES ASSUME IInv, [Next]_vars PROVE BeforeConnect'
  OBVIOUS
<1>i. TypeOK /\ BeforeConnect
  BY DEF IInv
<1>1. CASE Connect \/ Close \/ StopBridge \/ SendCall
  BY <1>i, <1>1 DEF BeforeConnect, AppRuns, Connect, Insert, Close, Release,
    EmitClose, StopBridge, SendCall, handlerVars, sendVars, pumpVars,
    callVars, nativeVars
<1>2. ASSUME NEW h \in Listeners, OnMessage(h) \/ OffMessage(h)
      PROVE  BeforeConnect'
  BY <1>i, <1>2 DEF BeforeConnect, AppRuns, OnMessage, Pump, OffMessage,
    nativeVars, sendVars, callVars
<1>3. ASSUME NEW c \in Closers, OnClose(c) \/ OffClose(c) PROVE BeforeConnect'
  BY <1>i, <1>3 DEF BeforeConnect, AppRuns, OnClose, Pump, OffClose,
    nativeVars, sendVars, callVars, pumpVars
<1>4. CASE PumpWakes \/ PumpTakes \/ PumpFindsNone \/ PumpFails
  BY <1>i, <1>4 DEF BeforeConnect, PumpWakes, PumpTakes, Pop, PumpTo,
    PumpFindsNone, PumpFails, Release, EmitClose, nativeVars, handlerVars,
    sendVars, callVars
<1>5. CASE PumpDelivered \/ PumpStaysOpen \/ PumpSeesEnd \/ PumpShuts \/
          PumpEnds
  BY <1>i, <1>5 DEF BeforeConnect, PumpDelivered, Sleep, PumpTo,
    PumpStaysOpen, PumpSeesEnd, PumpShuts, Release, EmitClose, PumpEnds,
    nativeVars, handlerVars, sendVars, callVars
<1>6. CASE HandlerReturns \/ (\E c \in Closers : TellClose(c) \/ Microtask(c))
          \/ (\E h \in Listeners : Deliver(h))
  BY <1>i, <1>6 DEF BeforeConnect, HandlerReturns, Deliver, TellClose,
    Microtask, nativeVars, handlerVars, sendVars, pumpVars
<1>7. CASE ThirtySeconds \/ (\E k \in Sends : SendAccepted(k) \/
          SendRejected(k) \/ SendInvalid(k) \/ SendGivesUp(k) \/
          SendBackpressured(k))
  BY <1>i, <1>7 DEF BeforeConnect, SendAccepted, Settle, SendRejected,
    SendInvalid, SendGivesUp, SendBackpressured, ThirtySeconds, nativeVars, handlerVars,
    pumpVars, callVars
<1>8. CASE Native \/ UNCHANGED vars
  BY <1>i, <1>8 DEF BeforeConnect, Native, NativeTasks, Arrive, ReaderEnds,
    WriterEnds, handlerVars, sendVars, pumpVars, callVars, vars, nativeVars
<1> QED
  BY <1>1, <1>2, <1>3, <1>4, <1>5, <1>6, <1>7, <1>8 DEF Next, App, Js, Send

(* Whoever marks the stream closed has released the native entry before.     *)
LEMMA ReleasedStep == IInv /\ [Next]_vars => ClosedIsReleased'
<1> SUFFICES ASSUME IInv, [Next]_vars PROVE ClosedIsReleased'
  OBVIOUS
<1>i. TypeOK /\ BeforeConnect /\ ClosedIsReleased
  BY DEF IInv
<1>1. CASE Close \/ PumpFails \/ PumpShuts
  BY <1>i, <1>1 DEF ClosedIsReleased, AppRuns, BeforeConnect, TypeOK, Close,
    Release, EmitClose, PumpFails, PumpTo, PumpShuts, nativeVars, handlerVars,
    sendVars, pumpVars
<1>2. CASE Connect \/ StopBridge
  BY <1>i, <1>2 DEF ClosedIsReleased, BeforeConnect, Connect, Insert,
    StopBridge, Release, handlerVars, sendVars, pumpVars, callVars, nativeVars
<1>3. CASE SendCall \/ (\E h \in Listeners : OnMessage(h) \/ OffMessage(h))
  BY <1>i, <1>3 DEF ClosedIsReleased, SendCall, OnMessage, Pump, OffMessage,
    nativeVars, handlerVars, pumpVars, callVars, sendVars
<1>4. ASSUME NEW c \in Closers, OnClose(c) \/ OffClose(c)
      PROVE  ClosedIsReleased'
  BY <1>i, <1>4 DEF ClosedIsReleased, OnClose, Pump, OffClose, nativeVars,
    sendVars, callVars, pumpVars
<1>5. CASE PumpWakes \/ PumpTakes \/ PumpFindsNone
  BY <1>i, <1>5 DEF ClosedIsReleased, PumpWakes, PumpTakes, Pop, PumpTo,
    PumpFindsNone, nativeVars, handlerVars, sendVars, callVars
<1>6. CASE PumpDelivered \/ PumpStaysOpen \/ PumpSeesEnd \/ PumpEnds
  BY <1>i, <1>6 DEF ClosedIsReleased, PumpDelivered, Sleep, PumpTo,
    PumpStaysOpen, PumpSeesEnd, PumpEnds, nativeVars, handlerVars, sendVars,
    callVars
<1>7. CASE HandlerReturns \/ (\E c \in Closers : TellClose(c) \/ Microtask(c))
          \/ (\E h \in Listeners : Deliver(h))
  BY <1>i, <1>7 DEF ClosedIsReleased, HandlerReturns, Deliver, TellClose,
    Microtask, nativeVars, handlerVars, sendVars, pumpVars
<1>8. CASE ThirtySeconds \/ (\E k \in Sends : SendAccepted(k) \/
          SendRejected(k) \/ SendInvalid(k) \/ SendGivesUp(k) \/
          SendBackpressured(k))
  BY <1>i, <1>8 DEF ClosedIsReleased, SendAccepted, Settle, SendRejected,
    SendInvalid, SendGivesUp, SendBackpressured, ThirtySeconds, nativeVars, handlerVars,
    pumpVars, callVars
<1>9. CASE Native \/ UNCHANGED vars
  BY <1>i, <1>9 DEF ClosedIsReleased, Native, NativeTasks, Arrive, ReaderEnds,
    WriterEnds, handlerVars, sendVars, pumpVars, callVars, vars, nativeVars
<1> QED
  BY <1>1, <1>2, <1>3, <1>4, <1>5, <1>6, <1>7, <1>8, <1>9 DEF Next, App, Js,
    Send

(* Every place that starts a pump looks at the flag first, and the loop      *)
(* keeps it set until it has returned.                                       *)
LEMMA PumpStep == IInv /\ [Next]_vars => PumpState'
<1> SUFFICES ASSUME IInv, [Next]_vars PROVE PumpState'
  OBVIOUS
<1>i. TypeOK /\ PumpState /\ CloseState
  BY DEF IInv
<1> USE DEF HasPumpObservers
<1>1. CASE Connect \/ StopBridge
  BY <1>i, <1>1 DEF PumpState, Connect, Insert, StopBridge, Release,
    handlerVars, sendVars, pumpVars, callVars, nativeVars
<1>2. CASE Close
  BY <1>i, <1>2 DEF PumpState, AppRuns, Free, Close, Release, EmitClose,
    nativeVars, handlerVars, sendVars, pumpVars
<1>3. CASE SendCall
  BY <1>i, <1>3 DEF PumpState, SendCall, nativeVars, handlerVars, pumpVars,
    callVars
<1>4. ASSUME NEW h \in Listeners, OnMessage(h) PROVE PumpState'
  BY <1>i, <1>4 DEF PumpState, AppRuns, Free, OnMessage, Pump, nativeVars,
    sendVars, callVars
<1>5. ASSUME NEW h \in Listeners, OffMessage(h) PROVE PumpState'
  BY <1>i, <1>5 DEF PumpState, OffMessage, nativeVars, sendVars, callVars
<1>6. ASSUME NEW c \in Closers, OnClose(c) PROVE PumpState'
  BY <1>i, <1>6 DEF PumpState, AppRuns, Free, OnClose, Pump, nativeVars,
    sendVars, callVars
<1>7. ASSUME NEW c \in Closers, OffClose(c) PROVE PumpState'
  BY <1>i, <1>7 DEF PumpState, OffClose, nativeVars, sendVars, pumpVars
<1>8. CASE PumpWakes
  BY <1>i, <1>8 DEF PumpState, Free, PumpWakes, nativeVars, handlerVars,
    sendVars, callVars
<1>9. CASE PumpTakes
  BY <1>i, <1>9 DEF PumpState, PumpTakes, Pop, PumpTo, handlerVars, sendVars,
    callVars
<1>10. CASE PumpFindsNone
  BY <1>i, <1>10 DEF PumpState, PumpFindsNone, PumpTo, nativeVars,
    handlerVars, sendVars, callVars
<1>11. CASE PumpFails
  BY <1>i, <1>11 DEF PumpState, PumpFails, Release, EmitClose, PumpTo,
    nativeVars, handlerVars, sendVars
<1>12. CASE PumpDelivered \/ PumpStaysOpen
  BY <1>i, <1>12 DEF PumpState, PumpDelivered, Sleep, PumpTo, PumpStaysOpen,
    nativeVars, handlerVars, sendVars, callVars
<1>13. CASE PumpSeesEnd
  BY <1>i, <1>13 DEF PumpState, PumpSeesEnd, PumpTo, nativeVars, handlerVars,
    sendVars, callVars
<1>14. CASE PumpShuts
  BY <1>i, <1>14 DEF PumpState, PumpShuts, Release, EmitClose, PumpTo,
    nativeVars, handlerVars, sendVars
<1>15. CASE PumpEnds
  BY <1>i, <1>15 DEF PumpState, PumpEnds, nativeVars, handlerVars, sendVars,
    callVars
<1>16. CASE HandlerReturns \/ (\E h \in Listeners : Deliver(h))
  BY <1>i, <1>16 DEF PumpState, HandlerReturns, Deliver, nativeVars,
    handlerVars, sendVars, pumpVars
<1>17. ASSUME NEW c \in Closers, TellClose(c) \/ Microtask(c) PROVE PumpState'
  BY <1>i, <1>17 DEF PumpState, CloseState, TellClose, Microtask, nativeVars,
    sendVars, pumpVars
<1>18. CASE ThirtySeconds \/ (\E k \in Sends : SendAccepted(k) \/
          SendRejected(k) \/ SendInvalid(k) \/ SendGivesUp(k) \/
          SendBackpressured(k))
  BY <1>i, <1>18 DEF PumpState, SendAccepted, Settle, SendRejected,
    SendInvalid, SendGivesUp, SendBackpressured, ThirtySeconds, nativeVars, handlerVars,
    pumpVars, callVars
<1>19. CASE Native \/ UNCHANGED vars
  BY <1>i, <1>19 DEF PumpState, Native, NativeTasks, Arrive, ReaderEnds,
    WriterEnds, handlerVars, sendVars, pumpVars, callVars, vars, nativeVars
<1> QED
  BY <1>1, <1>2, <1>3, <1>4, <1>5, <1>6, <1>7, <1>8, <1>9, <1>10, <1>11,
    <1>12, <1>13, <1>14, <1>15, <1>16, <1>17, <1>18, <1>19 DEF Next, App, Js,
    Send

(* A delivery owes the frame in hand to the listeners it has still to visit; *)
(* whoever joins is visited or starts after the frame.                       *)
LEMMA FrameStep == IInv /\ [Next]_vars => FrameState'
<1> SUFFICES ASSUME IInv, [Next]_vars PROVE FrameState'
  OBVIOUS
<1>i. TypeOK /\ PumpState /\ FrameState
  BY DEF IInv
<1> USE DEF EveryListenerEveryFrame
<1>1. CASE Connect \/ Close \/ StopBridge \/ SendCall
  BY <1>i, <1>1 DEF FrameState, Connect, Insert, Close, Release, EmitClose,
    StopBridge, SendCall, handlerVars, sendVars, pumpVars, callVars,
    nativeVars
<1>2. ASSUME NEW h \in Listeners, OnMessage(h) PROVE FrameState'
  <2>1. /\ listeners' = listeners \cup {h} /\ h \notin listeners
        /\ popped' = popped /\ todo' = IF js = "deliver" THEN todo \cup {h} ELSE todo
        /\ since' = [since EXCEPT ![h] = IF js = "deliver" THEN popped - 1 ELSE popped]
        /\ got' = [got EXCEPT ![h] = <<>>]
    BY <1>2 DEF OnMessage, nativeVars
  <2>2. js' = js \/ (js = "idle" /\ js' = "poll")
    BY <1>i, <1>2 DEF PumpState, OnMessage, Pump
  <2>3. /\ todo' \subseteq listeners' /\ (todo' # {} => js' = "deliver")
        /\ (js' = "deliver" => popped' >= 1)
    BY <1>i, <2>1, <2>2 DEF FrameState
  <2>4. ASSUME NEW g \in Listeners PROVE since'[g] <= popped'
    BY <1>i, <2>1 DEF FrameState, TypeOK
  <2>5. ASSUME NEW g \in listeners'
        PROVE  /\ Len(got'[g]) = popped' - since'[g] - (IF g \in todo' THEN 1 ELSE 0)
               /\ \A i \in 1..Len(got'[g]) : got'[g][i] = since'[g] + i
    <3>1. CASE g = h
      <4>1. /\ got'[h] = <<>> /\ h \notin todo
            /\ since'[h] = IF js = "deliver" THEN popped - 1 ELSE popped
        BY <1>i, <2>1 DEF FrameState, TypeOK
      <4>2. popped \in Nat /\ (js = "deliver" => popped >= 1)
        BY <1>i DEF FrameState, TypeOK
      <4> QED
        BY <2>1, <3>1, <4>1, <4>2
    <3>2. CASE g # h
      <4>1. /\ g \in listeners /\ g \in Listeners
            /\ got'[g] = got[g] /\ since'[g] = since[g]
            /\ (g \in todo' <=> g \in todo)
        BY <1>i, <2>1, <3>2 DEF TypeOK
      <4> QED
        BY <1>i, <2>1, <4>1 DEF FrameState
    <3> QED
      BY <3>1, <3>2
  <2> QED
    BY <2>3, <2>4, <2>5 DEF FrameState
<1>3. ASSUME NEW h \in Listeners, OffMessage(h) PROVE FrameState'
  BY <1>i, <1>3 DEF FrameState, TypeOK, OffMessage, nativeVars, sendVars,
    callVars
<1>4. ASSUME NEW c \in Closers, OnClose(c) PROVE FrameState'
  BY <1>i, <1>4 DEF FrameState, PumpState, OnClose, Pump, nativeVars,
    sendVars, callVars
<1>5. ASSUME NEW c \in Closers, OffClose(c) PROVE FrameState'
  BY <1>i, <1>5 DEF FrameState, OffClose, nativeVars, sendVars, pumpVars
<1>6. CASE PumpWakes \/ PumpFindsNone
  BY <1>i, <1>6 DEF FrameState, Free, PumpWakes, PumpFindsNone, PumpTo,
    nativeVars, handlerVars, sendVars, callVars
<1>7. CASE PumpTakes
  BY <1>i, <1>7 DEF FrameState, TypeOK, PumpTakes, Pop, PumpTo, handlerVars,
    sendVars, callVars
<1>8. CASE PumpFails \/ PumpShuts
  BY <1>i, <1>8 DEF FrameState, PumpFails, Release, EmitClose, PumpTo,
    PumpShuts, nativeVars, handlerVars, sendVars
<1>9. CASE PumpDelivered \/ PumpStaysOpen \/ PumpSeesEnd \/ PumpEnds
  BY <1>i, <1>9 DEF FrameState, PumpDelivered, Sleep, PumpTo, PumpStaysOpen,
    PumpSeesEnd, PumpEnds, nativeVars, handlerVars, sendVars, callVars
<1>10. ASSUME NEW h \in Listeners, Deliver(h) PROVE FrameState'
  <2>1. /\ js = "deliver" /\ js' = js /\ h \in todo /\ todo' = todo \ {h}
        /\ popped' = popped /\ since' = since /\ listeners' = listeners
        /\ got' = [got EXCEPT ![h] = Append(got[h], popped)]
    BY <1>10 DEF Deliver, nativeVars
  <2>2. ASSUME NEW g \in listeners
        PROVE  /\ Len(got'[g]) = popped - since[g] - (IF g \in todo' THEN 1 ELSE 0)
               /\ \A i \in 1..Len(got'[g]) : got'[g][i] = since[g] + i
    <3>1. /\ g \in Listeners /\ got[g] \in Seq(Nat) /\ since[g] \in Nat
          /\ popped \in Nat
          /\ Len(got[g]) = popped - since[g] - (IF g \in todo THEN 1 ELSE 0)
          /\ \A i \in 1..Len(got[g]) : got[g][i] = since[g] + i
      BY <1>i DEF FrameState, TypeOK
    <3>2. CASE g = h
      <4>1. got'[g] = Append(got[g], popped)
        BY <1>i, <2>1, <3>1, <3>2 DEF TypeOK
      <4>2. Len(got[g]) + 1 = popped - since[g]
        BY <2>1, <3>1, <3>2
      <4>3. g \notin todo'
        BY <2>1, <3>2
      <4>4. /\ Len(got'[g]) = Len(got[g]) + 1
            /\ got'[g][Len(got[g]) + 1] = popped
            /\ \A i \in 1..Len(got[g]) : got'[g][i] = got[g][i]
        BY <3>1, <4>1
      <4>5. ASSUME NEW i \in 1..Len(got'[g]) PROVE got'[g][i] = since[g] + i
        <5>1. Len(got[g]) \in Nat
          BY <3>1
        <5>2. i \in 1..Len(got[g]) \/ i = Len(got[g]) + 1
          BY <4>4, <5>1
        <5>3. i = Len(got[g]) + 1 => since[g] + i = popped
          BY <3>1, <4>2, <5>1
        <5> QED
          BY <3>1, <4>4, <5>2, <5>3
      <4>6. Len(got'[g]) = popped - since[g]
        BY <4>2, <4>4
      <4>7. popped - since[g] - 0 = popped - since[g]
        BY <3>1
      <4> QED
        BY <4>3, <4>5, <4>6, <4>7
    <3>3. CASE g # h
      <4>1. got'[g] = got[g] /\ (g \in todo' <=> g \in todo)
        BY <1>i, <2>1, <3>1, <3>3 DEF TypeOK
      <4> QED
        BY <3>1, <4>1
    <3> QED
      BY <3>2, <3>3
  <2> QED
    BY <1>i, <2>1, <2>2 DEF FrameState, TypeOK
<1>11. CASE HandlerReturns \/ (\E c \in Closers : TellClose(c) \/
          Microtask(c))
  BY <1>i, <1>11 DEF FrameState, HandlerReturns, TellClose, Microtask,
    nativeVars, handlerVars, sendVars, pumpVars
<1>12. CASE ThirtySeconds \/ (\E k \in Sends : SendAccepted(k) \/
          SendRejected(k) \/ SendInvalid(k) \/ SendGivesUp(k) \/
          SendBackpressured(k))
  BY <1>i, <1>12 DEF FrameState, SendAccepted, Settle, SendRejected,
    SendInvalid, SendGivesUp, SendBackpressured, ThirtySeconds, nativeVars, handlerVars,
    pumpVars, callVars
<1>13. CASE Native \/ UNCHANGED vars
  BY <1>i, <1>13 DEF FrameState, Native, NativeTasks, Arrive, ReaderEnds,
    WriterEnds, handlerVars, sendVars, pumpVars, callVars, vars, nativeVars
<1> QED
  BY <1>1, <1>2, <1>3, <1>4, <1>5, <1>6, <1>7, <1>8, <1>9, <1>10, <1>11,
    <1>12, <1>13 DEF Next, App, Js, Send

(* emitClose and the microtask call each handler once, and only when the     *)
(* stream has closed.                                                        *)
LEMMA CloseStep == IInv /\ [Next]_vars => CloseState'
<1> SUFFICES ASSUME IInv, [Next]_vars PROVE CloseState'
  OBVIOUS
<1>i. TypeOK /\ PumpState /\ CloseState
  BY DEF IInv
<1>1. CASE Connect \/ StopBridge \/ SendCall \/ ThirtySeconds
  BY <1>i, <1>1 DEF CloseState, Connect, Insert, StopBridge, Release,
    SendCall, ThirtySeconds, handlerVars, sendVars, pumpVars, callVars,
    nativeVars
<1>2. CASE Close \/ PumpFails \/ PumpShuts
  BY <1>i, <1>2 DEF CloseState, TypeOK, Close, Release, EmitClose, PumpFails,
    PumpTo, PumpShuts, nativeVars, handlerVars, sendVars, pumpVars
<1>3. ASSUME NEW h \in Listeners, OnMessage(h) \/ OffMessage(h)
      PROVE  CloseState'
  BY <1>i, <1>3 DEF CloseState, OnMessage, Pump, OffMessage, nativeVars,
    sendVars, callVars
<1>4. ASSUME NEW c \in Closers, OnClose(c) PROVE CloseState'
  BY <1>i, <1>4 DEF CloseState, TypeOK, OnClose, Pump, nativeVars, sendVars,
    callVars
<1>5. ASSUME NEW c \in Closers, OffClose(c) PROVE CloseState'
  BY <1>i, <1>5 DEF CloseState, TypeOK, OffClose, nativeVars, sendVars,
    pumpVars
<1>6. CASE PumpWakes \/ PumpTakes \/ PumpFindsNone
  BY <1>i, <1>6 DEF CloseState, PumpWakes, PumpTakes, Pop, PumpTo,
    PumpFindsNone, nativeVars, handlerVars, sendVars, callVars
<1>7. CASE PumpDelivered \/ PumpStaysOpen \/ PumpSeesEnd \/ PumpEnds
  BY <1>i, <1>7 DEF CloseState, PumpDelivered, Sleep, PumpTo, PumpStaysOpen,
    PumpSeesEnd, PumpEnds, nativeVars, handlerVars, sendVars, callVars
<1>8. CASE HandlerReturns \/ (\E h \in Listeners : Deliver(h))
  BY <1>i, <1>8 DEF CloseState, HandlerReturns, Deliver, nativeVars,
    handlerVars, sendVars, pumpVars
<1>9. ASSUME NEW c \in Closers, TellClose(c) PROVE CloseState'
  BY <1>i, <1>9 DEF CloseState, TypeOK, TellClose, nativeVars, sendVars,
    pumpVars
<1>10. ASSUME NEW c \in Closers, Microtask(c) PROVE CloseState'
  BY <1>i, <1>10 DEF CloseState, TypeOK, Microtask, nativeVars, sendVars,
    pumpVars
<1>11. ASSUME NEW k \in Sends, SendAccepted(k) \/ SendRejected(k) \/
            SendInvalid(k) \/ SendGivesUp(k) \/ SendBackpressured(k)
      PROVE  CloseState'
  BY <1>i, <1>11 DEF CloseState, SendAccepted, Settle, SendRejected,
    SendInvalid, SendGivesUp, SendBackpressured, nativeVars, handlerVars, pumpVars,
    callVars
<1>12. CASE Native \/ UNCHANGED vars
  BY <1>i, <1>12 DEF CloseState, Native, NativeTasks, Arrive, ReaderEnds,
    WriterEnds, handlerVars, sendVars, pumpVars, callVars, vars, nativeVars
<1> QED
  BY <1>1, <1>2, <1>3, <1>4, <1>5, <1>6, <1>7, <1>8, <1>9, <1>10, <1>11, <1>12
    DEF Next, App, Js, Send

(* A send has its turn when no earlier one is pending, so the queue takes    *)
(* them in the order of the calls.                                           *)
LEMMA SendStep == IInv /\ [Next]_vars => SendState'
<1> SUFFICES ASSUME IInv, [Next]_vars PROVE SendState'
  OBVIOUS
<1>i. TypeOK /\ SendState
  BY DEF IInv
<1> USE DEF SendsInOrder
<1>1. CASE Connect \/ Close \/ StopBridge \/ ThirtySeconds
  BY <1>i, <1>1 DEF SendState, Connect, Insert, Close, Release, EmitClose,
    StopBridge, ThirtySeconds, handlerVars, sendVars, pumpVars, callVars,
    nativeVars
<1>2. CASE SendCall
  <2>1. issued' = issued + 1 /\ pending' = pending \cup {issued + 1} /\ taken' = taken
    BY <1>2 DEF SendCall
  <2>2. issued \in Nat /\ taken \in Seq(Sends) /\ pending \subseteq 1..issued
    BY <1>i, BoundsAssumption DEF SendState, TypeOK
  <2>3. pending' \subseteq 1..issued'
    BY <2>1, <2>2
  <2>4. ASSUME NEW i \in 1..Len(taken)
        PROVE  taken[i] <= issued' /\ \A k \in pending' : taken[i] < k
    <3>1. taken[i] \in Sends
      BY <2>2
    <3>2. taken[i] <= issued /\ \A k \in pending : taken[i] < k
      BY <1>i DEF SendState
    <3> QED
      BY <2>1, <2>2, <3>1, <3>2, BoundsAssumption DEF Sends
  <2> QED
    BY <1>i, <2>1, <2>3, <2>4 DEF SendState
<1>3. ASSUME NEW h \in Listeners, OnMessage(h) \/ OffMessage(h)
      PROVE  SendState'
  BY <1>i, <1>3 DEF SendState, OnMessage, Pump, OffMessage, nativeVars,
    sendVars, callVars
<1>4. ASSUME NEW c \in Closers, OnClose(c) \/ OffClose(c) PROVE SendState'
  BY <1>i, <1>4 DEF SendState, OnClose, Pump, OffClose, nativeVars, sendVars,
    callVars, pumpVars
<1>5. CASE PumpWakes \/ PumpTakes \/ PumpFindsNone \/ PumpFails \/ PumpShuts
  BY <1>i, <1>5 DEF SendState, PumpWakes, PumpTakes, Pop, PumpTo,
    PumpFindsNone, PumpFails, Release, EmitClose, PumpShuts, nativeVars,
    handlerVars, sendVars, callVars
<1>6. CASE PumpDelivered \/ PumpStaysOpen \/ PumpSeesEnd \/ PumpEnds
  BY <1>i, <1>6 DEF SendState, PumpDelivered, Sleep, PumpTo, PumpStaysOpen,
    PumpSeesEnd, PumpEnds, nativeVars, handlerVars, sendVars, callVars
<1>7. CASE HandlerReturns \/ (\E c \in Closers : TellClose(c) \/ Microtask(c))
          \/ (\E h \in Listeners : Deliver(h))
  BY <1>i, <1>7 DEF SendState, HandlerReturns, Deliver, TellClose, Microtask,
    nativeVars, handlerVars, sendVars, pumpVars
<1>8. ASSUME NEW k \in Sends, SendAccepted(k) PROVE SendState'
  BY <1>i, <1>8 DEF SendState, TypeOK, Turn, Sends, SendAccepted, Settle,
    nativeVars, handlerVars, pumpVars, callVars
<1>9. ASSUME NEW k \in Sends, SendRejected(k) \/ SendInvalid(k) \/ SendGivesUp(k)
      PROVE  SendState'
  BY <1>i, <1>9 DEF SendState, SendRejected, SendInvalid, Settle, SendGivesUp,
    nativeVars, handlerVars, pumpVars, callVars
<1>10. ASSUME NEW k \in Sends, SendBackpressured(k) PROVE SendState'
  BY <1>i, <1>10 DEF SendState, SendBackpressured, nativeVars, handlerVars,
    pumpVars, callVars
<1>11. CASE Native \/ UNCHANGED vars
  BY <1>i, <1>11 DEF SendState, Native, NativeTasks, Arrive, ReaderEnds,
    WriterEnds, handlerVars, sendVars, pumpVars, callVars, vars, nativeVars
<1> QED
  BY <1>1, <1>2, <1>3, <1>4, <1>5, <1>6, <1>7, <1>8, <1>9, <1>10, <1>11 DEF
    Next, App, Js, Send

-----------------------------------------------------------------------------

(* The inductive invariant: together the parts hold in every reachable state.*)
THEOREM IInvHolds == Spec => []IInv
<1>1. IInv /\ [Next]_vars => IInv'
  BY TypeStep, BeforeStep, ReleasedStep, PumpStep, FrameStep, CloseStep, SendStep
  DEF IInv
<1> QED
  BY InitInv, <1>1, PTL DEF Spec

(* Every variable keeps its type.                                            *)
THEOREM TypeCorrect == Spec => []TypeOK
<1>1. IInv => TypeOK
  BY DEF IInv
<1> QED
  BY <1>1, IInvHolds, PTL

(* Whatever handlers subscribe and unsubscribe from wherever, two receive    *)
(* loops never run and an open stream with an observer is never deaf.        *)
THEOREM OnePumpHolds == Spec => []OnePump
<1>1. IInv => OnePump
  BY DEF IInv, PumpState, OnePump, Free
<1> QED
  BY <1>1, IInvHolds, PTL

(* For any number of listeners and frames, each subscribed listener has been *)
(* handed every frame since it subscribed, once and in order, but for the    *)
(* frame of a delivery that has still to reach it.                           *)
THEOREM EveryListenerHolds == Spec => []EveryListenerEveryFrame
<1>1. IInv => EveryListenerEveryFrame
  BY DEF IInv, FrameState
<1> QED
  BY <1>1, IInvHolds, PTL

(* An onClose handler is called at most once, never before the close, and    *)
(* every handler registered at the close is called or about to be.           *)
THEOREM ToldOnceHolds == Spec => []ToldOnce
<1>1. IInv => ToldOnce
  BY DEF IInv, CloseState, ToldOnce, TypeOK
<1> QED
  BY <1>1, IInvHolds, PTL

(* A stream object that says it is closed holds no native entry any more.    *)
THEOREM ClosedIsReleasedHolds == Spec => []ClosedIsReleased
<1>1. IInv => ClosedIsReleased
  BY DEF IInv
<1> QED
  BY <1>1, IInvHolds, PTL

(* However sends fail, retry or give up, the native queue takes the others   *)
(* in the order in which the application called send().                      *)
THEOREM SendsInOrderHolds == Spec => []SendsInOrder
<1>1. IInv => SendsInOrder
  BY DEF IInv, SendState
<1> QED
  BY <1>1, IInvHolds, PTL

-----------------------------------------------------------------------------
NativeStep == Insert \/ NativeTasks \/ Pop \/ Release

(* Each step of the stream object is one of the native stream's, or none:    *)
(* the JavaScript layer is built on nothing but the interface that           *)
(* FramedStreamProofs shows the Rust stream to implement.                    *)
LEMMA NativeStepOrNone == [Next]_vars => [NativeStep]_nativeVars
<1> SUFFICES ASSUME [Next]_vars PROVE [NativeStep]_nativeVars
  OBVIOUS
<1> USE DEF NativeStep
<1>1. CASE App
  BY <1>1 DEF App, Connect, Close, StopBridge, SendCall, OnMessage, OffMessage,
    OnClose, OffClose
<1>2. CASE Js
  BY <1>2 DEF Js, PumpWakes, PumpTakes, PumpFindsNone, PumpFails, PumpDelivered,
    PumpStaysOpen, PumpSeesEnd, PumpShuts, PumpEnds, HandlerReturns, Deliver,
    TellClose
<1>3. ASSUME NEW k \in Sends,
             SendAccepted(k) \/ SendRejected(k) \/ SendInvalid(k)
             \/ SendBackpressured(k) \/ SendGivesUp(k)
      PROVE  UNCHANGED nativeVars
  BY <1>3 DEF SendAccepted, SendRejected, SendInvalid, SendBackpressured, SendGivesUp,
    Settle
<1>4. CASE ThirtySeconds \/ Native \/ (\E c \in Closers : Microtask(c))
  BY <1>4 DEF ThirtySeconds, Native, Microtask
<1>5. CASE UNCHANGED vars
  BY <1>5 DEF vars
<1> QED
  BY <1>1, <1>2, <1>3, <1>4, <1>5 DEF Next, Send

(* The stream object drives the native stream only as NativeStream allows.   *)
THEOREM UsesNativeStream == Spec => NativeSpec
<1>1. Init => NativeInit
  BY DEF Init
<1> QED
  BY <1>1, NativeStepOrNone, PTL DEF Spec, NativeSpec, NativeStep
=============================================================================

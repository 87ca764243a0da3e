------------------------- MODULE FramedStreamProofs -------------------------
(* Theorems about FramedStream, for every value of its constants.            *)
EXTENDS FramedStream, SumProofs, TLAPS

-----------------------------------------------------------------------------
(* Sequences: what the queue operations do to types, lengths and elements.   *)

(* The old elements stay, the new one is the last.                           *)
LEMMA AppendFacts ==
  ASSUME NEW S, NEW q \in Seq(S), NEW e \in S
  PROVE  /\ Append(q, e) \in Seq(S)
         /\ Len(Append(q, e)) = Len(q) + 1
         /\ \A i \in 1..Len(q) : Append(q, e)[i] = q[i]
         /\ Append(q, e)[Len(q) + 1] = e
  OBVIOUS

(* The first element goes, the others move up.                               *)
LEMMA TailFacts ==
  ASSUME NEW S, NEW q \in Seq(S), q # <<>>
  PROVE  /\ Head(q) \in S
         /\ Head(q) = q[1]
         /\ Len(q) \in Nat \ {0}
         /\ Tail(q) \in Seq(S)
         /\ Len(Tail(q)) = Len(q) - 1
         /\ \A i \in 1..Len(Tail(q)) : Tail(q)[i] = q[i + 1]
  OBVIOUS

-----------------------------------------------------------------------------
(* Types.  TypeOK is not inductive: that a pushed frame is a frame depends   *)
(* on the positions of the tasks that hold one.                              *)

HeldFrames ==
  /\ wFrame \in IF wPc = "writing" THEN Frame ELSE {NoFrame}
  /\ rFrame \in IF rPc \in {"check", "offer", "arm", "waiting"} THEN Frame
                ELSE {NoFrame}
  /\ \A s \in Senders : sPc[s] # "idle" => sFrame[s] \in Frame

TypeInv == TypeOK /\ HeldFrames

(* The fields of a frame; NoFrame is none.                                   *)
LEMMA FrameFacts ==
  /\ \A f \in Frame \cup {NoFrame} : f.len \in Nat /\ f.seq \in Nat
  /\ \A k \in Nat, n \in 1..MAX_FRAME_BYTES : [seq |-> k, len |-> n] \in Frame
  /\ \A k \in Nat, n \in 1..MAX_FRAME_BYTES : [seq |-> k, len |-> n].seq = k
  /\ \A f \in Frame : f.len \in 1..MAX_FRAME_BYTES
  /\ NoFrame \notin Frame /\ NoFrame.len = 0
  BY FrameAssumption DEF Frame, NoFrame

(* The stream starts well typed.                                             *)
LEMMA TypeInit == Init => TypeInv
<1> SUFFICES ASSUME Init PROVE TypeInv
  OBVIOUS
<1>1. SendTypes
  BY FrameAssumption DEF Init, SendTypes
<1>2. /\ peerSawFin \in BOOLEAN /\ peerStopped \in BOOLEAN /\ lost \in BOOLEAN
      /\ capPermit \in BOOLEAN /\ msgPermit \in BOOLEAN
      /\ closed \in BOOLEAN /\ closeTx \in BOOLEAN
  BY Zenon DEF Init
<1>3. PeerTypes /\ WriterTypes /\ ReaderTypes /\ CallTypes /\ CloseTypes
  BY <1>2 DEF Init, PeerTypes, WriterTypes, ReaderTypes, CallTypes, CloseTypes
<1>4. HeldFrames
  BY DEF Init, HeldFrames
<1> QED
  BY <1>1, <1>3, <1>4 DEF TypeInv, TypeOK

(* Waking a receiver or storing the permit keeps both typed.                 *)
LEMMA NotifyOneTypes ==
  ASSUME CallTypes, msgPermit \in BOOLEAN, NotifyOne
  PROVE  /\ nPc' \in [Receivers -> {"idle", "fast", "checkClosed", "arm",
                                    "waiting", "woken"}]
         /\ msgPermit' \in BOOLEAN
<1>1. CASE \E r \in Waiting : /\ nPc' = [nPc EXCEPT ![r] = "woken"]
                              /\ UNCHANGED msgPermit
  BY <1>1 DEF CallTypes, Waiting
<1>2. CASE msgPermit' = TRUE /\ UNCHANGED nPc
  BY <1>2 DEF CallTypes
<1> QED
  BY <1>1, <1>2 DEF NotifyOne

(* next_message() returning with a frame, or with None.                      *)
LEMMA ReturnFrameTypes ==
  ASSUME TypeInv, NEW r \in Receivers, ReturnFrame(r), NextUnchanged
  PROVE  TypeInv'
<1> USE DEF TypeInv, TypeOK, NextUnchanged, sendVars, writeVars, peerVars,
      closeVars
<1>1. inbox \in Seq(Frame) /\ inbox # <<>>
  BY DEF ReturnFrame, Pop, ReaderTypes
<1>2. Head(inbox) \in Frame /\ inbox' \in Seq(Frame)
  BY <1>1, TailFacts DEF ReturnFrame, Pop
<1>3. inboxBytes' \in Int
  BY <1>2, FrameFacts DEF ReturnFrame, Pop, ReaderTypes
<1>4. capPermit' \in BOOLEAN
  BY Zenon DEF ReturnFrame, Pop, NotifyCapacity, ReaderTypes
<1>5. ReaderTypes' /\ HeldFrames'
  BY <1>2, <1>3, <1>4 DEF ReturnFrame, Pop, NotifyCapacity, ReaderTypes,
    HeldFrames
<1>6. CallTypes'
  BY <1>2 DEF ReturnFrame, Pop, CallTypes
<1> QED
  BY <1>5, <1>6 DEF SendTypes, WriterTypes, PeerTypes, CloseTypes

(* Every step of a thread, a task or the peer keeps the types.               *)
LEMMA TypeStep == TypeInv /\ [Next]_vars => TypeInv'
<1> SUFFICES ASSUME TypeInv, [Next]_vars PROVE TypeInv'
  OBVIOUS
<1> USE FrameFacts DEF TypeInv, TypeOK, SendTypes, WriterTypes, PeerTypes,
      ReaderTypes, CallTypes, CloseTypes, HeldFrames, sendVars, writeVars,
      peerVars, recvVars, callVars, closeVars
<1>1. CASE Insert
  BY <1>1 DEF Insert
<1>2. CASE Close
  BY <1>2, NotifyOneTypes DEF Close, WakeCapacity
<1>3. ASSUME NEW s \in Senders, SendCall(s) PROVE TypeInv'
  BY <1>3 DEF SendCall, SendTo
<1>4. ASSUME NEW s \in Senders, SendCheckClosed(s) PROVE TypeInv'
  BY <1>4 DEF SendCheckClosed, SendTo
<1>5. ASSUME NEW s \in Senders, SendAcquire(s) PROVE TypeInv'
  BY <1>5 DEF SendAcquire, SendTo
<1>6. ASSUME NEW s \in Senders, SendNoCapacity(s) PROVE TypeInv'
  BY <1>6 DEF SendNoCapacity, SendTo
<1>7. ASSUME NEW s \in Senders, SendEnqueue(s) PROVE TypeInv'
  <2> DEFINE f == [seq |-> accepted + 1, len |-> sFrame[s].len]
  <2>1. sFrame[s] \in Frame
    BY <1>7 DEF SendEnqueue
  <2>2. accepted + 1 \in Nat /\ sFrame[s].len \in 1..MAX_FRAME_BYTES
    BY <2>1
  <2>3. f \in Frame
    BY <2>2
  <2> HIDE DEF f
  <2>4. queue' \in Seq(Frame)
    BY <1>7, <2>3, AppendFacts DEF SendEnqueue, f
  <2> QED
    BY <1>7, <2>4 DEF SendEnqueue, SendTo, ChannelFull
<1>8. ASSUME NEW s \in Senders, SendRefused(s) PROVE TypeInv'
  <2>1. sFrame[s] \in Frame
    BY <1>8 DEF SendRefused
  <2>2. permits' \in Nat
    BY <1>8, <2>1 DEF SendRefused
  <2> QED
    BY <1>8, <2>2 DEF SendRefused, SendTo, ChannelFull
<1>9. ASSUME NEW r \in Receivers, NextCall(r) PROVE TypeInv'
  BY <1>9 DEF NextCall, NextUnchanged
<1>10. ASSUME NEW r \in Receivers, NextFast(r) PROVE TypeInv'
  <2>1. CASE ReturnFrame(r)
    BY <1>10, <2>1, ReturnFrameTypes DEF NextFast
  <2>2. CASE /\ nPc' = [nPc EXCEPT ![r] = "checkClosed"]
             /\ UNCHANGED <<recvVars, callVars, rPc, capPermit, msgPermit>>
    BY <1>10, <2>2 DEF NextFast, NextUnchanged
  <2> QED
    BY <1>10, <2>1, <2>2 DEF NextFast
<1>11. ASSUME NEW r \in Receivers, NextCheckClosed(r) PROVE TypeInv'
  <2>1. CASE closed /\ ReturnNull(r) /\ UNCHANGED timedOut
    BY <1>11, <2>1 DEF NextCheckClosed, NextUnchanged, ReturnNull
  <2>2. CASE ReturnNull(r) /\ timedOut' = timedOut \cup {r}
    BY <1>11, <2>2 DEF NextCheckClosed, NextUnchanged, ReturnNull
  <2>3. CASE /\ nPc' = [nPc EXCEPT ![r] = "arm"]
             /\ UNCHANGED <<recvVars, callVars, rPc, capPermit, msgPermit>>
    BY <1>11, <2>3 DEF NextCheckClosed, NextUnchanged
  <2> QED
    BY <1>11, <2>1, <2>2, <2>3 DEF NextCheckClosed
<1>12. ASSUME NEW r \in Receivers, NextArm(r) PROVE TypeInv'
  <2>1. msgPermit' \in BOOLEAN
    BY <1>12, Zenon DEF NextArm
  <2> QED
    BY <1>12, <2>1 DEF NextArm, NextUnchanged
<1>13. ASSUME NEW r \in Receivers, NextTimeout(r) PROVE TypeInv'
  BY <1>13 DEF NextTimeout, NextUnchanged
<1>14. ASSUME NEW r \in Receivers, NextSlow(r) PROVE TypeInv'
  <2>1. CASE ReturnFrame(r)
    BY <1>14, <2>1, ReturnFrameTypes DEF NextSlow
  <2>2. CASE ReturnNull(r) /\ UNCHANGED timedOut
    BY <1>14, <2>2 DEF NextSlow, NextUnchanged, ReturnNull
  <2> QED
    BY <1>14, <2>1, <2>2 DEF NextSlow
<1>15. CASE WriterTake
  BY <1>15 DEF WriterTake, WriterUnchanged, taskVars
<1>16. CASE WriterWrite
  <2>1. wFrame \in Frame
    BY <1>16 DEF WriterWrite
  <2>2. wire' \in Seq(Frame)
    BY <1>16, <2>1, AppendFacts DEF WriterWrite
  <2>3. permits' \in Nat
    BY <1>16, <2>1 DEF WriterWrite
  <2> QED
    BY <1>16, <2>2, <2>3, SMTT(30) DEF WriterWrite, WriterUnchanged, taskVars
<1>17. CASE WriterFail
  BY <1>17, SMTT(30) DEF WriterFail, WriterUnchanged, taskVars, LeaveLoop
<1>18. CASE WriterCancel
  BY <1>18, SMTT(30) DEF WriterCancel, WriterUnchanged, taskVars, LeaveLoop
<1>19. CASE WriterEof
  BY <1>19 DEF WriterEof, WriterUnchanged, taskVars, LeaveLoop
<1>20. CASE WriterPublish
  BY <1>20, NotifyOneTypes DEF WriterPublish, WriterUnchanged, taskVars,
    WakeCapacity
<1>21. CASE WriterDropRx
  <2>1. rxOpen' \in BOOLEAN
    BY <1>21, Zenon DEF WriterDropRx
  <2> QED
    BY <1>21, <2>1 DEF WriterDropRx, WriterUnchanged, taskVars
<1>22. CASE WriterDropFrame
  <2>1. queue # <<>> /\ queue' = Tail(queue) /\ permits' = permits + Head(queue).len
    BY <1>22 DEF WriterDropFrame
  <2>2. Head(queue) \in Frame /\ queue' \in Seq(Frame)
    BY <2>1, TailFacts
  <2>3. permits' \in Nat
    BY <2>1, <2>2, SMTT(30)
  <2>4. /\ wPc = "dropping"
        /\ UNCHANGED <<rxOpen, writeVars, wire, taskVars, closeVars, rPc, msgPermit, nPc>>
    BY <1>22 DEF WriterDropFrame, WriterUnchanged
  <2> QED
    BY <2>2, <2>3, <2>4 DEF taskVars
<1>23. CASE WriterExit
  BY <1>23 DEF WriterExit, WriterUnchanged, taskVars
<1>24. CASE ReaderRead
  BY <1>24 DEF ReaderRead, ReaderUnchanged, othersVars, ReaderStep
<1>25. CASE ReaderEof
  BY <1>25 DEF ReaderEof, ReaderUnchanged, othersVars, ReaderStep
<1>26. CASE ReaderCancel
  BY <1>26 DEF ReaderCancel, ReaderUnchanged, othersVars, ReaderStep
<1>27. CASE ReaderCheck
  BY <1>27 DEF ReaderCheck, ReaderUnchanged, othersVars, ReaderStep
<1>28. CASE ReaderPush
  <2>1. rFrame \in Frame
    BY <1>28 DEF ReaderPush, ReaderStep
  <2>2. inbox' \in Seq(Frame)
    BY <1>28, <2>1, AppendFacts DEF ReaderPush
  <2>3. inboxBytes' \in Int
    <3>1. rFrame.len \in 1..MAX_FRAME_BYTES
      BY <2>1
    <3>2. inboxBytes \in Int
      OBVIOUS
    <3> HIDE DEF TypeInv
    <3>3. inboxBytes' = inboxBytes + rFrame.len
      BY <1>28 DEF ReaderPush
    <3> QED
      BY <3>1, <3>2, <3>3
  <2> QED
    BY <1>28, <2>2, <2>3 DEF ReaderPush, ReaderUnchanged, othersVars, ReaderStep
<1>29. CASE ReaderFull
  BY <1>29 DEF ReaderFull, ReaderUnchanged, othersVars, ReaderStep
<1>30. CASE ReaderArm
  <2>1. capPermit' \in BOOLEAN
    BY <1>30, Zenon DEF ReaderArm
  <2> QED
    BY <1>30, <2>1 DEF ReaderArm, ReaderUnchanged, othersVars, ReaderStep
<1>31. CASE ReaderNotify
  BY <1>31, NotifyOneTypes DEF ReaderNotify, ReaderUnchanged, othersVars,
    ReaderStep
<1>32. CASE ReaderPublish
  BY <1>32, NotifyOneTypes DEF ReaderPublish, ReaderUnchanged, othersVars,
    ReaderStep
<1>33. CASE PeerSend
  BY <1>33 DEF PeerSend, PeerUnchanged
<1>34. CASE PeerFinish
  BY <1>34 DEF PeerFinish, PeerUnchanged
<1>35. CASE PeerRead
  BY <1>35 DEF PeerRead, PeerUnchanged
<1>36. CASE PeerSeesFin
  BY <1>36 DEF PeerSeesFin, PeerUnchanged
<1>37. CASE PeerStop
  BY <1>37 DEF PeerStop, PeerUnchanged
<1>38. CASE LoseConnection
  BY <1>38 DEF LoseConnection, PeerUnchanged
<1>39. CASE Gone \/ UNCHANGED vars
  BY <1>39 DEF Gone, vars
<1> QED
  BY <1>1, <1>2, <1>3, <1>4, <1>5, <1>6, <1>7, <1>8, <1>9, <1>10, <1>11, <1>12,
    <1>13, <1>14, <1>15, <1>16, <1>17, <1>18, <1>19, <1>20, <1>21, <1>22, <1>23,
    <1>24, <1>25, <1>26, <1>27, <1>28, <1>29, <1>30, <1>31, <1>32, <1>33, <1>34,
    <1>35, <1>36, <1>37, <1>38, <1>39 DEF Next, SendStep, NextStep, Writer,
    Reader, Peer


(* Every variable keeps its type in every behaviour, whatever the threads,   *)
(* the tasks, the peer and the connection do: permits are never negative and *)
(* only valid frames are queued.                                             *)
THEOREM TypeCorrect == Spec => []TypeOK
<1>1. Spec => []TypeInv
  BY TypeInit, TypeStep, PTL DEF Spec
<1>2. TypeInv => TypeOK
  BY DEF TypeInv
<1> QED
  BY <1>1, <1>2, PTL

-----------------------------------------------------------------------------
(* Outbound.  The frames are numbered through peerGot, wire, write_frame and *)
(* the channel; once the writer has left its loop the channel is abandoned,  *)
(* and a clean end means that nobody was left to put a frame into it.        *)

InFlight == IF wPc = "writing" THEN 1 ELSE 0

Numbered ==
  /\ PeerReadsInOrder
  /\ \A i \in 1..Len(wire) : wire[i].seq = Len(peerGot) + i
  /\ wPc = "writing" => wFrame.seq = Len(peerGot) + Len(wire) + 1

Running ==
  /\ outEnd = "open" <=> wPc \in {"select", "writing"}
  /\ outEnd = "open" =>
       /\ \A i \in 1..Len(queue) :
            queue[i].seq = Len(peerGot) + Len(wire) + InFlight + i
       /\ accepted = Len(peerGot) + Len(wire) + InFlight + Len(queue)

Finished ==
  /\ outEnd = "fin" => /\ entry = "removed"
                       /\ \A s \in Senders : sPc[s] = "idle"
                       /\ accepted = Len(peerGot) + Len(wire)
  /\ peerSawFin => outEnd = "fin" /\ wire = <<>>

Bounded ==
  /\ Len(queue) <= SEND_QUEUE_FRAMES /\ Len(wire) <= Window
  /\ rxOpen <=> wPc \notin {"dropping", "done"}
  /\ rxOpen => accepted <= Len(peerGot) + Len(wire) + 1 + Len(queue)
  /\ Len(peerGot) + Len(wire) <= accepted

OutInv == Numbered /\ Running /\ Finished /\ Bounded

outVars == <<queue, rxOpen, accepted, sPc, wPc, wFrame, outEnd, wire, peerGot,
             peerSawFin, entry>>

(* Nothing is on its way at the start.                                       *)
LEMMA OutInit == Init => OutInv
  BY FrameAssumption DEF Init, OutInv, Numbered, Running, Finished, Bounded,
    InFlight, PeerReadsInOrder

(* Everything that is not in outVars is irrelevant to OutInv.                *)
LEMMA OutFrame == OutInv /\ UNCHANGED outVars => OutInv'
  BY DEF OutInv, Numbered, Running, Finished, Bounded, InFlight,
    PeerReadsInOrder, outVars

(* Every step keeps the numbering of the outbound frames.                    *)
LEMMA OutStep == TypeInv /\ OutInv /\ [Next]_vars => OutInv'
<1> SUFFICES ASSUME TypeInv, OutInv, [Next]_vars PROVE OutInv'
  OBVIOUS
<1>t. /\ queue \in Seq(Frame) /\ wire \in Seq(Frame) /\ peerGot \in Seq(Frame)
      /\ accepted \in Nat /\ wFrame \in Frame \cup {NoFrame}
      /\ sPc \in [Senders -> {"idle", "called", "acquire", "enqueue"}]
      /\ wPc = "writing" => wFrame \in Frame
      /\ Len(queue) \in Nat /\ Len(wire) \in Nat /\ Len(peerGot) \in Nat
  BY DEF TypeInv, TypeOK, SendTypes, WriterTypes, PeerTypes, HeldFrames
<1>c. /\ SEND_QUEUE_FRAMES \in Nat /\ Window \in Nat
  BY FrameAssumption
<1> USE DEF OutInv
<1>1. CASE Close
  BY <1>1 DEF Close, sendVars, writeVars, peerVars, Numbered, Running, Finished,
    Bounded, InFlight, PeerReadsInOrder
<1>2. ASSUME NEW s \in Senders, SendCall(s) \/ SendStep(s), ~SendEnqueue(s)
      PROVE  OutInv'
  <2>1. UNCHANGED <<queue, rxOpen, accepted, wPc, wFrame, outEnd, wire, peerGot,
                    peerSawFin, entry>>
    BY <1>2 DEF SendCall, SendStep, SendCheckClosed, SendAcquire,
      SendNoCapacity, SendRefused, SendTo, ChannelFull, writeVars, peerVars,
      closeVars
  <2>2. outEnd = "fin" => \A x \in Senders : sPc'[x] = "idle"
    BY <1>t, <1>2 DEF SendCall, SendStep, SendCheckClosed, SendAcquire,
      SendNoCapacity, SendRefused, Finished
  <2> QED
    BY <2>1, <2>2 DEF Numbered, Running, Finished, Bounded, InFlight,
      PeerReadsInOrder
<1>3. ASSUME NEW s \in Senders, SendEnqueue(s) PROVE OutInv'
  <2> DEFINE f == [seq |-> accepted + 1, len |-> sFrame[s].len]
  <2>1. /\ UNCHANGED <<rxOpen, wPc, wFrame, outEnd, wire, peerGot, peerSawFin,
                       entry>>
        /\ rxOpen /\ Len(queue) < SEND_QUEUE_FRAMES /\ sPc[s] = "enqueue"
        /\ accepted' = accepted + 1 /\ queue' = Append(queue, f)
    BY <1>t, <1>c, <1>3 DEF SendEnqueue, SendTo, ChannelFull, writeVars,
      peerVars, closeVars
  <2>2. f \in [seq : Nat, len : {sFrame[s].len}] /\ f.seq = accepted + 1
    BY <1>t
  <2>3. f \in Frame
    <3>1. sFrame[s] \in Frame
      BY <2>1 DEF TypeInv, HeldFrames
    <3>2. sFrame[s].len \in 1..MAX_FRAME_BYTES /\ accepted + 1 \in Nat
      BY <3>1, <1>t, FrameFacts
    <3> QED
      BY <3>2, FrameFacts
  <2> HIDE DEF f
  <2>4. /\ Len(queue') = Len(queue) + 1
        /\ \A i \in 1..Len(queue) : queue'[i] = queue[i]
        /\ queue'[Len(queue) + 1] = f
    BY <1>t, <2>1, <2>3, AppendFacts
  <2>5. outEnd # "fin"
    BY <2>1 DEF Finished
  <2>6. Numbered' /\ Finished'
    BY <2>1, <2>5 DEF Numbered, Finished, PeerReadsInOrder
  <2>7. Running'
    <3> SUFFICES ASSUME outEnd = "open"
                 PROVE  Running'
      BY <2>1 DEF Running
    <3> DEFINE base == Len(peerGot) + Len(wire) + InFlight
    <3>1. base \in Nat /\ base' = base
      BY <1>t, <2>1 DEF InFlight
    <3>2. /\ \A i \in 1..Len(queue) : queue[i].seq = base + i
          /\ accepted = base + Len(queue)
      BY DEF Running
    <3> HIDE DEF base
    <3>3. accepted' = base + Len(queue')
      BY <1>t, <2>1, <2>4, <3>1, <3>2
    <3>4. ASSUME NEW i \in 1..Len(queue') PROVE queue'[i].seq = base + i
      <4>1. CASE i \in 1..Len(queue)
        BY <2>4, <3>2, <4>1
      <4>2. CASE i = Len(queue) + 1
        BY <1>t, <2>2, <2>4, <3>1, <3>2, <4>2
      <4> QED
        BY <1>t, <2>4, <4>1, <4>2
    <3> QED
      BY <2>1, <3>1, <3>3, <3>4 DEF Running, base
  <2>8. Bounded'
    BY <1>t, <1>c, <2>1, <2>4 DEF Bounded
  <2> QED
    BY <2>6, <2>7, <2>8
<1>4. CASE WriterTake
  <2>1. /\ UNCHANGED <<rxOpen, accepted, outEnd, wire, peerGot, peerSawFin, entry,
                       sPc>>
        /\ wPc = "select" /\ wPc' = "writing" /\ queue # <<>>
        /\ wFrame' = Head(queue) /\ queue' = Tail(queue)
    BY <1>4 DEF WriterTake, WriterUnchanged, taskVars, peerVars, closeVars
  <2>2. /\ Head(queue) = queue[1] /\ Len(queue) \in Nat \ {0}
        /\ Len(queue') = Len(queue) - 1
        /\ \A i \in 1..Len(queue') : queue'[i] = queue[i + 1]
    BY <1>t, <2>1, TailFacts
  <2>3. outEnd = "open"
    BY <2>1 DEF Running
  <2>4. Numbered' /\ Finished'
    BY <1>t, <2>1, <2>2, <2>3 DEF Numbered, Finished, Running, InFlight,
      PeerReadsInOrder
  <2>5. Running'
    BY <1>t, <2>1, <2>2, <2>3 DEF Running, InFlight
  <2>6. Bounded'
    BY <1>t, <1>c, <2>1, <2>2, <2>3 DEF Bounded, Running, InFlight
  <2> QED
    BY <2>4, <2>5, <2>6
<1>5. CASE WriterWrite
  <2>1. /\ UNCHANGED <<queue, rxOpen, accepted, outEnd, peerGot, peerSawFin, entry,
                       sPc>>
        /\ wPc = "writing" /\ wPc' = "select" /\ Len(wire) < Window
        /\ wire' = Append(wire, wFrame)
    BY <1>5 DEF WriterWrite, WriterUnchanged, taskVars, peerVars, closeVars
  <2>2. /\ Len(wire') = Len(wire) + 1
        /\ \A i \in 1..Len(wire) : wire'[i] = wire[i]
        /\ wire'[Len(wire) + 1] = wFrame
    BY <1>t, <2>1, AppendFacts
  <2>3. outEnd = "open"
    BY <2>1 DEF Running
  <2>4. Numbered' /\ Finished'
    <3>1. ASSUME NEW i \in 1..Len(wire') PROVE wire'[i].seq = Len(peerGot) + i
      <4>1. CASE i \in 1..Len(wire)
        BY <2>2, <4>1 DEF Numbered
      <4>2. CASE i = Len(wire) + 1
        BY <1>t, <2>1, <2>2, <4>2 DEF Numbered
      <4> QED
        BY <1>t, <2>2, <4>1, <4>2
    <3>2. Numbered'
      BY <2>1, <3>1 DEF Numbered, PeerReadsInOrder
    <3>3. Finished'
      BY <2>1, <2>3 DEF Finished
    <3> QED
      BY <3>2, <3>3
  <2>5. Running'
    BY <1>t, <2>1, <2>2, <2>3 DEF Running, InFlight
  <2>6. Bounded'
    BY <1>t, <1>c, <2>1, <2>2, <2>3 DEF Bounded, Running, InFlight
  <2> QED
    BY <2>4, <2>5, <2>6
<1>6. CASE WriterFail \/ WriterCancel
  <2>1. /\ UNCHANGED <<queue, rxOpen, accepted, wire, peerGot, peerSawFin, entry,
                       sPc>>
        /\ wPc \in {"select", "writing"} /\ wPc' = "ending"
        /\ outEnd' \in {"failed", "reset"}
    BY <1>6 DEF WriterFail, WriterCancel, WriterUnchanged, taskVars, LeaveLoop,
      peerVars, closeVars
  <2>2. outEnd = "open"
    BY <2>1 DEF Running
  <2> QED
    BY <1>t, <2>1, <2>2 DEF Numbered, Running, Finished, Bounded, InFlight,
      PeerReadsInOrder
<1>7. CASE WriterEof
  <2>1. /\ UNCHANGED <<queue, rxOpen, accepted, wire, peerGot, peerSawFin, entry,
                       sPc>>
        /\ wPc = "select" /\ wPc' = "ending" /\ outEnd' = "fin" /\ queue = <<>>
        /\ entry = "removed" /\ \A s \in Senders : sPc[s] = "idle"
    BY <1>7 DEF WriterEof, TxAlive, WriterUnchanged, taskVars, LeaveLoop,
      peerVars, closeVars
  <2>2. outEnd = "open"
    BY <2>1 DEF Running
  <2> QED
    BY <1>t, <2>1, <2>2 DEF Numbered, Running, Finished, Bounded, InFlight,
      PeerReadsInOrder
<1>8. CASE WriterPublish \/ WriterDropRx \/ WriterExit
  <2>1. /\ UNCHANGED <<queue, accepted, wire, peerGot, peerSawFin, entry, sPc,
                       outEnd, wFrame>>
        /\ wPc \notin {"select", "writing"} /\ wPc' \notin {"select", "writing"}
        /\ rxOpen' <=> wPc' \notin {"dropping", "done"}
        /\ rxOpen' => rxOpen
    BY <1>8 DEF WriterPublish, WriterDropRx, WriterExit, WriterUnchanged,
      taskVars, peerVars, closeVars, Bounded
  <2> QED
    BY <1>t, <2>1 DEF Numbered, Running, Finished, Bounded, InFlight,
      PeerReadsInOrder
<1>9. CASE WriterDropFrame
  <2>1. /\ UNCHANGED <<rxOpen, accepted, wire, peerGot, peerSawFin, entry, sPc,
                       outEnd, wFrame, wPc>>
        /\ wPc = "dropping" /\ queue # <<>> /\ queue' = Tail(queue)
    BY <1>9 DEF WriterDropFrame, WriterUnchanged, taskVars, peerVars, closeVars,
      writeVars
  <2>2. Len(queue') = Len(queue) - 1
    BY <1>t, <2>1, TailFacts
  <2> QED
    BY <1>t, <1>c, <2>1, <2>2 DEF Numbered, Running, Finished, Bounded,
      InFlight, PeerReadsInOrder
<1>10. CASE PeerRead
  <2>1. /\ UNCHANGED <<queue, rxOpen, accepted, peerSawFin, entry, sPc, outEnd,
                       wFrame, wPc>>
        /\ wire # <<>> /\ wire' = Tail(wire)
        /\ peerGot' = Append(peerGot, Head(wire))
    BY <1>10 DEF PeerRead, PeerUnchanged, sendVars, writeVars, closeVars
  <2>2. /\ Head(wire) \in Frame /\ Head(wire) = wire[1]
        /\ Len(wire) \in Nat \ {0}
        /\ Len(wire') = Len(wire) - 1
        /\ \A i \in 1..Len(wire') : wire'[i] = wire[i + 1]
    BY <1>t, <2>1, TailFacts
  <2>3. /\ Len(peerGot') = Len(peerGot) + 1
        /\ \A i \in 1..Len(peerGot) : peerGot'[i] = peerGot[i]
        /\ peerGot'[Len(peerGot) + 1] = Head(wire)
    BY <1>t, <2>1, <2>2, AppendFacts
  <2>4. Numbered'
    <3>a. Head(wire).seq = Len(peerGot) + 1
      BY <1>t, <2>2 DEF Numbered
    <3>1. ASSUME NEW i \in 1..Len(peerGot') PROVE peerGot'[i].seq = i
      <4>1. CASE i \in 1..Len(peerGot)
        BY <1>t, <2>3, <4>1 DEF Numbered, PeerReadsInOrder
      <4>2. CASE i = Len(peerGot) + 1
        BY <2>3, <3>a, <4>2
      <4> QED
        BY <1>t, <2>3, <4>1, <4>2
    <3>2. ASSUME NEW i \in 1..Len(wire') PROVE wire'[i].seq = Len(peerGot') + i
      <4>1. i \in Nat /\ i + 1 \in 1..Len(wire) /\ wire'[i] = wire[i + 1]
        BY <1>t, <2>2
      <4>2. wire[i + 1].seq = Len(peerGot) + (i + 1)
        BY <4>1 DEF Numbered
      <4> QED
        BY <1>t, <2>3, <4>1, <4>2
    <3> QED
      BY <1>t, <2>1, <2>2, <2>3, <3>1, <3>2 DEF Numbered, PeerReadsInOrder
  <2>5. Len(peerGot') + Len(wire') = Len(peerGot) + Len(wire)
    BY <1>t, <2>2, <2>3
  <2>6. Running'
    BY <2>1, <2>5 DEF Running, InFlight
  <2>7. Finished'
    BY <2>1, <2>5 DEF Finished
  <2>8. Bounded'
    BY <1>t, <1>c, <2>1, <2>2, <2>5 DEF Bounded
  <2> QED
    BY <2>4, <2>6, <2>7, <2>8
<1>11. CASE PeerSeesFin
  BY <1>11 DEF PeerSeesFin, PeerUnchanged, sendVars, writeVars, closeVars,
    Numbered, Running, Finished, Bounded, InFlight, PeerReadsInOrder
<1>12. CASE Insert
  BY <1>12 DEF Insert, sendVars, writeVars, peerVars, Numbered, Running,
    Finished, Bounded, InFlight, PeerReadsInOrder
<1>13. CASE \/ Reader \/ PeerSend \/ PeerFinish \/ PeerStop \/ LoseConnection
            \/ \E r \in Receivers : NextCall(r) \/ NextStep(r)
            \/ Gone \/ UNCHANGED vars
  <2>1. UNCHANGED outVars
    BY <1>13 DEF outVars, Reader, ReaderRead, ReaderEof, ReaderCancel,
      ReaderCheck, ReaderPush, ReaderFull, ReaderArm, ReaderNotify,
      ReaderPublish, ReaderUnchanged, othersVars, ReaderStep, PeerSend,
      PeerFinish, PeerStop, LoseConnection, PeerUnchanged, NextCall, NextStep,
      NextFast, NextCheckClosed, NextArm, NextTimeout, NextSlow, NextUnchanged,
      Gone, vars, sendVars, writeVars, peerVars, closeVars
  <2> QED
    BY <2>1, OutFrame
<1> QED
  BY <1>1, <1>2, <1>3, <1>4, <1>5, <1>6, <1>7, <1>8, <1>9, <1>10, <1>11, <1>12,
    <1>13 DEF Next, Writer, Peer

(* So it holds in every behaviour.                                           *)
LEMMA OutAlways == Spec => [](TypeInv /\ OutInv)
  BY TypeInit, TypeStep, OutInit, OutStep, PTL DEF Spec

(* The peer reads exactly the accepted frames, in order and without a gap,   *)
(* whatever cancels the writer.                                              *)
THEOREM PeerReadsInOrderAlways == Spec => []PeerReadsInOrder
<1>1. OutInv => PeerReadsInOrder
  BY DEF OutInv, Numbered
<1> QED
  BY <1>1, OutAlways, PTL

(* A clean end of the stream reaches the peer only after every frame that    *)
(* any send() answered Ok for.                                               *)
THEOREM CleanEndIsCompleteAlways == Spec => []CleanEndIsComplete
<1>1. TypeInv /\ OutInv => CleanEndIsComplete
  BY DEF TypeInv, TypeOK, PeerTypes, SendTypes, OutInv, Finished,
    CleanEndIsComplete
<1> QED
  BY <1>1, OutAlways, PTL

-----------------------------------------------------------------------------
(* Inbound.  The frames are numbered through delivered, inbox, the reader's  *)
(* hand and inbound; once the reader has left its loop what is inbound, and  *)
(* at most one frame it held, is abandoned.                                  *)

Holding == rPc \in {"check", "offer", "arm", "waiting"}

Ordered ==
  /\ DeliveredInOrder
  /\ \A i \in 1..Len(inbox) : inbox[i].seq = Len(delivered) + i
  /\ Holding => rFrame.seq = Len(delivered) + Len(inbox) + 1

Held == IF Holding THEN 1 ELSE 0

Receiving ==
  rPc \notin {"ending", "done"} =>
    /\ \A i \in 1..Len(inbound) :
         inbound[i].seq = Len(delivered) + Len(inbox) + Held + i
    /\ peerSent = Len(delivered) + Len(inbox) + Held + Len(inbound)

InBounded ==
  /\ Len(inbox) <= MAX_INBOX_FRAMES /\ Len(inbound) <= Window
  /\ Len(delivered) + Len(inbox) <= peerSent
  /\ peerSent <= Len(delivered) + Len(inbox) + 1 + Len(inbound)

(* A pop that came after the reader found the inbox full left a permit.      *)
Asleep ==
  /\ ReaderSleepsOnlyWhenFull
  /\ rPc = "arm" /\ ~capPermit => ~Room(rFrame)

InInv == Ordered /\ Receiving /\ InBounded /\ Asleep

inVars == <<rPc, rFrame, inbox, inboxBytes, delivered, inbound, peerSent,
            capPermit>>

(* Nothing has arrived at the start.                                         *)
LEMMA InInit == Init => InInv
  BY FrameAssumption DEF Init, InInv, Ordered, Receiving, InBounded, Asleep,
    Holding, Held, DeliveredInOrder, ReaderSleepsOnlyWhenFull

(* Everything that is not in inVars is irrelevant to InInv.                  *)
LEMMA InFrame == InInv /\ UNCHANGED inVars => InInv'
  BY DEF InInv, Ordered, Receiving, InBounded, Asleep, Holding, Held,
    DeliveredInOrder, ReaderSleepsOnlyWhenFull, Room, inVars

(* Waking the reader sends it back to the check with its frame.              *)
LEMMA InWake ==
  ASSUME InInv, WakeCapacity,
         UNCHANGED <<rFrame, inbox, inboxBytes, delivered, inbound, peerSent,
                     capPermit>>
  PROVE  InInv'
<1>1. Held' = Held /\ Holding' = Holding
  BY DEF WakeCapacity, Held, Holding
<1>2. /\ rPc' # "waiting" /\ (rPc' = "arm" <=> rPc = "arm")
      /\ rPc' \in {"ending", "done"} <=> rPc \in {"ending", "done"}
  BY DEF WakeCapacity
<1>3. Ordered'
  BY <1>1 DEF InInv, Ordered, DeliveredInOrder
<1>4. Receiving'
  BY <1>1, <1>2 DEF InInv, Receiving
<1>5. InBounded'
  BY DEF InInv, InBounded
<1>6. Asleep'
  BY <1>2 DEF InInv, Asleep, ReaderSleepsOnlyWhenFull, Room
<1> QED
  BY <1>3, <1>4, <1>5, <1>6 DEF InInv

(* The types the inbound half works with.                                    *)
LEMMA InTypes ==
  ASSUME TypeInv
  PROVE  /\ inbox \in Seq(Frame) /\ delivered \in Seq(Frame)
         /\ inbound \in Seq(Frame) /\ peerSent \in Nat /\ inboxBytes \in Int
         /\ Holding => rFrame \in Frame
         /\ Len(inbox) \in Nat /\ Len(delivered) \in Nat /\ Len(inbound) \in Nat
  BY DEF TypeInv, TypeOK, ReaderTypes, CallTypes, PeerTypes, HeldFrames, Holding

(* next_message() takes the oldest frame.                                    *)
LEMMA InPop ==
  ASSUME TypeInv, InInv, Pop, UNCHANGED <<rFrame, inbound, peerSent>>
  PROVE  InInv'
<1>1. /\ inbox # <<>> /\ inbox' = Tail(inbox)
      /\ delivered' = Append(delivered, Head(inbox))
  BY DEF Pop
<1>2. /\ Head(inbox) \in Frame /\ Head(inbox) = inbox[1]
      /\ Len(inbox) \in Nat \ {0}
      /\ Len(inbox') = Len(inbox) - 1
      /\ \A i \in 1..Len(inbox') : inbox'[i] = inbox[i + 1]
  BY <1>1, InTypes, TailFacts
<1>3. /\ Len(delivered') = Len(delivered) + 1
      /\ \A i \in 1..Len(delivered) : delivered'[i] = delivered[i]
      /\ delivered'[Len(delivered) + 1] = Head(inbox)
  BY <1>1, <1>2, InTypes, AppendFacts
<1>4. Len(delivered') + Len(inbox') = Len(delivered) + Len(inbox)
  BY <1>2, <1>3, InTypes
<1>5. /\ Held' = Held /\ Holding' = Holding /\ rPc' # "waiting"
      /\ rPc' \in {"ending", "done"} <=> rPc \in {"ending", "done"}
      /\ rPc' = "arm" => capPermit'
  BY DEF Pop, NotifyCapacity, Held, Holding
<1>6. DeliveredInOrder'
  <2>1. inbox[1].seq = Len(delivered) + 1
    BY <1>2, InTypes DEF InInv, Ordered
  <2>2. ASSUME NEW i \in 1..Len(delivered') PROVE delivered'[i].seq = i
    <3>1. CASE i \in 1..Len(delivered)
      BY <1>3, <3>1 DEF InInv, Ordered, DeliveredInOrder
    <3>2. CASE i = Len(delivered) + 1
      BY <1>2, <1>3, <2>1, <3>2
    <3> QED
      BY <1>3, <3>1, <3>2, InTypes
  <2> QED
    BY <2>2 DEF DeliveredInOrder
<1>7. ASSUME NEW i \in 1..Len(inbox') PROVE inbox'[i].seq = Len(delivered') + i
  <2>1. i + 1 \in 1..Len(inbox) /\ inbox'[i] = inbox[i + 1]
    BY <1>2, InTypes
  <2>2. inbox[i + 1].seq = Len(delivered) + (i + 1)
    BY <2>1 DEF InInv, Ordered
  <2> QED
    BY <1>3, <2>1, <2>2, InTypes
<1>8. Holding' => rFrame'.seq = Len(delivered') + Len(inbox') + 1
  BY <1>4, <1>5 DEF InInv, Ordered
<1>9. Receiving'
  BY <1>4, <1>5 DEF InInv, Receiving
<1>10. InBounded'
  <2>1. MAX_INBOX_FRAMES \in Nat
    BY FrameAssumption
  <2> QED
    BY <1>2, <1>4, <2>1, InTypes DEF InInv, InBounded
<1>11. Asleep'
  BY <1>5 DEF Asleep, ReaderSleepsOnlyWhenFull
<1> QED
  BY <1>6, <1>7, <1>8, <1>9, <1>10, <1>11 DEF InInv, Ordered

(* The reader takes the next frame the peer wrote.                           *)
LEMMA InRead ==
  ASSUME TypeInv, InInv, ReaderRead
  PROVE  InInv'
<1>1. /\ rPc = "reading" /\ rPc' = "check" /\ inbound # <<>>
      /\ rFrame' = Head(inbound) /\ inbound' = Tail(inbound)
      /\ UNCHANGED <<inbox, inboxBytes, delivered, peerSent, capPermit>>
  BY DEF ReaderRead, ReaderUnchanged, othersVars, ReaderStep, peerVars
<1>2. /\ Head(inbound) \in Frame /\ Head(inbound) = inbound[1]
      /\ Len(inbound) \in Nat \ {0}
      /\ Len(inbound') = Len(inbound) - 1
      /\ \A i \in 1..Len(inbound') : inbound'[i] = inbound[i + 1]
  BY <1>1, InTypes, TailFacts
<1>3. Held = 0 /\ Held' = 1
  BY <1>1 DEF Held, Holding
<1>4. Ordered'
  <2>1. 1 \in 1..Len(inbound) /\ rFrame' = inbound[1]
    BY <1>1, <1>2
  <2>2. inbound[1].seq = Len(delivered) + Len(inbox) + Held + 1
    BY <1>1, <2>1 DEF InInv, Receiving
  <2>3. rFrame'.seq = Len(delivered) + Len(inbox) + 1
    BY <1>3, <2>1, <2>2, InTypes
  <2> QED
    BY <1>1, <2>3 DEF InInv, Ordered, DeliveredInOrder
<1>5. Receiving'
  <2> DEFINE base == Len(delivered) + Len(inbox)
  <2>1. base \in Nat /\ base' = base
    BY <1>1, InTypes
  <2>2. /\ \A i \in 1..Len(inbound) : inbound[i].seq = base + i
        /\ peerSent = base + Len(inbound)
    BY <1>1, <1>3, <2>1, InTypes DEF InInv, Receiving
  <2> HIDE DEF base
  <2>3. ASSUME NEW i \in 1..Len(inbound') PROVE inbound'[i].seq = base + 1 + i
    <3>1. i + 1 \in 1..Len(inbound) /\ inbound'[i] = inbound[i + 1]
      BY <1>2
    <3>2. inbound[i + 1].seq = base + (i + 1)
      BY <2>2, <3>1
    <3> QED
      BY <2>1, <3>1, <3>2
  <2>4. peerSent = base + 1 + Len(inbound')
    BY <1>2, <2>1, <2>2
  <2> QED
    BY <1>1, <1>3, <2>1, <2>3, <2>4 DEF Receiving, base
<1>6. InBounded'
  <2>1. peerSent = Len(delivered) + Len(inbox) + Len(inbound)
    BY <1>1, <1>3, InTypes DEF InInv, Receiving
  <2> QED
    BY <1>1, <1>2, <2>1, InTypes, FrameAssumption DEF InInv, InBounded
<1>7. Asleep'
  BY <1>1 DEF Asleep, ReaderSleepsOnlyWhenFull
<1> QED
  BY <1>4, <1>5, <1>6, <1>7 DEF InInv

(* The reader puts its frame behind the others.                              *)
LEMMA InPush ==
  ASSUME TypeInv, InInv, ReaderPush
  PROVE  InInv'
<1>1. /\ rPc = "offer" /\ rPc' = "notify" /\ Len(inbox) < MAX_INBOX_FRAMES
      /\ inbox' = Append(inbox, rFrame)
      /\ UNCHANGED <<inbound, delivered, peerSent, capPermit>>
  BY DEF ReaderPush, Room, ReaderUnchanged, othersVars, ReaderStep, peerVars
<1>2. Holding /\ ~Holding' /\ Held = 1 /\ Held' = 0
  BY <1>1 DEF Held, Holding
<1>3. /\ Len(inbox') = Len(inbox) + 1
      /\ \A i \in 1..Len(inbox) : inbox'[i] = inbox[i]
      /\ inbox'[Len(inbox) + 1] = rFrame
  BY <1>1, <1>2, InTypes, AppendFacts
<1>4. Ordered'
  <2>1. ASSUME NEW i \in 1..Len(inbox') PROVE inbox'[i].seq = Len(delivered) + i
    <3>1. CASE i \in 1..Len(inbox)
      BY <1>3, <3>1 DEF InInv, Ordered
    <3>2. CASE i = Len(inbox) + 1
      BY <1>2, <1>3, <3>2, InTypes DEF InInv, Ordered
    <3> QED
      BY <1>3, <3>1, <3>2, InTypes
  <2> QED
    BY <1>1, <1>2, <2>1 DEF InInv, Ordered, DeliveredInOrder
<1>5. Receiving'
  BY <1>1, <1>2, <1>3, InTypes DEF InInv, Receiving
<1>6. InBounded'
  <2>1. peerSent = Len(delivered) + Len(inbox) + 1 + Len(inbound)
    BY <1>1, <1>2, InTypes DEF InInv, Receiving
  <2> QED
    BY <1>1, <1>3, <2>1, InTypes, FrameAssumption DEF InInv, InBounded
<1>7. Asleep'
  BY <1>1 DEF Asleep, ReaderSleepsOnlyWhenFull
<1> QED
  BY <1>4, <1>5, <1>6, <1>7 DEF InInv

(* The reader's other steps move no frame except to drop the one it holds.   *)
LEMMA InReader ==
  ASSUME TypeInv, InInv, Reader, ~ReaderRead, ~ReaderPush
  PROVE  InInv'
<1>1. UNCHANGED <<inbound, inbox, inboxBytes, delivered, peerSent>>
  BY DEF Reader, ReaderEof, ReaderCancel, ReaderCheck, ReaderFull, ReaderArm,
    ReaderNotify, ReaderPublish, ReaderUnchanged, othersVars, ReaderStep,
    peerVars
<1>2. InBounded'
  BY <1>1 DEF InInv, InBounded
<1>3. CASE ReaderEof \/ ReaderCancel \/ ReaderPublish
  <2>1. rPc' \in {"ending", "done"}
    BY <1>3 DEF ReaderEof, ReaderCancel, ReaderPublish, ReaderStep
  <2>2. Ordered' /\ Receiving'
    BY <1>1, <2>1 DEF InInv, Ordered, DeliveredInOrder, Receiving, Holding
  <2>3. Asleep'
    BY <2>1 DEF Asleep, ReaderSleepsOnlyWhenFull
  <2> QED
    BY <1>2, <2>2, <2>3 DEF InInv
<1>4. CASE ReaderCheck \/ ReaderFull \/ ReaderArm \/ ReaderNotify
  <2>1. /\ Held' = Held /\ Holding' = Holding /\ rFrame' = rFrame
        /\ rPc \notin {"ending", "done"}
    BY <1>4 DEF ReaderCheck, ReaderFull, ReaderArm, ReaderNotify, ReaderStep,
      Held, Holding
  <2>2. Ordered' /\ Receiving'
    BY <1>1, <2>1 DEF InInv, Ordered, DeliveredInOrder, Receiving
  <2>3. Asleep'
    BY <1>1, <1>4, <2>1 DEF InInv, Asleep, ReaderSleepsOnlyWhenFull, Room,
      ReaderCheck, ReaderFull, ReaderArm, ReaderNotify, ReaderStep
  <2> QED
    BY <1>2, <2>2, <2>3 DEF InInv
<1> QED
  BY <1>3, <1>4 DEF Reader

(* The peer writes one more frame.                                           *)
LEMMA InPeerSend ==
  ASSUME TypeInv, InInv, PeerSend
  PROVE  InInv'
<1>1. PICK n \in 1..MAX_FRAME_BYTES :
        inbound' = Append(inbound, [seq |-> peerSent + 1, len |-> n])
  BY DEF PeerSend
<1>2. /\ peerSent' = peerSent + 1 /\ Len(inbound) < Window
      /\ UNCHANGED <<rPc, rFrame, inbox, inboxBytes, delivered, capPermit>>
  BY DEF PeerSend, PeerUnchanged, recvVars
<1> DEFINE f == [seq |-> peerSent + 1, len |-> n]
<1>3. peerSent + 1 \in Nat /\ f.seq = peerSent + 1
  BY InTypes
<1>4. f \in Frame
  BY <1>3, FrameFacts
<1> HIDE DEF f
<1>5. /\ Len(inbound') = Len(inbound) + 1
      /\ \A i \in 1..Len(inbound) : inbound'[i] = inbound[i]
      /\ inbound'[Len(inbound) + 1] = f
  BY <1>1, <1>4, InTypes, AppendFacts DEF f
<1>6. Held' = Held /\ Holding' = Holding /\ Held \in {0, 1}
  BY <1>2 DEF Held, Holding
<1>7. Ordered'
  BY <1>2, <1>6 DEF InInv, Ordered, DeliveredInOrder
<1>8. Receiving'
  <2> SUFFICES ASSUME rPc \notin {"ending", "done"} PROVE Receiving'
    BY <1>2 DEF Receiving
  <2> DEFINE base == Len(delivered) + Len(inbox) + Held
  <2>1. base \in Nat /\ base' = base
    BY <1>2, <1>6, InTypes
  <2>2. /\ \A i \in 1..Len(inbound) : inbound[i].seq = base + i
        /\ peerSent = base + Len(inbound)
    BY DEF InInv, Receiving
  <2> HIDE DEF base
  <2>3. ASSUME NEW i \in 1..Len(inbound') PROVE inbound'[i].seq = base + i
    <3>1. CASE i \in 1..Len(inbound)
      BY <1>5, <2>2, <3>1
    <3>2. CASE i = Len(inbound) + 1
      BY <1>3, <1>5, <2>1, <2>2, <3>2, InTypes
    <3> QED
      BY <1>5, <3>1, <3>2, InTypes
  <2>4. peerSent' = base + Len(inbound')
    BY <1>2, <1>5, <2>1, <2>2, InTypes
  <2> QED
    BY <2>1, <2>3, <2>4 DEF Receiving, base
<1>9. InBounded'
  BY <1>2, <1>5, InTypes, FrameAssumption DEF InInv, InBounded
<1>10. Asleep'
  BY <1>2 DEF InInv, Asleep, ReaderSleepsOnlyWhenFull, Room
<1> QED
  BY <1>7, <1>8, <1>9, <1>10 DEF InInv

(* Every step keeps the numbering of the inbound frames.                     *)
LEMMA InStep == TypeInv /\ InInv /\ [Next]_vars => InInv'
<1> SUFFICES ASSUME TypeInv, InInv, [Next]_vars PROVE InInv'
  OBVIOUS
<1>1. CASE Close \/ WriterPublish
  BY <1>1, InWake DEF Close, WriterPublish, WriterUnchanged, taskVars, peerVars,
    recvVars
<1>2. CASE Reader
  BY <1>2, InRead, InPush, InReader
<1>3. CASE PeerSend
  BY <1>3, InPeerSend
<1>4. ASSUME NEW r \in Receivers, ReturnFrame(r), NextUnchanged PROVE InInv'
  BY <1>4, InPop DEF ReturnFrame, NextUnchanged, peerVars
<1>5. ASSUME NEW r \in Receivers, NextCall(r) \/ NextStep(r),
             ~(ReturnFrame(r) /\ NextUnchanged)
      PROVE  InInv'
  <2>1. UNCHANGED inVars
    BY <1>5 DEF inVars, NextCall, NextStep, NextFast, NextCheckClosed, NextArm,
      NextTimeout, NextSlow, ReturnNull, NextUnchanged, peerVars, recvVars
  <2> QED
    BY <2>1, InFrame
<1>6. ASSUME NEW s \in Senders, SendCall(s) \/ SendStep(s) PROVE InInv'
  <2>1. UNCHANGED inVars
    BY <1>6 DEF inVars, SendCall, SendStep, SendCheckClosed, SendAcquire,
      SendNoCapacity, SendEnqueue, SendRefused, SendTo, ChannelFull, peerVars,
      recvVars
  <2> QED
    BY <2>1, InFrame
<1>7. CASE \/ Insert \/ Gone \/ UNCHANGED vars
           \/ WriterTake \/ WriterWrite \/ WriterFail \/ WriterCancel \/ WriterEof
           \/ WriterDropRx \/ WriterDropFrame \/ WriterExit
           \/ PeerFinish \/ PeerRead \/ PeerSeesFin \/ PeerStop \/ LoseConnection
  <2>1. UNCHANGED inVars
    BY <1>7 DEF inVars, Insert, Gone, vars, WriterTake, WriterWrite, WriterFail,
      WriterCancel, WriterEof, WriterDropRx, WriterDropFrame, WriterExit,
      WriterUnchanged, taskVars, LeaveLoop, PeerFinish, PeerRead, PeerSeesFin,
      PeerStop, LoseConnection, PeerUnchanged, peerVars, recvVars
  <2> QED
    BY <2>1, InFrame
<1> QED
  BY <1>1, <1>2, <1>3, <1>4, <1>5, <1>6, <1>7 DEF Next, Writer, Peer

(* So it holds in every behaviour.                                           *)
LEMMA InAlways == Spec => [](TypeInv /\ InInv)
  BY TypeInit, TypeStep, InInit, InStep, PTL DEF Spec

(* Threads calling next_message() are handed the peer's frames in order and  *)
(* without gap or repetition, whatever closes the stream meanwhile.          *)
THEOREM DeliveredInOrderAlways == Spec => []DeliveredInOrder
<1>1. InInv => DeliveredInOrder
  BY DEF InInv, Ordered
<1> QED
  BY <1>1, InAlways, PTL

(* The backpressured reader task never misses a wake-up: it sleeps only      *)
(* while its frame does not fit.                                             *)
THEOREM ReaderSleepsOnlyWhenFullAlways == Spec => []ReaderSleepsOnlyWhenFull
<1>1. InInv => ReaderSleepsOnlyWhenFull
  BY DEF InInv, Asleep
<1> QED
  BY <1>1, InAlways, PTL

-----------------------------------------------------------------------------
(* Refinement: each direction is a bounded FIFO that may be cut.             *)

(* Each step is an Accept, a Deliver or an End of the outbound channel, or   *)
(* invisible in it.                                                          *)
LEMMA OutboundStep ==
  TypeInv /\ OutInv /\ TypeInv' /\ OutInv' /\ [Next]_vars
    => [Outbound!Next]_(Outbound!vars)
<1> SUFFICES ASSUME TypeInv, OutInv, OutInv', [Next]_vars
             PROVE  [Outbound!Next]_(Outbound!vars)
  OBVIOUS
<1>t. /\ queue \in Seq(Frame) /\ wire \in Seq(Frame) /\ peerGot \in Seq(Frame)
      /\ accepted \in Nat /\ peerSawFin \in BOOLEAN
      /\ Len(queue) \in Nat /\ Len(wire) \in Nat /\ Len(peerGot) \in Nat
  BY DEF TypeInv, TypeOK, SendTypes, PeerTypes
<1>1. ASSUME NEW s \in Senders, SendEnqueue(s) PROVE Outbound!Accept
  <2>1. /\ accepted' = accepted + 1 /\ UNCHANGED <<peerGot, peerSawFin>>
        /\ rxOpen /\ Len(queue) < SEND_QUEUE_FRAMES /\ sPc[s] = "enqueue"
    BY <1>t, <1>1, FrameAssumption DEF SendEnqueue, SendTo, ChannelFull,
      peerVars
  <2>2. ~peerSawFin
    BY <2>1 DEF OutInv, Finished
  <2>3. accepted - Len(peerGot) < SEND_QUEUE_FRAMES + 1 + Window
    BY <1>t, <2>1, FrameAssumption DEF OutInv, Bounded
  <2> QED
    BY <2>1, <2>2, <2>3 DEF Outbound!Accept
<1>2. CASE PeerRead
  <2>1. /\ wire # <<>> /\ peerGot' = Append(peerGot, Head(wire))
        /\ UNCHANGED <<accepted, peerSawFin>>
    BY <1>2 DEF PeerRead, PeerUnchanged, sendVars
  <2>2. /\ Head(wire) \in Frame /\ Head(wire) = wire[1] /\ 1 \in 1..Len(wire)
    BY <1>t, <2>1, TailFacts
  <2>3. Head(wire) \in [seq : {Len(peerGot) + 1}, len : 1..MAX_FRAME_BYTES]
    BY <2>2 DEF OutInv, Numbered, Frame
  <2>4. ~peerSawFin /\ Len(peerGot) < accepted
    BY <1>t, <2>1, <2>2 DEF OutInv, Finished, Bounded
  <2> QED
    BY <2>1, <2>3, <2>4 DEF Outbound!Next, Outbound!Deliver
<1>3. CASE PeerSeesFin
  <2>1. Len(peerGot) = accepted
    BY <1>3, <1>t DEF PeerSeesFin, OutInv, Finished
  <2> QED
    BY <1>3, <2>1 DEF PeerSeesFin, PeerUnchanged, sendVars, Outbound!Next,
      Outbound!End
<1>4. ASSUME NEW s \in Senders, SendCall(s) \/ SendStep(s), ~SendEnqueue(s)
      PROVE  UNCHANGED <<accepted, peerGot, peerSawFin>>
  BY <1>4 DEF SendCall, SendStep, SendCheckClosed, SendAcquire, SendNoCapacity,
    SendRefused, SendTo, ChannelFull, peerVars
<1>5. ASSUME NEW r \in Receivers, NextCall(r) \/ NextStep(r)
      PROVE  UNCHANGED <<accepted, peerGot, peerSawFin>>
  BY <1>5 DEF NextCall, NextStep, NextFast, NextCheckClosed, NextArm,
    NextTimeout, NextSlow, NextUnchanged, sendVars, peerVars
<1>6. CASE \/ Writer \/ Reader
           \/ Insert \/ Close \/ Gone \/ UNCHANGED vars
           \/ PeerSend \/ PeerFinish \/ PeerStop \/ LoseConnection
  <2>1. UNCHANGED <<accepted, peerGot, peerSawFin>>
    BY <1>6 DEF Writer, WriterTake, WriterWrite, WriterFail, WriterCancel,
      WriterEof, WriterPublish, WriterDropRx, WriterDropFrame, WriterExit,
      WriterUnchanged, taskVars, LeaveLoop, Reader, ReaderRead, ReaderEof,
      ReaderCancel, ReaderCheck, ReaderPush, ReaderFull, ReaderArm,
      ReaderNotify, ReaderPublish, ReaderUnchanged, othersVars, ReaderStep,
      Insert, Close, Gone, vars, PeerSend, PeerFinish, PeerStop, LoseConnection,
      PeerUnchanged, sendVars, peerVars
  <2> QED
    BY <2>1 DEF Outbound!vars
<1> QED
  BY <1>1, <1>2, <1>3, <1>4, <1>5, <1>6 DEF Next, Peer, Outbound!Next,
    Outbound!vars

(* send(), the channel and the writer task implement the bounded FIFO.       *)
THEOREM OutboundRefines == Spec => OutboundIsChannel
<1>1. Init => Outbound!Init
  BY DEF Init, Outbound!Init
<1> QED
  BY <1>1, OutAlways, OutboundStep, PTL DEF Spec, OutboundIsChannel,
    Outbound!Spec

(* Each step is an Accept or a Deliver of the inbound channel, or invisible  *)
(* in it.                                                                    *)
LEMMA InboundStep ==
  TypeInv /\ InInv /\ [Next]_vars => [Inbound!Next]_(Inbound!vars)
<1> SUFFICES ASSUME TypeInv, InInv, [Next]_vars
             PROVE  [Inbound!Next]_(Inbound!vars)
  OBVIOUS
<1>1. CASE PeerSend
  <2>1. peerSent' = peerSent + 1 /\ Len(inbound) < Window /\ UNCHANGED delivered
    BY <1>1 DEF PeerSend, PeerUnchanged, recvVars
  <2>2. peerSent - Len(delivered) < MAX_INBOX_FRAMES + 1 + Window
    BY <2>1, InTypes, FrameAssumption DEF InInv, InBounded
  <2> QED
    BY <2>1, <2>2 DEF Inbound!Next, Inbound!Accept
<1>2. ASSUME Pop, UNCHANGED peerSent PROVE Inbound!Next
  <2>1. inbox # <<>> /\ delivered' = Append(delivered, Head(inbox))
    BY <1>2 DEF Pop
  <2>2. Head(inbox) \in Frame /\ Head(inbox) = inbox[1] /\ 1 \in 1..Len(inbox)
    BY <2>1, InTypes, TailFacts
  <2>3. Head(inbox) \in [seq : {Len(delivered) + 1}, len : 1..MAX_FRAME_BYTES]
    BY <2>2 DEF InInv, Ordered, Frame
  <2>4. Len(delivered) < peerSent
    BY <2>2, InTypes DEF InInv, InBounded
  <2> QED
    BY <1>2, <2>1, <2>3, <2>4 DEF Inbound!Next, Inbound!Deliver
<1>3. ASSUME NEW r \in Receivers, NextCall(r) \/ NextStep(r),
             ~(Pop /\ UNCHANGED peerSent)
      PROVE  UNCHANGED <<peerSent, delivered>>
  BY <1>3 DEF NextCall, NextStep, NextFast, NextCheckClosed, NextArm,
    NextTimeout, NextSlow, ReturnFrame, ReturnNull, NextUnchanged, recvVars,
    peerVars
<1>4. ASSUME NEW s \in Senders, SendCall(s) \/ SendStep(s)
      PROVE  UNCHANGED <<peerSent, delivered>>
  BY <1>4 DEF SendCall, SendStep, SendCheckClosed, SendAcquire, SendNoCapacity,
    SendEnqueue, SendRefused, SendTo, ChannelFull, recvVars, peerVars
<1>5. CASE \/ Writer \/ Reader
           \/ Insert \/ Close \/ Gone \/ UNCHANGED vars
           \/ PeerFinish \/ PeerRead \/ PeerSeesFin \/ PeerStop \/ LoseConnection
  <2>1. UNCHANGED <<peerSent, delivered>>
    BY <1>5 DEF Writer, WriterTake, WriterWrite, WriterFail, WriterCancel,
      WriterEof, WriterPublish, WriterDropRx, WriterDropFrame, WriterExit,
      WriterUnchanged, taskVars, LeaveLoop, Reader, ReaderRead, ReaderEof,
      ReaderCancel, ReaderCheck, ReaderPush, ReaderFull, ReaderArm,
      ReaderNotify, ReaderPublish, ReaderUnchanged, othersVars, ReaderStep,
      Insert, Close, Gone, vars, PeerFinish, PeerRead, PeerSeesFin, PeerStop,
      LoseConnection, PeerUnchanged, recvVars, peerVars
  <2> QED
    BY <2>1 DEF Inbound!vars
<1> QED
  BY <1>1, <1>2, <1>3, <1>4, <1>5 DEF Next, Peer, Inbound!vars

(* The reader task, the inbox and next_message() implement it too.           *)
THEOREM InboundRefines == Spec => InboundIsChannel
<1>1. Init => Inbound!Init
  BY DEF Init, Inbound!Init
<1> QED
  BY <1>1, InAlways, InboundStep, PTL DEF Spec, InboundIsChannel, Inbound!Spec

-----------------------------------------------------------------------------
(* Refinement: what the JavaScript layer sees of a connection.               *)

PeerBound == peerSent \in 0..MaxPeerFrames

(* The peer keeps to the bound of the model.                                 *)
LEMMA PeerBoundStep == TypeInv /\ PeerBound /\ [Next]_vars => PeerBound'
<1> SUFFICES ASSUME TypeInv, PeerBound, [Next]_vars PROVE PeerBound'
  OBVIOUS
<1>1. CASE PeerSend
  BY <1>1, FrameAssumption DEF PeerSend, PeerBound
<1>2. ASSUME NEW r \in Receivers, NextCall(r) \/ NextStep(r) PROVE PeerBound'
  BY <1>2 DEF NextCall, NextStep, NextFast, NextCheckClosed, NextArm, NextTimeout,
    NextSlow, NextUnchanged, peerVars, PeerBound
<1>3. ASSUME NEW s \in Senders, SendCall(s) \/ SendStep(s) PROVE PeerBound'
  BY <1>3 DEF SendCall, SendStep, SendCheckClosed, SendAcquire, SendNoCapacity,
    SendEnqueue, SendRefused, SendTo, ChannelFull, peerVars, PeerBound
<1>4. CASE \/ Writer \/ Reader \/ Insert \/ Close \/ Gone \/ UNCHANGED vars
           \/ PeerFinish \/ PeerRead \/ PeerSeesFin \/ PeerStop \/ LoseConnection
  BY <1>4 DEF Writer, WriterTake, WriterWrite, WriterFail, WriterCancel, WriterEof,
    WriterPublish, WriterDropRx, WriterDropFrame, WriterExit, WriterUnchanged,
    taskVars, LeaveLoop, Reader, ReaderRead, ReaderEof, ReaderCancel, ReaderCheck,
    ReaderPush, ReaderFull, ReaderArm, ReaderNotify, ReaderPublish,
    ReaderUnchanged, othersVars, ReaderStep, Insert, Close, Gone, vars, PeerFinish,
    PeerRead, PeerSeesFin, PeerStop, LoseConnection, PeerUnchanged, peerVars,
    PeerBound
<1> QED
  BY <1>1, <1>2, <1>3, <1>4 DEF Next, Peer

SameNative ==
  /\ UNCHANGED <<entry, closed, inbox, delivered>>
  /\ (rPc' = "done") = (rPc = "done")

(* Each step is one of NativeStream, or JavaScript cannot see it.            *)
LEMMA NativeStep ==
  TypeInv /\ InInv /\ PeerBound /\ [Next]_vars
    => [Native!Insert \/ Native!NativeTasks \/ Native!Pop
          \/ Native!Release]_(Native!nativeVars)
<1> DEFINE Step == [Native!Insert \/ Native!NativeTasks \/ Native!Pop
                      \/ Native!Release]_(Native!nativeVars)
<1> SUFFICES ASSUME TypeInv, InInv, PeerBound, [Next]_vars PROVE Step
  OBVIOUS
<1>s. SameNative => Step
  BY DEF SameNative, Native!nativeVars
<1>w. WakeCapacity => (rPc' = "done") = (rPc = "done")
  BY DEF WakeCapacity
<1>1. CASE Insert
  BY <1>1 DEF Insert, Native!Insert, recvVars
<1>2. CASE Close
  BY <1>2, <1>w DEF Close, Native!Release, recvVars
<1>3. CASE WriterPublish
  <2>1. /\ closed' = TRUE /\ UNCHANGED <<entry, inbox, delivered>>
        /\ (rPc' = "done") = (rPc = "done")
    BY <1>3, <1>w DEF WriterPublish, taskVars, recvVars
  <2>2. CASE closed
    <3>1. closed = TRUE
      BY <2>2 DEF TypeInv, TypeOK, CloseTypes
    <3> QED
      BY <2>1, <3>1, <1>s DEF SameNative
  <2>3. CASE ~closed
    BY <2>1, <2>3 DEF Native!WriterEnds, Native!NativeTasks
  <2> QED
    BY <2>2, <2>3
<1>4. CASE ReaderPush
  <2>1. /\ rPc = "offer" /\ rPc' = "notify" /\ Len(inbox) < MAX_INBOX_FRAMES
        /\ inbox' = Append(inbox, rFrame) /\ UNCHANGED <<entry, closed, delivered>>
    BY <1>4 DEF ReaderPush, Room, ReaderUnchanged, othersVars, ReaderStep
  <2>2. Holding /\ Held = 1
    BY <2>1 DEF Held, Holding
  <2>3. Len(inbox') = Len(inbox) + 1
    BY <2>1, <2>2, InTypes, AppendFacts
  <2>4. peerSent = Len(delivered) + Len(inbox) + 1 + Len(inbound)
    BY <2>1, <2>2, InTypes DEF InInv, Receiving
  <2>5. Len(delivered) + Len(inbox) < MaxPeerFrames
    BY <2>4, InTypes, FrameAssumption DEF PeerBound
  <2>6. /\ (Len(delivered) + Len(inbox)) - Len(delivered) < MAX_INBOX_FRAMES
        /\ Len(delivered) + Len(inbox') = Len(delivered) + Len(inbox) + 1
    BY <2>1, <2>3, InTypes, FrameAssumption
  <2>7. Native!Arrive
    BY <2>1, <2>5, <2>6 DEF Native!Arrive
  <2> QED
    BY <2>7 DEF Native!NativeTasks
<1>5. CASE ReaderPublish
  BY <1>5 DEF ReaderPublish, othersVars, Native!ReaderEnds, Native!NativeTasks
<1>6. CASE \/ ReaderRead \/ ReaderEof \/ ReaderCancel \/ ReaderCheck \/ ReaderFull
           \/ ReaderArm \/ ReaderNotify
  <2>1. SameNative
    BY <1>6 DEF SameNative, ReaderRead, ReaderEof, ReaderCancel, ReaderCheck,
      ReaderFull, ReaderArm, ReaderNotify, ReaderUnchanged, othersVars, ReaderStep
  <2> QED
    BY <1>s, <2>1
<1>7. ASSUME NEW r \in Receivers, ReturnFrame(r), NextUnchanged PROVE Step
  <2>1. /\ inbox # <<>> /\ inbox' = Tail(inbox)
        /\ delivered' = Append(delivered, Head(inbox))
        /\ UNCHANGED <<entry, closed>> /\ (rPc' = "done") = (rPc = "done")
    BY <1>7 DEF ReturnFrame, Pop, NotifyCapacity, NextUnchanged, closeVars
  <2>2. /\ Head(inbox) \in Frame /\ Len(inbox) \in Nat \ {0}
        /\ Len(inbox') = Len(inbox) - 1
    BY <2>1, InTypes, TailFacts
  <2>3. Len(delivered') = Len(delivered) + 1
    BY <2>1, <2>2, InTypes, AppendFacts
  <2>4. /\ Len(delivered) < Len(delivered) + Len(inbox)
        /\ Len(delivered') + Len(inbox') = Len(delivered) + Len(inbox)
    BY <2>2, <2>3, InTypes
  <2> QED
    BY <2>1, <2>3, <2>4 DEF Native!Pop
<1>8. ASSUME NEW r \in Receivers, NextCall(r) \/ NextStep(r),
             ~(ReturnFrame(r) /\ NextUnchanged)
      PROVE  Step
  <2>1. SameNative
    BY <1>8 DEF SameNative, NextCall, NextStep, NextFast, NextCheckClosed, NextArm,
      NextTimeout, NextSlow, ReturnNull, NextUnchanged, recvVars, closeVars
  <2> QED
    BY <1>s, <2>1
<1>9. ASSUME NEW s \in Senders, SendCall(s) \/ SendStep(s) PROVE Step
  <2>1. SameNative
    BY <1>9 DEF SameNative, SendCall, SendStep, SendCheckClosed, SendAcquire,
      SendNoCapacity, SendEnqueue, SendRefused, SendTo, ChannelFull, recvVars,
      closeVars
  <2> QED
    BY <1>s, <2>1
<1>10. CASE \/ Peer \/ Gone \/ UNCHANGED vars
            \/ WriterTake \/ WriterWrite \/ WriterFail \/ WriterCancel \/ WriterEof
            \/ WriterDropRx \/ WriterDropFrame \/ WriterExit
  <2>1. SameNative
    BY <1>10 DEF SameNative, Peer, PeerSend, PeerFinish, PeerRead, PeerSeesFin,
      PeerStop, LoseConnection, PeerUnchanged, Gone, vars, WriterTake, WriterWrite,
      WriterFail, WriterCancel, WriterEof, WriterDropRx, WriterDropFrame,
      WriterExit, WriterUnchanged, taskVars, LeaveLoop, recvVars, closeVars
  <2> QED
    BY <1>s, <2>1
<1> HIDE DEF Step
<1> QED
  BY <1>1, <1>2, <1>3, <1>4, <1>5, <1>6, <1>7, <1>8, <1>9, <1>10
  DEF Next, Writer, Reader

(* Seen through next_message(), is_stream_open() and close(), a connection   *)
(* is a NativeStream, on which JsStream is built.                            *)
THEOREM NativeRefines == Spec => ConnectionIsNative
<1>1. Init => Native!NativeInit /\ PeerBound
  BY FrameAssumption DEF Init, Native!NativeInit, PeerBound
<1> QED
  BY <1>1, InAlways, PeerBoundStep, NativeStep, PTL DEF Spec, ConnectionIsNative,
    Native!NativeSpec

-----------------------------------------------------------------------------
(* Accounting: the bytes of a queue change with its head and its end.        *)

(* The length of a frame is a number.                                        *)
LEMMA FrameLength == \A f \in Frame : f.len \in Int
BY FrameAssumption DEF Frame

(* The equation of the fold in Bytes.                                        *)
BytesEquation(it, q) ==
  it = [s \in SUBSET DOMAIN q |->
          IF s = {} THEN 0
          ELSE q[CHOOSE i \in s : TRUE].len + it[s \ {CHOOSE i \in s : TRUE}]]

(* Bytes is the sum of the lengths: the fold that defines it satisfies the   *)
(* equation of the fold that defines the sum.                                *)
LEMMA BytesAreSum ==
  ASSUME NEW q \in Seq(Frame)
  PROVE  Bytes(q) = SumFunctionOnSet([i \in 1..Len(q) |-> q[i].len], 1..Len(q))
<1> DEFINE S == 1..Len(q)
           v == [i \in S |-> q[i].len]
<1>1. IsFiniteSet(S) /\ DOMAIN q = S
  BY FS_Interval
<1>2. \A i \in S : v[i] \in Int /\ v[i] = q[i].len
  BY FrameLength
<1>3. Bytes(q) = (CHOOSE it : BytesEquation(it, q))[DOMAIN q]
  BY DEF Bytes, FoldSeq, FoldFunction, FoldFunctionOnSet, MapThenFoldSet,
    BytesEquation
<1>4. SumFunctionOnSet(v, S) = (CHOOSE it : FoldEquation(it, v, S))[S]
  BY DEF SumFunctionOnSet, FoldFunctionOnSet, MapThenFoldSet, FoldEquation
<1> HIDE DEF v
<1>5. ASSUME NEW it PROVE BytesEquation(it, q) <=> FoldEquation(it, v, S)
  <2> DEFINE first(s) == CHOOSE i \in s : TRUE
             l == [s \in SUBSET S |-> IF s = {} THEN 0
                                      ELSE v[first(s)] + it[s \ {first(s)}]]
             r == [s \in SUBSET S |-> IF s = {} THEN 0
                                      ELSE q[first(s)].len + it[s \ {first(s)}]]
  <2>1. \A s \in SUBSET S : s # {} => v[first(s)] = q[first(s)].len
    BY <1>2
  <2>2. \A s \in SUBSET S : l[s] = r[s]
    BY <2>1
  <2>3. l = r
    BY <2>2
  <2>4. (it = l) <=> (it = r)
    BY <2>3
  <2> QED
    BY <1>1, <2>4, Zenon DEF BytesEquation, FoldEquation
<1>6. \A it : BytesEquation(it, q) => IsSum(it, v, S)
  BY <1>1, <1>2, <1>5, EquationSum
<1>7. \E it : BytesEquation(it, q)
  BY <1>1, <1>2, <1>5, EquationSum
<1>8. BytesEquation(CHOOSE it : BytesEquation(it, q), q)
  BY <1>7, Zenon
<1>9. IsSum(CHOOSE it : BytesEquation(it, q), v, S)
  BY <1>6, <1>8
<1>10. PICK b : IsSum(b, v, S) /\ SumFunctionOnSet(v, S) = b[S]
  BY <1>1, <1>2, SumFold
<1> DEFINE a == CHOOSE it : BytesEquation(it, q)
<1> HIDE DEF a, S
<1>11. a[S] = b[S]
  BY <1>1, <1>9, <1>10, SumUnique DEF a
<1> QED
  BY <1>1, <1>3, <1>10, <1>11 DEF a, S, v

(* What Bytes is of no frame, of one more and of one less.                   *)
LEMMA BytesFacts ==
  ASSUME NEW q \in Seq(Frame)
  PROVE  /\ Bytes(<<>>) = 0 /\ Bytes(q) \in Int
         /\ \A f \in Frame : Bytes(Append(q, f)) = Bytes(q) + f.len
         /\ q # <<>> => Bytes(q) = Head(q).len + Bytes(Tail(q))
<1> DEFINE lens(p) == [i \in 1..Len(p) |-> p[i].len]
<1>l. ASSUME NEW p \in Seq(Frame) PROVE
        /\ Bytes(p) = SumFunctionOnSet(lens(p), 1..Len(p))
        /\ IsFiniteSet(1..Len(p)) /\ Len(p) \in Nat
        /\ \A i \in 1..Len(p) : lens(p)[i] \in Int /\ lens(p)[i] = p[i].len
  BY BytesAreSum, FrameLength, FS_Interval
<1> HIDE DEF lens
<1>1. Bytes(<<>>) = 0
  <2>1. <<>> \in Seq(Frame) /\ 1..Len(<<>>) = {}
    OBVIOUS
  <2> QED
    BY <1>l, <2>1, SumInt
<1>2. Bytes(q) \in Int
  BY <1>l, SumInt
<1>3. ASSUME NEW f \in Frame PROVE Bytes(Append(q, f)) = Bytes(q) + f.len
  <2> DEFINE p == Append(q, f)
  <2>1. /\ p \in Seq(Frame) /\ Len(p) = Len(q) + 1 /\ p[Len(q) + 1] = f
        /\ \A i \in 1..Len(q) : p[i] = q[i]
    OBVIOUS
  <2> HIDE DEF p
  <2>2. 1..Len(p) = (1..Len(q)) \cup {Len(q) + 1} /\ Len(q) + 1 \notin 1..Len(q)
    BY <1>l, <2>1
  <2>3. lens(p)[Len(q) + 1] = f.len /\ f.len \in Int
    BY <1>l, <2>1, <2>2, FrameLength
  <2>4. \A i \in 1..Len(q) : lens(p)[i] \in Int /\ lens(p)[i] = lens(q)[i]
    BY <1>l, <2>1, <2>2
  <2>s. SumFunctionOnSet(lens(p), (1..Len(q)) \cup {Len(q) + 1})
          = lens(p)[Len(q) + 1] + SumFunctionOnSet(lens(p), 1..Len(q))
    <3> DEFINE S == 1..Len(q)
               v == lens(p)
               y == Len(q) + 1
    <3>1. IsFiniteSet(S) /\ (\A i \in S : v[i] \in Int) /\ y \notin S /\ v[y] \in Int
      BY <1>l, <2>2, <2>3, <2>4
    <3> HIDE DEF S, v, y
    <3>2. SumFunctionOnSet(v, S \cup {y}) = v[y] + SumFunctionOnSet(v, S)
      BY <3>1, SumWith
    <3> QED
      BY <3>2 DEF S, v, y
  <2>5. SumFunctionOnSet(lens(p), 1..Len(p))
          = f.len + SumFunctionOnSet(lens(p), 1..Len(q))
    BY <2>2, <2>3, <2>s
  <2>6. SumFunctionOnSet(lens(p), 1..Len(q)) = SumFunctionOnSet(lens(q), 1..Len(q))
    BY <1>l, <2>4, SumSame
  <2>7. Bytes(p) = f.len + Bytes(q)
    BY <1>l, <2>1, <2>5, <2>6
  <2> QED
    BY <1>2, <2>3, <2>7 DEF p
<1>4. ASSUME q # <<>> PROVE Bytes(q) = Head(q).len + Bytes(Tail(q))
  <2> DEFINE t == Tail(q)
  <2>1. /\ t \in Seq(Frame) /\ Len(q) = Len(t) + 1 /\ q[1] = Head(q)
        /\ \A i \in 1..Len(t) : t[i] = q[i + 1]
    BY <1>4
  <2> HIDE DEF t
  <2>2. /\ Len(t) \in Nat /\ 1 \in 1..Len(q)
        /\ \A i \in 1..Len(t) : i \in 1..Len(q) /\ i + 1 \in 1..Len(q)
    BY <1>l, <2>1
  <2>3. \A i \in 1..Len(t) : lens(t)[i] = lens(q)[i + 1]
    BY <1>l, <2>1, <2>2
  <2>4. SumFunctionOnSet(lens(t), 1..Len(t))
          = SumFunctionOnSet(lens(q), (1..Len(q)) \ {1})
    BY <1>l, <2>1, <2>2, <2>3, SumShift
  <2>5. SumFunctionOnSet(lens(q), 1..Len(q))
          = lens(q)[1] + SumFunctionOnSet(lens(q), (1..Len(q)) \ {1})
    BY <1>l, <2>2, SumWithout
  <2>6. lens(q)[1] = Head(q).len
    BY <1>l, <2>1, <2>2
  <2> QED
    BY <1>l, <2>1, <2>4, <2>5, <2>6 DEF t
<1> QED
  BY <1>1, <1>2, <1>3, <1>4

-----------------------------------------------------------------------------
(* The inbox: the counter and the bytes it counts change together.           *)
InboxInv == inboxBytes = Bytes(inbox) /\ inboxBytes <= MAX_INBOX_BYTES

(* A pop takes from the counter what it takes from the inbox.                *)
LEMMA InboxPop == ASSUME TypeInv, InboxInv, Pop PROVE InboxInv'
<1>1. /\ inbox # <<>> /\ inbox' = Tail(inbox)
      /\ inboxBytes' = inboxBytes - Head(inbox).len
  BY DEF Pop
<1>2. /\ Bytes(inbox) = Head(inbox).len + Bytes(inbox') /\ Bytes(inbox') \in Int
      /\ Head(inbox).len \in Nat
  <2>1. inbox \in Seq(Frame) /\ inbox' \in Seq(Frame) /\ Head(inbox) \in Frame
    BY <1>1, InTypes, TailFacts
  <2>2. Head(inbox).len \in Nat
    BY <2>1, FrameFacts
  <2> QED
    BY <1>1, <2>1, <2>2, BytesFacts
<1>3. inboxBytes \in Int /\ MAX_INBOX_BYTES \in Nat
  BY InTypes, FrameAssumption
<1>4. inboxBytes = Head(inbox).len + Bytes(inbox') /\ inboxBytes <= MAX_INBOX_BYTES
  BY <1>2 DEF InboxInv
<1>5. inboxBytes' = Bytes(inbox') /\ inboxBytes' <= MAX_INBOX_BYTES
  BY <1>1, <1>2, <1>3, <1>4
<1> QED
  BY <1>5 DEF InboxInv

(* The reader adds what it pushes, having asked for room.                    *)
LEMMA InboxPush == ASSUME TypeInv, InboxInv, ReaderPush PROVE InboxInv'
<1>1. /\ inbox' = Append(inbox, rFrame) /\ inboxBytes' = inboxBytes + rFrame.len
      /\ inboxBytes + rFrame.len <= MAX_INBOX_BYTES /\ rPc = "offer"
  BY DEF ReaderPush, Room, ReaderStep
<1>2. inbox \in Seq(Frame) /\ rFrame \in Frame
  BY <1>1, InTypes DEF Holding
<1>3. Bytes(inbox') = Bytes(inbox) + rFrame.len
  BY <1>1, <1>2, BytesFacts
<1> QED
  BY <1>1, <1>3 DEF InboxInv

(* Nothing else touches either.                                              *)
LEMMA InboxStep == TypeInv /\ InboxInv /\ [Next]_vars => InboxInv'
<1> SUFFICES ASSUME TypeInv, InboxInv, [Next]_vars PROVE InboxInv'
  OBVIOUS
<1>f. UNCHANGED <<inbox, inboxBytes>> => InboxInv'
  BY DEF InboxInv
<1>1. CASE Reader
  <2>1. CASE ReaderPush
    BY <2>1, InboxPush
  <2>2. CASE ~ReaderPush
    BY <1>1, <2>2, <1>f DEF Reader, ReaderRead, ReaderEof, ReaderCancel, ReaderCheck,
      ReaderFull, ReaderArm, ReaderNotify, ReaderPublish
  <2> QED
    BY <2>1, <2>2
<1>2. ASSUME NEW r \in Receivers, NextCall(r) \/ NextStep(r) PROVE InboxInv'
  <2>1. CASE ReturnFrame(r)
    BY <2>1, InboxPop DEF ReturnFrame
  <2>2. CASE ~ReturnFrame(r)
    BY <1>2, <2>2, <1>f DEF NextCall, NextStep, NextFast, NextCheckClosed, NextArm,
      NextTimeout, NextSlow, ReturnNull, recvVars
  <2> QED
    BY <2>1, <2>2
<1>3. ASSUME NEW s \in Senders, SendCall(s) \/ SendStep(s) PROVE InboxInv'
  BY <1>3, <1>f DEF SendCall, SendStep, SendCheckClosed, SendAcquire,
    SendNoCapacity, SendEnqueue, SendRefused, SendTo, ChannelFull, recvVars
<1>4. CASE Insert \/ Close \/ Writer \/ Peer \/ Gone \/ UNCHANGED vars
  BY <1>4, <1>f DEF Insert, Close, Writer, WriterTake, WriterWrite, WriterFail,
    WriterCancel, WriterEof, WriterPublish, WriterDropRx, WriterDropFrame,
    WriterExit, WriterUnchanged, taskVars, LeaveLoop, Peer, PeerSend, PeerFinish,
    PeerRead, PeerSeesFin, PeerStop, LoseConnection, PeerUnchanged, Gone, vars,
    recvVars
<1> QED
  BY <1>1, <1>2, <1>3, <1>4 DEF Next

(* The byte counter of the inbox and the inbox agree, and both bounds hold,  *)
(* however pops fall between the reader's steps.                             *)
THEOREM InboxAccountedAlways == Spec => []InboxAccounted
<1>1. Init => InboxInv
  <2>1. <<>> \in Seq(Frame)
    OBVIOUS
  <2>2. Bytes(<<>>) = 0
    BY <2>1, BytesFacts
  <2> QED
    BY <2>2, FrameAssumption DEF Init, InboxInv
<1>2. InboxInv /\ InInv => InboxAccounted
  BY DEF InboxInv, InInv, InBounded, InboxAccounted
<1> QED
  BY <1>1, <1>2, InboxStep, InAlways, PTL DEF Spec

-----------------------------------------------------------------------------
(* The send_capacity semaphore.  The send() calls that hold permits, how     *)
(* many each holds, and the invariant: permits wander between them, the      *)
(* channel, write_frame and the semaphore, and the sum stays.  The calls are *)
(* a finite set because each step adds one at most.                          *)
Holders == {s \in Senders : sPc[s] = "enqueue"}
Lens == [s \in Senders |-> sFrame[s].len]

PermitInv ==
  /\ IsFiniteSet(Holders)
  /\ permits + Bytes(queue) + wFrame.len + SumFunctionOnSet(Lens, Holders)
       = MAX_SEND_QUEUE_BYTES

(* The types the semaphore works with.                                       *)
LEMMA PermitTypes ==
  ASSUME TypeInv
  PROVE  /\ queue \in Seq(Frame) /\ Bytes(queue) \in Int /\ permits \in Nat
         /\ wFrame.len \in Nat /\ (wPc # "writing" => wFrame.len = 0)
         /\ \A s \in Senders : Lens[s] \in Nat /\ Lens[s] = sFrame[s].len
         /\ \A s \in Senders : sPc[s] # "idle" => sFrame[s] \in Frame
         /\ MAX_SEND_QUEUE_BYTES \in Nat
<1>1. queue \in Seq(Frame) /\ permits \in Nat /\ wFrame \in Frame \cup {NoFrame}
  BY DEF TypeInv, TypeOK, SendTypes, WriterTypes
<1>2. wPc # "writing" => wFrame = NoFrame
  BY DEF TypeInv, HeldFrames
<1>3. \A s \in Senders : sFrame[s] \in Frame \cup {NoFrame}
  BY DEF TypeInv, TypeOK, SendTypes
<1>4. \A s \in Senders : sPc[s] # "idle" => sFrame[s] \in Frame
  BY DEF TypeInv, HeldFrames
<1> QED
  BY <1>1, <1>2, <1>3, <1>4, BytesFacts, FrameFacts, FrameAssumption DEF Lens

(* The permits that send() calls hold are a number.                          *)
LEMMA PermitSum ==
  ASSUME TypeInv, IsFiniteSet(Holders)
  PROVE  SumFunctionOnSet(Lens, Holders) \in Int
<1>1. \A x \in Holders : Lens[x] \in Int
  BY PermitTypes DEF Holders
<1> QED
  BY <1>1, SumInt

(* A step that leaves the sum of the senders alone.                          *)
LEMMA PermitFrame ==
  ASSUME PermitInv, UNCHANGED <<sPc, sFrame>>,
         permits' + Bytes(queue') + wFrame'.len + SumFunctionOnSet(Lens, Holders)
           = permits + Bytes(queue) + wFrame.len + SumFunctionOnSet(Lens, Holders)
  PROVE  PermitInv'
<1>1. Holders' = Holders /\ Lens' = Lens
  BY DEF Holders, Lens
<1> QED
  BY <1>1 DEF PermitInv

(* A send() call takes permits, hands them to the channel or gives them      *)
(* back.                                                                     *)
LEMMA PermitSend ==
  ASSUME TypeInv, PermitInv, NEW s \in Senders, SendCall(s) \/ SendStep(s)
  PROVE  PermitInv'
<1> DEFINE Total == SumFunctionOnSet(Lens, Holders)
<1>t. /\ Bytes(queue) \in Int /\ permits \in Nat /\ wFrame.len \in Nat
      /\ Total \in Int /\ sFrame[s].len \in Nat /\ Lens[s] = sFrame[s].len
      /\ MAX_SEND_QUEUE_BYTES \in Nat /\ IsFiniteSet(Holders)
      /\ \A x \in Holders : Lens[x] \in Int
  BY PermitTypes, PermitSum DEF PermitInv, Holders
<1>i. permits + Bytes(queue) + wFrame.len + Total = MAX_SEND_QUEUE_BYTES
  BY DEF PermitInv
<1>p. sPc \in [Senders -> {"idle", "called", "acquire", "enqueue"}]
      /\ sFrame \in [Senders -> Frame \cup {NoFrame}]
  BY DEF TypeInv, TypeOK, SendTypes
<1>w. wFrame' = wFrame
  BY DEF SendCall, SendStep, SendCheckClosed, SendAcquire, SendNoCapacity,
    SendEnqueue, SendRefused, SendTo, ChannelFull, writeVars
<1> HIDE DEF Total
<1>1. CASE SendCall(s)
  <2>1. /\ sPc[s] = "idle" /\ sPc' = [sPc EXCEPT ![s] = "called"]
        /\ \A x \in Senders : x # s => sFrame'[x] = sFrame[x]
        /\ UNCHANGED <<permits, queue>>
    BY <1>1, <1>p DEF SendCall, SendTo
  <2>2. Holders' = Holders /\ s \notin Holders
    BY <2>1, <1>p DEF Holders
  <2>3. \A x \in Holders : Lens[x] \in Int /\ Lens[x] = Lens'[x]
    BY <1>t, <2>1, <2>2 DEF Lens, Holders
  <2>4. PICK w : w = Lens'
    OBVIOUS
  <2>5. SumFunctionOnSet(Lens, Holders) = SumFunctionOnSet(w, Holders)
    BY <1>t, <2>3, <2>4, SumSame
  <2>6. SumFunctionOnSet(Lens', Holders') = Total
    BY <2>2, <2>4, <2>5 DEF Total
  <2> QED
    BY <1>t, <1>i, <1>w, <2>1, <2>2, <2>6 DEF PermitInv
<1>2. CASE SendCheckClosed(s) \/ SendNoCapacity(s)
  <2>1. /\ sPc[s] # "enqueue" /\ sPc'[s] # "enqueue"
        /\ \A x \in Senders : x # s => sPc'[x] = sPc[x]
        /\ UNCHANGED <<permits, queue, sFrame>>
    BY <1>2, <1>p DEF SendCheckClosed, SendNoCapacity, SendTo
  <2>2. Holders' = Holders /\ Lens' = Lens
    BY <2>1 DEF Holders, Lens
  <2> QED
    BY <1>t, <1>i, <1>w, <2>1, <2>2 DEF PermitInv, Total
<1>3. CASE SendAcquire(s)
  <2>1. /\ sPc[s] = "acquire" /\ sPc' = [sPc EXCEPT ![s] = "enqueue"]
        /\ permits' = permits - sFrame[s].len
        /\ UNCHANGED <<queue, sFrame>>
    BY <1>3 DEF SendAcquire, SendTo
  <2>2. Holders' = Holders \cup {s} /\ s \notin Holders /\ Lens' = Lens
    BY <2>1, <1>p DEF Holders, Lens
  <2>3. IsFiniteSet(Holders \cup {s})
    BY <1>t, FS_AddElement
  <2>4. SumFunctionOnSet(Lens, Holders \cup {s}) = sFrame[s].len + Total
    BY <1>t, <2>2, SumWith DEF Total
  <2>5. permits' + Bytes(queue) + wFrame.len + (sFrame[s].len + Total)
          = MAX_SEND_QUEUE_BYTES
    BY <1>t, <1>i, <2>1
  <2> QED
    BY <1>w, <2>1, <2>2, <2>3, <2>4, <2>5 DEF PermitInv
<1>4. CASE SendEnqueue(s) \/ SendRefused(s)
  <2>1. /\ sPc[s] = "enqueue" /\ sPc' = [sPc EXCEPT ![s] = "idle"]
        /\ UNCHANGED sFrame
    BY <1>4 DEF SendEnqueue, SendRefused, SendTo
  <2>2. Holders' = Holders \ {s} /\ s \in Holders /\ Lens' = Lens
    BY <2>1, <1>p DEF Holders, Lens
  <2>3. IsFiniteSet(Holders \ {s}) /\ \A x \in Holders \ {s} : Lens[x] \in Int
    BY <1>t, FS_RemoveElement
  <2> DEFINE Rest == SumFunctionOnSet(Lens, Holders \ {s})
  <2>4. Total = sFrame[s].len + Rest
    BY <1>t, <2>2, SumWithout DEF Total
  <2>5. Rest \in Int
    BY <2>3, SumInt
  <2> HIDE DEF Rest
  <2>6. permits' + Bytes(queue') = permits + Bytes(queue) + sFrame[s].len
        /\ permits' \in Int /\ Bytes(queue') \in Int
    <3>1. CASE SendEnqueue(s)
      <4> DEFINE f == [seq |-> accepted + 1, len |-> sFrame[s].len]
      <4>1. queue' = Append(queue, f) /\ permits' = permits
        BY <3>1 DEF SendEnqueue
      <4>2. sFrame[s] \in Frame /\ accepted \in Nat /\ queue \in Seq(Frame)
        BY <2>1, PermitTypes DEF TypeInv, TypeOK, SendTypes
      <4>3. f \in Frame /\ f.len = sFrame[s].len
        BY <4>2, FrameFacts DEF Frame
      <4> HIDE DEF f
      <4>4. Bytes(queue') = Bytes(queue) + sFrame[s].len
        BY <4>1, <4>2, <4>3, BytesFacts
      <4> QED
        BY <1>t, <4>1, <4>4
    <3>2. CASE SendRefused(s)
      <4>1. queue' = queue /\ permits' = permits + sFrame[s].len
        BY <3>2 DEF SendRefused
      <4> QED
        BY <1>t, <4>1
    <3> QED
      BY <1>4, <3>1, <3>2
  <2>7. permits' + Bytes(queue') + wFrame.len + Rest = MAX_SEND_QUEUE_BYTES
    BY <1>t, <1>i, <2>4, <2>5, <2>6
  <2> QED
    BY <1>w, <2>2, <2>3, <2>7 DEF PermitInv, Rest
<1> QED
  BY <1>1, <1>2, <1>3, <1>4 DEF SendStep

(* The writer moves permits with the frame, or returns them when it drops    *)
(* it.                                                                       *)
LEMMA PermitWriter ==
  ASSUME TypeInv, PermitInv, Writer
  PROVE  PermitInv'
<1>t. /\ Bytes(queue) \in Int /\ permits \in Nat /\ wFrame.len \in Nat
      /\ SumFunctionOnSet(Lens, Holders) \in Int /\ queue \in Seq(Frame)
      /\ wPc # "writing" => wFrame.len = 0
  BY PermitTypes, PermitSum DEF PermitInv
<1>s. UNCHANGED <<sPc, sFrame>>
  BY DEF Writer, WriterTake, WriterWrite, WriterFail, WriterCancel, WriterEof,
    WriterPublish, WriterDropRx, WriterDropFrame, WriterExit, WriterUnchanged,
    taskVars, LeaveLoop
<1>h. ASSUME queue # <<>>, queue' = Tail(queue)
      PROVE  /\ Bytes(queue) = Head(queue).len + Bytes(queue')
             /\ Bytes(queue') \in Int /\ Head(queue).len \in Nat
  <2>1. Tail(queue) \in Seq(Frame) /\ Head(queue) \in Frame
    BY <1>t, <1>h, TailFacts
  <2>2. Head(queue).len \in Nat
    BY <2>1, FrameFacts
  <2> QED
    BY <1>t, <1>h, <2>1, <2>2, BytesFacts
<1>1. CASE WriterTake
  <2>1. /\ wPc = "select" /\ queue # <<>> /\ wFrame' = Head(queue)
        /\ queue' = Tail(queue) /\ permits' = permits
    BY <1>1 DEF WriterTake
  <2>2. permits' + Bytes(queue') + wFrame'.len + SumFunctionOnSet(Lens, Holders)
          = permits + Bytes(queue) + wFrame.len + SumFunctionOnSet(Lens, Holders)
    <3>1. /\ Bytes(queue) = Head(queue).len + Bytes(queue')
          /\ Bytes(queue') \in Int /\ Head(queue).len \in Nat
      BY <1>h, <2>1
    <3> QED
      BY <1>t, <2>1, <3>1
  <2> QED
    BY <1>s, <2>2, PermitFrame
<1>2. CASE WriterWrite \/ WriterFail \/ WriterCancel \/ WriterEof
  <2>1. /\ wFrame' = NoFrame /\ permits' = permits + wFrame.len
        /\ queue' = queue
    BY <1>2 DEF WriterWrite, WriterFail, WriterCancel, WriterEof, LeaveLoop
  <2>2. wFrame'.len = 0 /\ Bytes(queue') = Bytes(queue)
    BY <2>1, FrameFacts
  <2>3. permits' + Bytes(queue') + wFrame'.len + SumFunctionOnSet(Lens, Holders)
          = permits + Bytes(queue) + wFrame.len + SumFunctionOnSet(Lens, Holders)
    BY <1>t, <2>1, <2>2
  <2> QED
    BY <1>s, <2>3, PermitFrame
<1>3. CASE WriterDropFrame
  <2>1. /\ queue # <<>> /\ queue' = Tail(queue) /\ wFrame' = wFrame
        /\ permits' = permits + Head(queue).len
    BY <1>3 DEF WriterDropFrame, writeVars
  <2>2. /\ Bytes(queue) = Head(queue).len + Bytes(queue')
        /\ Bytes(queue') \in Int /\ Head(queue).len \in Nat
    BY <1>h, <2>1
  <2>3. permits' + Bytes(queue') + wFrame'.len + SumFunctionOnSet(Lens, Holders)
          = permits + Bytes(queue) + wFrame.len + SumFunctionOnSet(Lens, Holders)
    BY <1>t, <2>1, <2>2
  <2> QED
    BY <1>s, <2>3, PermitFrame
<1>4. CASE WriterPublish \/ WriterDropRx \/ WriterExit
  <2>1. UNCHANGED <<permits, queue, wFrame>>
    BY <1>4 DEF WriterPublish, WriterDropRx, WriterExit
  <2> QED
    BY <1>s, <2>1, PermitFrame
<1> QED
  BY <1>1, <1>2, <1>3, <1>4 DEF Writer

(* Nothing else touches a permit.                                            *)
LEMMA PermitStep == TypeInv /\ PermitInv /\ [Next]_vars => PermitInv'
<1> SUFFICES ASSUME TypeInv, PermitInv, [Next]_vars PROVE PermitInv'
  OBVIOUS
<1>f. UNCHANGED <<permits, queue, wFrame, sPc, sFrame>> => PermitInv'
  BY PermitFrame
<1>1. CASE Reader
  BY <1>1, <1>f DEF Reader, ReaderRead, ReaderEof, ReaderCancel, ReaderCheck,
    ReaderPush, ReaderFull, ReaderArm, ReaderNotify, ReaderPublish,
    ReaderUnchanged, othersVars, ReaderStep, sendVars, writeVars
<1>2. ASSUME NEW r \in Receivers, NextCall(r) \/ NextStep(r) PROVE PermitInv'
  BY <1>2, <1>f DEF NextCall, NextStep, NextFast, NextCheckClosed, NextArm,
    NextTimeout, NextSlow, NextUnchanged, sendVars, writeVars
<1>3. ASSUME NEW s \in Senders, SendCall(s) \/ SendStep(s) PROVE PermitInv'
  BY <1>3, PermitSend
<1>4. CASE Insert \/ Close \/ Peer \/ Gone \/ UNCHANGED vars
  BY <1>4, <1>f DEF Insert, Close, Peer, PeerSend, PeerFinish, PeerRead,
    PeerSeesFin, PeerStop, LoseConnection, PeerUnchanged, Gone, vars, sendVars,
    writeVars
<1>5. CASE Writer
  BY <1>5, PermitWriter
<1> QED
  BY <1>1, <1>2, <1>3, <1>4, <1>5 DEF Next

(* The permits of send_capacity and the frames always add up: every frame    *)
(* refused, written, cancelled or dropped gave its bytes back, exactly once. *)
THEOREM PermitsConservedAlways == Spec => []PermitsConserved
<1>1. Init => PermitInv
  <2> SUFFICES ASSUME Init PROVE PermitInv
    OBVIOUS
  <2>1. Holders = {} /\ \A x \in Holders : Lens[x] \in Int
    BY DEF Init, Holders
  <2>2. IsFiniteSet(Holders) /\ SumFunctionOnSet(Lens, Holders) = 0
    BY <2>1, FS_EmptySet, SumInt
  <2>3. Bytes(queue) = 0
    <3>1. <<>> \in Seq(Frame)
      OBVIOUS
    <3> QED
      BY <3>1, BytesFacts DEF Init
  <2>4. wFrame.len = 0 /\ permits = MAX_SEND_QUEUE_BYTES
    BY FrameFacts DEF Init
  <2> QED
    BY <2>2, <2>3, <2>4, FrameAssumption DEF PermitInv
<1>2. PermitInv => PermitsConserved
  BY DEF PermitInv, PermitsConserved, Holders, Lens
<1> QED
  BY <1>1, <1>2, PermitStep, TypeInit, TypeStep, PTL DEF Spec

-----------------------------------------------------------------------------
(* A next_message() that has seen an empty inbox and then waits: what comes  *)
(* meanwhile is announced.  A single receiver takes every permit itself.     *)

Announced(r) ==
  inbox # <<>> =>
    /\ nPc[r] \in {"checkClosed", "arm"} => msgPermit \/ rPc = "notify"
    /\ nPc[r] = "waiting" => rPc = "notify"

(* Every step keeps what was announced to the receiver.                      *)
LEMMA AnnouncedStep ==
  ASSUME NEW r, Receivers = {r}
  PROVE  TypeInv /\ Announced(r) /\ [Next]_vars => Announced(r)'
<1> SUFFICES ASSUME TypeInv, Announced(r), [Next]_vars PROVE Announced(r)'
  OBVIOUS
<1>t. nPc \in [Receivers -> {"idle", "fast", "checkClosed", "arm", "waiting",
                             "woken"}]
  BY DEF TypeInv, TypeOK, CallTypes
<1>n. ASSUME NotifyOne
      PROVE  nPc'[r] # "waiting" /\ (nPc'[r] \in {"checkClosed", "arm"} => msgPermit')
  BY <1>t, <1>n DEF NotifyOne, Waiting
<1>f. ASSUME UNCHANGED <<inbox, nPc, msgPermit>>, rPc = "notify" => rPc' = "notify"
      PROVE  Announced(r)'
  BY <1>f DEF Announced
<1>w. rPc = "notify" /\ WakeCapacity => rPc' = "notify"
  BY DEF WakeCapacity
<1>1. CASE Close \/ WriterPublish \/ ReaderNotify \/ ReaderPublish
  BY <1>1, <1>n DEF Close, WriterPublish, ReaderNotify, ReaderPublish, Announced
<1>2. CASE ReaderPush
  BY <1>2 DEF ReaderPush, ReaderStep, Announced
<1>3. CASE \/ ReaderRead \/ ReaderEof \/ ReaderCancel \/ ReaderCheck \/ ReaderFull
           \/ ReaderArm
  BY <1>3, <1>f DEF ReaderRead, ReaderEof, ReaderCancel, ReaderCheck, ReaderFull,
    ReaderArm, ReaderStep, ReaderUnchanged
<1>4. ASSUME NEW x \in Receivers, NextCall(x) \/ NextStep(x) PROVE Announced(r)'
  <2>1. x = r
    OBVIOUS
  <2>2. CASE NextCall(x) \/ NextTimeout(x)
    BY <1>t, <2>1, <2>2 DEF NextCall, NextTimeout, Announced
  <2>3. CASE NextArm(x)
    BY <1>t, <2>1, <2>3 DEF NextArm, Announced, recvVars
  <2>4. CASE NextCheckClosed(x)
    BY <1>t, <2>1, <2>4 DEF NextCheckClosed, ReturnNull, Announced, recvVars
  <2>5. CASE NextFast(x) \/ NextSlow(x)
    BY <1>t, <2>1, <2>5 DEF NextFast, NextSlow, ReturnFrame, ReturnNull, Announced,
      recvVars
  <2> QED
    BY <1>4, <2>2, <2>3, <2>4, <2>5 DEF NextStep
<1>5. ASSUME NEW s \in Senders, SendCall(s) \/ SendStep(s) PROVE Announced(r)'
  BY <1>5, <1>f DEF SendCall, SendStep, SendCheckClosed, SendAcquire,
    SendNoCapacity, SendEnqueue, SendRefused, SendTo, ChannelFull, recvVars
<1>6. CASE \/ Insert \/ Peer \/ Gone \/ UNCHANGED vars
           \/ WriterTake \/ WriterWrite \/ WriterFail \/ WriterCancel \/ WriterEof
           \/ WriterDropRx \/ WriterDropFrame \/ WriterExit
  BY <1>6, <1>f DEF Insert, Peer, PeerSend, PeerFinish, PeerRead, PeerSeesFin,
    PeerStop, LoseConnection, PeerUnchanged, Gone, vars, WriterTake, WriterWrite,
    WriterFail, WriterCancel, WriterEof, WriterDropRx, WriterDropFrame, WriterExit,
    WriterUnchanged, taskVars, LeaveLoop, recvVars
<1> QED
  BY <1>1, <1>2, <1>3, <1>4, <1>5, <1>6 DEF Next, Writer, Reader

(* With one thread that calls next_message(), as the JavaScript pump does,   *)
(* that thread never sleeps on a frame it was already told about.            *)
THEOREM ReceiverSleepsOnlyWhenEmptyAlways ==
  ASSUME NEW r, Receivers = {r}
  PROVE  Spec => []ReceiverSleepsOnlyWhenEmpty
<1>1. Init => Announced(r)
  BY DEF Init, Announced
<1>2. TypeInv /\ Announced(r) /\ [Next]_vars => Announced(r)'
  BY AnnouncedStep
<1>3. Announced(r) => ReceiverSleepsOnlyWhenEmpty
  BY DEF Announced, ReceiverSleepsOnlyWhenEmpty, Waiting
<1> QED
  BY <1>1, <1>2, <1>3, TypeInit, TypeStep, PTL DEF Spec
=============================================================================

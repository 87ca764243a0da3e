---------------------------- MODULE FramedStream ----------------------------
(* One framed bidirectional stream of the bridge: a ManagedConnection of     *)
(* lib.rs with the writer and the reader task that connect_endpoint_addr     *)
(* spawns for it, the exported calls send, next_message and close that       *)
(* application threads make on it, and the peer at the other end of the QUIC *)
(* stream.                                                                   *)
(*                                                                           *)
(* A frame is its number in its direction and its length: payload bytes are  *)
(* never looked at.  Calls look the connection up under the state mutex and  *)
(* go on with a clone of it after the mutex is released, so every later step *)
(* of a call interleaves with the tasks and with close().                    *)
EXTENDS Integers, Sequences, SequencesExt

CONSTANTS
  Senders,               \* threads that call send()
  Receivers,             \* threads that call next_message()
  MAX_FRAME_BYTES,       \* largest payload of a frame
  SEND_QUEUE_FRAMES,     \* slots of the mpsc channel
  MAX_SEND_QUEUE_BYTES,  \* permits of the send_capacity semaphore
  MAX_INBOX_FRAMES,
  MAX_INBOX_BYTES,
  Window,                \* frames QUIC flow control lets run ahead of a reader
  MaxSends,              \* bound: frames send() may accept
  MaxPeerFrames          \* bound: frames the peer may write

ASSUME FrameAssumption ==
  /\ MAX_FRAME_BYTES \in Nat \ {0}
  /\ SEND_QUEUE_FRAMES \in Nat \ {0}
  /\ MAX_SEND_QUEUE_BYTES \in Nat
  /\ MAX_SEND_QUEUE_BYTES >= MAX_FRAME_BYTES
  /\ MAX_INBOX_FRAMES \in Nat \ {0}
  /\ MAX_INBOX_BYTES \in Nat
  /\ MAX_INBOX_BYTES >= MAX_FRAME_BYTES
  /\ Window \in Nat \ {0}
  /\ MaxSends \in Nat
  /\ MaxPeerFrames \in Nat

Frame == [seq : Nat, len : 1..MAX_FRAME_BYTES]
NoFrame == [seq |-> 0, len |-> 0]

VARIABLES
  entry,        \* the stream's entry of BridgeState.connections
  closed,       \* ManagedConnection.closed
  closeTx,      \* value of the close_tx watch channel
  queue,        \* frames in the mpsc channel
  rxOpen,       \* the writer task still holds the receiving half
  permits,      \* bytes left in send_capacity
  accepted,     \* frames send() has answered Ok for
  sPc, sFrame,  \* per sender: position in send(), its frame
  wPc, wFrame,  \* writer task: position, frame in write_frame
  wire,         \* frames written to the QUIC stream, not yet read by the peer
  outEnd,       \* how the writer ended its half of the stream
  peerGot,      \* frames the peer has read, in order
  peerSawFin,   \* the peer has read to a clean end of the stream
  peerStopped,  \* the peer asked for no more data
  inbound,      \* frames the peer has written, not yet read by the reader
  inEnd,        \* how the peer ended its half
  peerSent,     \* number of frames the peer has written
  lost,         \* the QUIC connection is gone
  rPc, rFrame,  \* reader task: position, frame it holds
  inbox, inboxBytes,
  capPermit,    \* permit stored in the capacity Notify
  msgPermit,    \* permit stored in the message Notify
  nPc,          \* per receiver: position in next_message()
  waits,        \* receivers whose call has timeout_ms > 0
  timedOut,     \* receivers whose call's timeout has run out
  nulls,        \* receivers whose last call returned None
  delivered     \* frames next_message() has returned, in the order of the pops

sendVars  == <<queue, rxOpen, permits, accepted, sPc, sFrame>>
writeVars == <<wPc, wFrame, outEnd>>
peerVars  == <<peerGot, peerSawFin, peerStopped, inEnd, peerSent, lost>>
recvVars  == <<inbox, inboxBytes, delivered>>
callVars  == <<waits, timedOut, nulls>>
closeVars == <<entry, closed, closeTx>>
vars == <<sendVars, writeVars, peerVars, recvVars, callVars, closeVars,
          wire, inbound, rPc, rFrame, capPermit, msgPermit, nPc>>

Init ==
  /\ entry = "absent" /\ closed = FALSE /\ closeTx = FALSE
  /\ queue = <<>> /\ rxOpen = TRUE /\ permits = MAX_SEND_QUEUE_BYTES
  /\ accepted = 0
  /\ sPc = [s \in Senders |-> "idle"] /\ sFrame = [s \in Senders |-> NoFrame]
  /\ wPc = "select" /\ wFrame = NoFrame
  /\ wire = <<>> /\ outEnd = "open"
  /\ peerGot = <<>> /\ peerSawFin = FALSE /\ peerStopped = FALSE
  /\ inbound = <<>> /\ inEnd = "open" /\ peerSent = 0 /\ lost = FALSE
  /\ rPc = "reading" /\ rFrame = NoFrame
  /\ inbox = <<>> /\ inboxBytes = 0
  /\ capPermit = FALSE /\ msgPermit = FALSE
  /\ nPc = [r \in Receivers |-> "idle"]
  /\ waits = {} /\ timedOut = {} /\ nulls = {}
  /\ delivered = <<>>

-----------------------------------------------------------------------------
(* The two tokio Notify objects.                                             *)

Waiting == {r \in Receivers : nPc[r] = "waiting"}

(* Mutant (a plausible fault, used only by the mutation runs): no permit is  *)
(* stored.                                                                   *)
NotifyOneUnstored ==
  \/ \E r \in Waiting : /\ nPc' = [nPc EXCEPT ![r] = "woken"]
                        /\ UNCHANGED msgPermit
  \/ Waiting = {} /\ UNCHANGED <<msgPermit, nPc>>

(* notify.notify_one(): wake one registered waiter, else store the permit.   *)
(* tokio wakes the oldest waiter; any of them here.                          *)
NotifyOne ==
  \/ \E r \in Waiting : /\ nPc' = [nPc EXCEPT ![r] = "woken"]
                        /\ UNCHANGED msgPermit
  \/ /\ Waiting = {}
     /\ msgPermit' = TRUE
     /\ UNCHANGED nPc

(* Mutants: the wake-up is notify_waiters(), or is forgotten.                *)
NotifyCapacityUnstored ==
  rPc' = (IF rPc = "waiting" THEN "check" ELSE rPc) /\ UNCHANGED capPermit
NotifyCapacityForgotten == UNCHANGED <<rPc, capPermit>>

(* capacity.notify_one(), by the thread that popped a frame.                 *)
NotifyCapacity ==
  IF rPc = "waiting"
  THEN rPc' = "check" /\ UNCHANGED capPermit
  ELSE capPermit' = TRUE /\ UNCHANGED rPc

(* capacity.notify_waiters(): wakes the reader, stores no permit.            *)
WakeCapacity == rPc' = IF rPc = "waiting" THEN "check" ELSE rPc

(* A clone of the mpsc sender is alive: in the map entry, in the connect     *)
(* call that has not inserted it yet, or in a call that cloned the entry.    *)
TxAlive == \/ entry # "removed"
           \/ \E s \in Senders : sPc[s] # "idle"
           \/ \E r \in Receivers : nPc[r] # "idle"

-----------------------------------------------------------------------------
(* connect_endpoint_addr inserts the entry after both tasks were spawned.    *)
Insert ==
  /\ entry = "absent"
  /\ entry' = "present"
  /\ UNCHANGED <<sendVars, writeVars, peerVars, recvVars, callVars, closed,
                 closeTx, wire, inbound, rPc, rFrame, capPermit, msgPermit, nPc>>

(* Mutant: the tasks are told, but the closed flag is left to them.          *)
CloseKeepsOpen ==
  /\ entry = "present"
  /\ entry' = "removed" /\ closeTx' = TRUE
  /\ NotifyOne
  /\ WakeCapacity
  /\ UNCHANGED <<sendVars, writeVars, peerVars, recvVars, callVars, closed, wire,
                 inbound, rFrame, capPermit>>

(* close() of this id, and what stop() does to each entry it drains.         *)
Close ==
  /\ entry = "present"
  /\ entry' = "removed" /\ closed' = TRUE /\ closeTx' = TRUE
  /\ NotifyOne
  /\ WakeCapacity
  /\ UNCHANGED <<sendVars, writeVars, peerVars, recvVars, callVars, wire,
                 inbound, rFrame, capPermit>>

-----------------------------------------------------------------------------
(* send().  Calls that fail validation or find no entry change nothing.      *)

SendTo(s, pc) ==
  /\ sPc' = [sPc EXCEPT ![s] = pc]
  /\ UNCHANGED <<rxOpen, writeVars, peerVars, recvVars, callVars, closeVars, wire,
                 inbound, rPc, rFrame, capPermit, msgPermit, nPc>>

SendCall(s) ==
  /\ sPc[s] = "idle" /\ entry = "present" /\ accepted < MaxSends
  /\ \E n \in 1..MAX_FRAME_BYTES :
       sFrame' = [sFrame EXCEPT ![s] = [seq |-> 0, len |-> n]]
  /\ SendTo(s, "called")
  /\ UNCHANGED <<queue, permits, accepted>>

SendCheckClosed(s) ==
  /\ sPc[s] = "called"
  /\ SendTo(s, IF closed THEN "idle" ELSE "acquire")
  /\ UNCHANGED <<queue, permits, accepted, sFrame>>

(* Mutant: the permits are taken without asking whether they are there.      *)
SendAcquireUnchecked(s) ==
  /\ sPc[s] = "acquire"
  /\ permits' = permits - sFrame[s].len
  /\ SendTo(s, "enqueue")
  /\ UNCHANGED <<queue, accepted, sFrame>>

SendAcquire(s) ==
  /\ sPc[s] = "acquire" /\ permits >= sFrame[s].len
  /\ permits' = permits - sFrame[s].len
  /\ SendTo(s, "enqueue")
  /\ UNCHANGED <<queue, accepted, sFrame>>

SendNoCapacity(s) ==
  /\ sPc[s] = "acquire" /\ permits < sFrame[s].len
  /\ SendTo(s, "idle")
  /\ UNCHANGED <<queue, permits, accepted, sFrame>>

(* Mutant: the channel has no bound.                                         *)
ChannelNeverFull == FALSE

ChannelFull == Len(queue) >= SEND_QUEUE_FRAMES

SendEnqueue(s) ==
  /\ sPc[s] = "enqueue" /\ rxOpen /\ ~ChannelFull
  /\ accepted' = accepted + 1
  /\ queue' = Append(queue, [seq |-> accepted + 1, len |-> sFrame[s].len])
  /\ SendTo(s, "idle")
  /\ UNCHANGED <<permits, sFrame>>

(* Mutant: the permits of a refused frame are forgotten.                     *)
SendRefusedLeak(s) ==
  /\ sPc[s] = "enqueue" /\ (~rxOpen \/ ChannelFull)
  /\ SendTo(s, "idle")
  /\ UNCHANGED <<queue, permits, accepted, sFrame>>

(* try_send fails: the QueuedFrame, and the byte permits in it, are dropped. *)
SendRefused(s) ==
  /\ sPc[s] = "enqueue" /\ (~rxOpen \/ ChannelFull)
  /\ permits' = permits + sFrame[s].len
  /\ SendTo(s, "idle")
  /\ UNCHANGED <<queue, accepted, sFrame>>

SendStep(s) == \/ SendCheckClosed(s) \/ SendAcquire(s) \/ SendNoCapacity(s)
               \/ SendEnqueue(s) \/ SendRefused(s)

-----------------------------------------------------------------------------
(* The writer task.  tokio::select! picks at random among ready branches, so *)
(* after a close it may still take or write a frame before it notices.       *)

taskVars == <<accepted, sPc, sFrame, peerVars, recvVars, callVars, inbound, rFrame,
              capPermit>>
WriterUnchanged == UNCHANGED <<taskVars, closeVars, rPc, msgPermit, nPc>>

WriterTake ==
  /\ wPc = "select" /\ queue # <<>>
  /\ wFrame' = Head(queue) /\ queue' = Tail(queue)
  /\ wPc' = "writing"
  /\ UNCHANGED <<rxOpen, permits, outEnd, wire>>
  /\ WriterUnchanged

(* write_frame completes; dropping the QueuedFrame returns its permits.      *)
WriterWrite ==
  /\ wPc = "writing" /\ Len(wire) < Window
  /\ wire' = Append(wire, wFrame)
  /\ permits' = permits + wFrame.len
  /\ wFrame' = NoFrame /\ wPc' = "select"
  /\ UNCHANGED <<queue, rxOpen, outEnd>>
  /\ WriterUnchanged

(* Out of the loop, with whatever frame it held; outEnd is reset() or finish().*)
LeaveLoop(pc, end) ==
  /\ wPc' = pc /\ outEnd' = end
  /\ wFrame' = NoFrame /\ permits' = permits + wFrame.len
  /\ UNCHANGED <<queue, rxOpen, wire>>
  /\ WriterUnchanged

(* Mutant: a failed write is tried again for ever.                           *)
WriterFailRetries ==
  wPc = "writing" /\ (lost \/ peerStopped) /\ UNCHANGED vars

(* write_frame fails; finish() of the broken stream then reaches nobody.     *)
WriterFail ==
  wPc = "writing" /\ (lost \/ peerStopped) /\ LeaveLoop("ending", "failed")

(* Mutants: a cancelled write goes on with the next frame, the stream is     *)
(* finished instead of reset, or write_frame is not raced with the close.    *)
WriterCancelContinues ==
  wPc = "writing" /\ closeTx /\ LeaveLoop("select", "open")
WriterCancelFinishes ==
  wPc \in {"select", "writing"} /\ closeTx /\ LeaveLoop("ending", "fin")
WriterCancelLate == wPc = "select" /\ closeTx /\ LeaveLoop("ending", "reset")

(* writer_close_rx.changed() wins, in either select: reset the stream.       *)
WriterCancel ==
  wPc \in {"select", "writing"} /\ closeTx /\ LeaveLoop("ending", "reset")

(* rx.recv() returns None: the queue is empty and no sender is left.         *)
WriterEof ==
  wPc = "select" /\ queue = <<>> /\ ~TxAlive /\ LeaveLoop("ending", "fin")

WriterPublish ==
  /\ wPc = "ending" /\ wPc' = "published"
  /\ closed' = TRUE /\ closeTx' = TRUE
  /\ NotifyOne
  /\ WakeCapacity
  /\ UNCHANGED <<taskVars, queue, rxOpen, permits, wFrame, outEnd, entry, wire>>

(* The task's end drops rx: the channel closes, then its frames are dropped  *)
(* one by one, each returning its permits.                                   *)
WriterDropRx ==
  /\ wPc = "published" /\ wPc' = "dropping"
  /\ rxOpen' = FALSE
  /\ UNCHANGED <<queue, permits, wFrame, outEnd, wire>>
  /\ WriterUnchanged

WriterDropFrame ==
  /\ wPc = "dropping" /\ queue # <<>>
  /\ permits' = permits + Head(queue).len /\ queue' = Tail(queue)
  /\ UNCHANGED <<rxOpen, writeVars, wire>>
  /\ WriterUnchanged

WriterExit ==
  /\ wPc = "dropping" /\ queue = <<>> /\ wPc' = "done"
  /\ UNCHANGED <<queue, rxOpen, permits, wFrame, outEnd, wire>>
  /\ WriterUnchanged

Writer == \/ WriterTake \/ WriterWrite \/ WriterFail \/ WriterCancel
          \/ WriterEof \/ WriterPublish \/ WriterDropRx \/ WriterDropFrame
          \/ WriterExit

-----------------------------------------------------------------------------
(* The reader task, with enqueue_inbox_frame.                                *)

othersVars == <<sendVars, writeVars, peerVars, callVars, entry, wire, delivered>>
ReaderUnchanged == UNCHANGED <<othersVars, closed, closeTx, msgPermit, nPc>>

(* Mutant: off by one.                                                       *)
RoomForOneMore(f) == /\ Len(inbox) <= MAX_INBOX_FRAMES
                     /\ inboxBytes + f.len <= MAX_INBOX_BYTES

Room(f) == /\ Len(inbox) < MAX_INBOX_FRAMES
           /\ inboxBytes + f.len <= MAX_INBOX_BYTES

(* From one position to another, with the frame f in hand.                   *)
ReaderStep(from, to, f) ==
  /\ rPc = from /\ rPc' = to /\ rFrame' = f
  /\ ReaderUnchanged

ReaderRead ==
  /\ inbound # <<>> /\ inbound' = Tail(inbound)
  /\ ReaderStep("reading", "check", Head(inbound))
  /\ UNCHANGED <<inbox, inboxBytes, capPermit>>

(* Ok(None) or Err(_): both end the task without stopping the stream.        *)
ReaderEof ==
  /\ lost \/ inEnd = "reset" \/ (inEnd = "fin" /\ inbound = <<>>)
  /\ ReaderStep("reading", "ending", NoFrame)
  /\ UNCHANGED <<inbound, inbox, inboxBytes, capPermit>>

(* The close flag ends the task: in read_frame's select, at the top of       *)
(* enqueue_inbox_frame's loop or in its select.  A frame it holds is lost.   *)
ReaderCancel ==
  /\ closeTx
  /\ \E pc \in {"reading", "check", "arm", "waiting"} :
       ReaderStep(pc, "ending", NoFrame)
  /\ UNCHANGED <<inbound, inbox, inboxBytes, capPermit>>

(* Top of the loop: not closed; capacity.notified() is created here.         *)
ReaderCheck ==
  /\ ~closeTx /\ ReaderStep("check", "offer", rFrame)
  /\ UNCHANGED <<inbound, inbox, inboxBytes, capPermit>>

(* Under the inbox lock: push when there is room.                            *)
ReaderPush ==
  /\ Room(rFrame) /\ ReaderStep("offer", "notify", NoFrame)
  /\ inbox' = Append(inbox, rFrame) /\ inboxBytes' = inboxBytes + rFrame.len
  /\ UNCHANGED <<inbound, capPermit>>

(* Mutant: a frame that does not fit is dropped.                             *)
ReaderFullDrops ==
  /\ ~Room(rFrame) /\ ReaderStep("offer", "reading", NoFrame)
  /\ UNCHANGED <<inbound, inbox, inboxBytes, capPermit>>

ReaderFull ==
  /\ ~Room(rFrame) /\ ReaderStep("offer", "arm", rFrame)
  /\ UNCHANGED <<inbound, inbox, inboxBytes, capPermit>>

(* First poll of the Notified: take a stored permit, else register.          *)
ReaderArm ==
  /\ ReaderStep("arm", IF capPermit THEN "check" ELSE "waiting", rFrame)
  /\ capPermit' = FALSE
  /\ UNCHANGED <<inbound, inbox, inboxBytes>>

(* Mutant: the reader calls notify_waiters(), which stores no permit.        *)
ReaderNotifyUnstored ==
  /\ rPc = "notify" /\ rPc' = "reading"
  /\ NotifyOneUnstored
  /\ UNCHANGED <<othersVars, closed, closeTx, inbound, rFrame, inbox, inboxBytes,
                 capPermit>>

ReaderNotify ==
  /\ rPc = "notify" /\ rPc' = "reading"
  /\ NotifyOne
  /\ UNCHANGED <<othersVars, closed, closeTx, inbound, rFrame, inbox, inboxBytes,
                 capPermit>>

(* No reader waits for capacity here, so notify_waiters() wakes nobody.      *)
ReaderPublish ==
  /\ rPc = "ending" /\ rPc' = "done"
  /\ closed' = TRUE /\ closeTx' = TRUE
  /\ NotifyOne
  /\ UNCHANGED <<othersVars, inbound, rFrame, inbox, inboxBytes, capPermit>>

Reader == \/ ReaderRead \/ ReaderEof \/ ReaderCancel \/ ReaderCheck
          \/ ReaderPush \/ ReaderFull \/ ReaderArm \/ ReaderNotify
          \/ ReaderPublish

-----------------------------------------------------------------------------
(* next_message().  A call that finds no entry changes nothing.              *)

NextUnchanged == UNCHANGED <<sendVars, writeVars, peerVars, closeVars, wire,
                   inbound, rFrame>>

(* Mutant: the byte counter is not reduced.                                  *)
PopUncounted ==
  /\ inbox # <<>>
  /\ inbox' = Tail(inbox) /\ UNCHANGED inboxBytes
  /\ delivered' = Append(delivered, Head(inbox))
  /\ NotifyCapacity

(* pop_front and capacity.notify_one(), both under the inbox lock.           *)
Pop ==
  /\ inbox # <<>>
  /\ inbox' = Tail(inbox) /\ inboxBytes' = inboxBytes - Head(inbox).len
  /\ delivered' = Append(delivered, Head(inbox))
  /\ NotifyCapacity

ReturnFrame(r) ==
  /\ Pop
  /\ nPc' = [nPc EXCEPT ![r] = "idle"]
  /\ waits' = waits \ {r} /\ timedOut' = timedOut \ {r}
  /\ UNCHANGED <<nulls, msgPermit>>

ReturnNull(r) ==
  /\ nulls' = nulls \cup {r} /\ waits' = waits \ {r}
  /\ nPc' = [nPc EXCEPT ![r] = "idle"]
  /\ UNCHANGED <<recvVars, rPc, capPermit, msgPermit>>

NextCall(r) ==
  /\ nPc[r] = "idle" /\ entry = "present"
  /\ nPc' = [nPc EXCEPT ![r] = "fast"]
  /\ waits' \in {waits, waits \cup {r}}
  /\ timedOut' = timedOut \ {r} /\ nulls' = nulls \ {r}
  /\ UNCHANGED <<recvVars, rPc, capPermit, msgPermit>>
  /\ NextUnchanged

NextFast(r) ==
  /\ nPc[r] = "fast"
  /\ \/ ReturnFrame(r)
     \/ /\ inbox = <<>>
        /\ nPc' = [nPc EXCEPT ![r] = "checkClosed"]
        /\ UNCHANGED <<recvVars, callVars, rPc, capPermit, msgPermit>>
  /\ NextUnchanged

NextCheckClosed(r) ==
  /\ nPc[r] = "checkClosed"
  /\ \/ /\ closed
        /\ ReturnNull(r)
        /\ UNCHANGED timedOut
     \/ /\ ~closed /\ r \notin waits
        /\ ReturnNull(r)
        /\ timedOut' = timedOut \cup {r}
     \/ /\ ~closed /\ r \in waits
        /\ nPc' = [nPc EXCEPT ![r] = "arm"]
        /\ UNCHANGED <<recvVars, callVars, rPc, capPermit, msgPermit>>
  /\ NextUnchanged

(* First poll of the Notified, inside block_on and the timeout.              *)
NextArm(r) ==
  /\ nPc[r] = "arm"
  /\ nPc' = [nPc EXCEPT ![r] = IF msgPermit THEN "woken" ELSE "waiting"]
  /\ msgPermit' = FALSE
  /\ UNCHANGED <<recvVars, callVars, rPc, capPermit>>
  /\ NextUnchanged

NextTimeout(r) ==
  /\ nPc[r] = "waiting"
  /\ nPc' = [nPc EXCEPT ![r] = "woken"]
  /\ timedOut' = timedOut \cup {r}
  /\ UNCHANGED <<recvVars, waits, nulls, rPc, capPermit, msgPermit>>
  /\ NextUnchanged

(* The second look at the inbox; None when it is empty, whatever woke us.    *)
NextSlow(r) ==
  /\ nPc[r] = "woken"
  /\ \/ ReturnFrame(r)
     \/ /\ inbox = <<>>
        /\ ReturnNull(r)
        /\ UNCHANGED timedOut
  /\ NextUnchanged

NextStep(r) == \/ NextFast(r) \/ NextCheckClosed(r) \/ NextArm(r)
               \/ NextTimeout(r) \/ NextSlow(r)

-----------------------------------------------------------------------------
(* The peer and the QUIC connection.  A malformed or truncated frame ends    *)
(* the reader as a FIN does and is the peer's "fin" here.                    *)

PeerUnchanged == UNCHANGED <<sendVars, writeVars, recvVars, callVars, closeVars,
                   rPc, rFrame, capPermit, msgPermit, nPc>>

PeerSend ==
  /\ inEnd = "open" /\ ~lost /\ peerSent < MaxPeerFrames /\ Len(inbound) < Window
  /\ \E n \in 1..MAX_FRAME_BYTES :
       inbound' = Append(inbound, [seq |-> peerSent + 1, len |-> n])
  /\ peerSent' = peerSent + 1
  /\ UNCHANGED <<wire, peerGot, peerSawFin, peerStopped, inEnd, lost>>
  /\ PeerUnchanged

PeerFinish ==
  /\ inEnd = "open"
  /\ inEnd' \in {"fin", "reset"}
  /\ UNCHANGED <<wire, inbound, peerGot, peerSawFin, peerStopped, peerSent, lost>>
  /\ PeerUnchanged

PeerRead ==
  /\ wire # <<>> /\ ~lost /\ ~peerStopped
  /\ peerGot' = Append(peerGot, Head(wire)) /\ wire' = Tail(wire)
  /\ UNCHANGED <<inbound, peerSawFin, peerStopped, inEnd, peerSent, lost>>
  /\ PeerUnchanged

PeerSeesFin ==
  /\ ~peerSawFin /\ outEnd = "fin" /\ wire = <<>> /\ ~lost
  /\ peerSawFin' = TRUE
  /\ UNCHANGED <<wire, inbound, peerGot, peerStopped, inEnd, peerSent, lost>>
  /\ PeerUnchanged

(* STOP_SENDING; only a write_frame in progress notices it, so it need not   *)
(* come earlier than that.                                                   *)
PeerStop ==
  /\ ~peerStopped /\ wPc = "writing"
  /\ peerStopped' = TRUE
  /\ UNCHANGED <<wire, inbound, peerGot, peerSawFin, inEnd, peerSent, lost>>
  /\ PeerUnchanged

LoseConnection ==
  /\ ~lost /\ lost' = TRUE
  /\ UNCHANGED <<wire, inbound, peerGot, peerSawFin, peerStopped, inEnd, peerSent>>
  /\ PeerUnchanged

Peer == PeerSend \/ PeerFinish \/ PeerRead \/ PeerSeesFin \/ PeerStop
        \/ LoseConnection

-----------------------------------------------------------------------------
(* The stream is gone: its tasks are done, and calls find no entry.          *)
Gone ==
  /\ entry = "removed" /\ wPc = "done" /\ rPc = "done"
  /\ \A s \in Senders : sPc[s] = "idle"
  /\ \A r \in Receivers : nPc[r] = "idle"
  /\ UNCHANGED vars

Next ==
  \/ Insert
  \/ Close
  \/ \E s \in Senders : SendCall(s) \/ SendStep(s)
  \/ \E r \in Receivers : NextCall(r) \/ NextStep(r)
  \/ Writer
  \/ Reader
  \/ Peer
  \/ Gone

(* tokio runs a ready task, a thread inside a call goes on and its timer     *)
(* fires, and connect inserts what it opened.  Nobody is obliged to call     *)
(* anything, and the peer is not obliged to read or to write.                *)
Fairness ==
  /\ WF_vars(Insert)
  /\ WF_vars(Writer)
  /\ WF_vars(Reader)
  /\ \A s \in Senders : WF_vars(SendStep(s))
  /\ \A r \in Receivers : WF_vars(NextStep(r))

Spec == Init /\ [][Next]_vars /\ Fairness

(* The JS pump calls next_message() again and again while it has observers.  *)
PolledSpec == Spec /\ \A r \in Receivers : WF_vars(NextCall(r))

-----------------------------------------------------------------------------
SendTypes ==
  /\ queue \in Seq(Frame) /\ rxOpen \in BOOLEAN
  /\ permits \in Nat /\ accepted \in Nat
  /\ sPc \in [Senders -> {"idle", "called", "acquire", "enqueue"}]
  /\ sFrame \in [Senders -> Frame \cup {NoFrame}]

WriterTypes ==
  /\ wPc \in {"select", "writing", "ending", "published", "dropping", "done"}
  /\ wFrame \in Frame \cup {NoFrame}
  /\ outEnd \in {"open", "fin", "reset", "failed"}

PeerTypes ==
  /\ wire \in Seq(Frame) /\ peerGot \in Seq(Frame) /\ inbound \in Seq(Frame)
  /\ peerSawFin \in BOOLEAN /\ peerStopped \in BOOLEAN /\ lost \in BOOLEAN
  /\ inEnd \in {"open", "fin", "reset"} /\ peerSent \in Nat

ReaderTypes ==
  /\ rPc \in {"reading", "check", "offer", "arm", "waiting", "notify",
              "ending", "done"}
  /\ rFrame \in Frame \cup {NoFrame}
  /\ inbox \in Seq(Frame) /\ inboxBytes \in Int
  /\ capPermit \in BOOLEAN /\ msgPermit \in BOOLEAN

CallTypes ==
  /\ nPc \in [Receivers -> {"idle", "fast", "checkClosed", "arm", "waiting",
                            "woken"}]
  /\ waits \subseteq Receivers /\ timedOut \subseteq Receivers
  /\ nulls \subseteq Receivers
  /\ delivered \in Seq(Frame)

CloseTypes ==
  /\ entry \in {"absent", "present", "removed"}
  /\ closed \in BOOLEAN /\ closeTx \in BOOLEAN

(* Every variable has its type; a frame in any queue is a valid frame.       *)
TypeOK == /\ SendTypes /\ WriterTypes /\ PeerTypes /\ ReaderTypes
          /\ CallTypes /\ CloseTypes

Bytes(frames) == FoldSeq(LAMBDA f, n : f.len + n, 0, frames)

(* Whatever threads call next_message() and however they interleave with the *)
(* reader task and with close(), the frames they are handed, taken in the    *)
(* order of the pops, are the peer's frames: none skipped, none twice, none  *)
(* out of order (README: "framed streams").                                  *)
DeliveredInOrder == \A i \in 1..Len(delivered) : delivered[i].seq = i

(* The peer reads the frames send() accepted, in the order it accepted them, *)
(* without a gap, however the writer is cancelled.                           *)
PeerReadsInOrder == \A i \in 1..Len(peerGot) : peerGot[i].seq = i

(* A clean end of the stream tells the peer it has every frame send() ever   *)
(* answered Ok for: the writer calls finish() only when no clone of the mpsc *)
(* sender, hence no send() in progress, can add to the queue.                *)
CleanEndIsComplete == peerSawFin => Len(peerGot) = accepted

(* send_capacity and the frames agree: the permits taken are the bytes held  *)
(* by send() calls, by the channel and by write_frame, so refused, cancelled *)
(* and dropped frames all gave theirs back.                                  *)
PermitsConserved ==
  permits + Bytes(queue) + wFrame.len
    + SumFunctionOnSet([s \in Senders |-> sFrame[s].len],
                       {s \in Senders : sPc[s] = "enqueue"})
  = MAX_SEND_QUEUE_BYTES

(* InboxState.bytes is the size of the frames in the inbox, and both bounds  *)
(* hold although next_message() threads pop while the reader decides.        *)
InboxAccounted ==
  /\ inboxBytes = Bytes(inbox) /\ inboxBytes <= MAX_INBOX_BYTES
  /\ Len(inbox) <= MAX_INBOX_FRAMES

(* No lost wake-up of the backpressured reader: it never sleeps while the    *)
(* frame it holds would fit, although the check and the registration of the  *)
(* Notified are two steps and pops come between them.                        *)
ReaderSleepsOnlyWhenFull == rPc = "waiting" => ~Room(rFrame)

(* No lost wake-up of a waiting next_message(): while it sleeps, a frame in  *)
(* the inbox is one the reader has still to announce.  (For one receiver:    *)
(* two can share one stored permit.)                                         *)
ReceiverSleepsOnlyWhenEmpty ==
  Waiting # {} /\ inbox # <<>> => rPc = "notify"

(* next_message() "Returns null/None on timeout or close" (lib.rs:976): a    *)
(* None means that the timeout ran out or that the stream is closed.  It is  *)
(* not so: a permit left from a frame that the fast path took ends the wait. *)
NullMeansTimeoutOrClose ==
  \A r \in nulls : r \in timedOut \/ closed

(* Once one half of the stream has ended, or close() was called, both tasks  *)
(* end, wherever they are: blocked in write_frame by flow control, waiting   *)
(* for inbox room, or about to ask for it.                                   *)
CloseEndsTasks == closed ~> (wPc = "done" /\ rPc = "done")

(* If the peer reads what reaches it, every frame send() accepted is written *)
(* to the stream or the stream ends; none stays in the channel.              *)
AcceptedIsWritten ==
  WF_vars(PeerRead) => (queue # <<>> ~> queue = <<>> \/ closed)

(* With a receiver that keeps polling, backpressure ends: what the peer      *)
(* wrote is delivered unless the stream closes, and what already was in the  *)
(* inbox is delivered even then, until close() removes the entry.            *)
PolledFramesArrive ==
  /\ \A k \in 1..MaxPeerFrames : peerSent >= k ~> Len(delivered) >= k \/ closed
  /\ inbox # <<>> ~> inbox = <<>> \/ entry = "removed"

-----------------------------------------------------------------------------
(* Each direction implements FrameChannel.  Outbound holds at most the       *)
(* channel's slots, the frame in write_frame and the flow-control window.    *)
Outbound == INSTANCE FrameChannel WITH
  Capacity <- SEND_QUEUE_FRAMES + 1 + Window, Lengths <- 1..MAX_FRAME_BYTES,
  sent <- accepted, got <- peerGot, ended <- peerSawFin

(* Inbound, a full inbox stops the reader task and then the peer; the        *)
(* application never learns whether the end was clean.                       *)
Inbound == INSTANCE FrameChannel WITH
  Capacity <- MAX_INBOX_FRAMES + 1 + Window, Lengths <- 1..MAX_FRAME_BYTES,
  sent <- peerSent, got <- delivered, ended <- FALSE

(* send() and the writer task are a bounded FIFO towards the peer: nothing   *)
(* is lost, repeated or reordered before the stream is cut, no send() is     *)
(* accepted after a clean end, and SEND_QUEUE_FRAMES bounds what is pending. *)
OutboundIsChannel == Outbound!Spec

(* The reader task, the inbox and next_message() are one from the peer, and  *)
(* MAX_INBOX_FRAMES bounds what a peer can make this side hold.              *)
InboundIsChannel == Inbound!Spec

(* The receiving half as the JavaScript layer, JsStream, relies on it.       *)
Native == INSTANCE NativeStream WITH
  reading <- rPc # "done", popped <- Len(delivered),
  arrived <- Len(delivered) + Len(inbox)

(* Seen from JavaScript nothing else can happen: the inbox grows only while  *)
(* the reader task lives, a frame leaves it only by a pop, an ended task     *)
(* means a closed stream, and only close() removes the entry.                *)
ConnectionIsNative == Native!NativeSpec
=============================================================================

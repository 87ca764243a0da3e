---------------------------- MODULE NativeStream ----------------------------
(* The receiving side of one ManagedConnection as the JavaScript layer sees  *)
(* it through next_message, is_stream_open and close: an inbox that fills    *)
(* behind its back and a stream that can end at any moment.  FramedStream    *)
(* implements it and JsStream is built on it.  Frames are numbered as they   *)
(* arrive; the inbox holds those from popped + 1 to arrived.                 *)
EXTENDS Naturals

CONSTANTS
  MAX_INBOX_FRAMES,
  MaxPeerFrames      \* bound: frames the peer may write

VARIABLES
  entry,     \* the stream's entry of BridgeState.connections
  closed,    \* ManagedConnection.closed
  reading,   \* the reader task may still push a frame
  arrived,   \* frames pushed to the inbox
  popped     \* frames next_message() has taken from it

nativeVars == <<entry, closed, reading, arrived, popped>>

NativeInit == /\ entry = "absent" /\ closed = FALSE /\ reading = TRUE
              /\ arrived = 0 /\ popped = 0

Inbox == (popped + 1)..arrived

Insert == /\ entry = "absent"
          /\ entry' = "present"
          /\ UNCHANGED <<closed, reading, arrived, popped>>

Arrive == /\ reading /\ arrived < MaxPeerFrames
          /\ arrived - popped < MAX_INBOX_FRAMES
          /\ arrived' = arrived + 1
          /\ UNCHANGED <<entry, closed, reading, popped>>

(* The tasks end one by one; either end closes the stream.                   *)
ReaderEnds == /\ reading
              /\ reading' = FALSE /\ closed' = TRUE
              /\ UNCHANGED <<entry, arrived, popped>>

WriterEnds == /\ ~closed
              /\ closed' = TRUE
              /\ UNCHANGED <<entry, reading, arrived, popped>>

Pop == /\ popped < arrived
       /\ popped' = popped + 1
       /\ UNCHANGED <<entry, closed, reading, arrived>>

(* close(), and the same for every entry that stop() drains.                 *)
Release == IF entry = "present"
           THEN /\ entry' = "removed" /\ closed' = TRUE
                /\ UNCHANGED <<reading, arrived, popped>>
           ELSE UNCHANGED nativeVars

NativeTasks == Arrive \/ ReaderEnds \/ WriterEnds

NativeSpec == NativeInit /\ [][Insert \/ NativeTasks \/ Pop \/ Release]_nativeVars
=============================================================================

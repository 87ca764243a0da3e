\* Nobody takes frames: the reader is stuck on a full inbox, the writer on
\* flow control, and the stream still ends and still drains.
SPECIFICATION Spec
CONSTANTS
  t1 = t1
  t2 = t2
  Senders = {t1}
  Receivers = {}
  MAX_FRAME_BYTES = 1
  SEND_QUEUE_FRAMES = 1
  MAX_SEND_QUEUE_BYTES = 2
  MAX_INBOX_FRAMES = 1
  MAX_INBOX_BYTES = 1
  Window = 1
  MaxSends = 3
  MaxPeerFrames = 2
PROPERTIES
  CloseEndsTasks
  AcceptedIsWritten

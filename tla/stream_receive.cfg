\* Two threads take frames from a small inbox that the reader task fills.
SPECIFICATION Spec
CONSTANTS
  t1 = t1
  t2 = t2
  Senders = {}
  Receivers = {t1, t2}
  MAX_FRAME_BYTES = 1
  SEND_QUEUE_FRAMES = 1
  MAX_SEND_QUEUE_BYTES = 2
  MAX_INBOX_FRAMES = 2
  MAX_INBOX_BYTES = 4
  Window = 1
  MaxSends = 0
  MaxPeerFrames = 5
SYMMETRY ThreadSymmetry
INVARIANTS
  DeliveredInOrder
PROPERTIES
  InboundIsChannel
  ConnectionIsNative

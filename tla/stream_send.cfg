\* Two threads send to a peer that may stall, stop, end or disappear.
SPECIFICATION Spec
CONSTANTS
  t1 = t1
  t2 = t2
  Senders = {t1, t2}
  Receivers = {}
  MAX_FRAME_BYTES = 2
  SEND_QUEUE_FRAMES = 1
  MAX_SEND_QUEUE_BYTES = 3
  MAX_INBOX_FRAMES = 1
  MAX_INBOX_BYTES = 2
  Window = 1
  MaxSends = 4
  MaxPeerFrames = 0
SYMMETRY ThreadSymmetry
INVARIANTS
  TypeOK
  PeerReadsInOrder
  CleanEndIsComplete
  PermitsConserved
PROPERTIES
  OutboundIsChannel

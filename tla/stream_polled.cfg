\* One receiver that keeps polling, as the JS pump does.
SPECIFICATION PolledSpec
CONSTANTS
  t1 = t1
  t2 = t2
  Senders = {}
  Receivers = {t1}
  MAX_FRAME_BYTES = 2
  SEND_QUEUE_FRAMES = 1
  MAX_SEND_QUEUE_BYTES = 2
  MAX_INBOX_FRAMES = 2
  MAX_INBOX_BYTES = 2
  Window = 1
  MaxSends = 0
  MaxPeerFrames = 2
INVARIANTS
  ReaderSleepsOnlyWhenFull
  InboxAccounted
  ReceiverSleepsOnlyWhenEmpty
PROPERTIES
  PolledFramesArrive

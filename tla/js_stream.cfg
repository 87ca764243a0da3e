\* Two listeners, a close handler, the last frame of the peer, two sends.
SPECIFICATION Spec
CONSTANTS
  m1 = m1
  m2 = m2
  c1 = c1
  c2 = c2
  Listeners = {m1, m2}
  Closers = {c1}
  MAX_INBOX_FRAMES = 2
  MaxPeerFrames = 1
  MaxSends = 2
INVARIANTS
  TypeOK
  OnePump
  EveryListenerEveryFrame
  ToldOnce
  ClosedIsReleased
  SendsInOrder
PROPERTIES
  CloseIsTold
  ArrivedIsTaken
  SendsSettle
CHECK_DEADLOCK FALSE

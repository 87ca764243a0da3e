\* The peer's last frame and the end of its stream arrive while the pump looks.
SPECIFICATION Spec
CONSTANTS
  m1 = m1
  m2 = m2
  c1 = c1
  c2 = c2
  Listeners = {m1}
  Closers = {}
  MAX_INBOX_FRAMES = 2
  MaxPeerFrames = 1
  MaxSends = 0
PROPERTIES
  PumpClosesDrained
\* A closed stream has nothing left to do.
CHECK_DEADLOCK FALSE

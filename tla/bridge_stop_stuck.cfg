\* Two forwarders: each has a pump that waits for the mutex on a worker thread.
SPECIFICATION Spec
CONSTANTS
  a1 = a1
  f1 = f1
  f2 = f2
  k1 = k1
  k2 = k2
  Callers = {a1}
  Forwarders = {f1, f2}
  PumpsPerForwarder = 1
  Keys = {k1}
  Workers = 2
  MAX_CACHED_SESSIONS = 1
  MaxStarts = 1
  MaxDials = 1
PROPERTIES
  StopReturns
CHECK_DEADLOCK FALSE

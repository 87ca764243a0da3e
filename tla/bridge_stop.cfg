\* One forwarder: its pumps leave a worker thread free for the endpoint to close.
SPECIFICATION Spec
CONSTANTS
  a1 = a1
  f1 = f1
  f2 = f2
  k1 = k1
  k2 = k2
  Callers = {a1}
  Forwarders = {f1}
  PumpsPerForwarder = 2
  Keys = {k1}
  Workers = 2
  MAX_CACHED_SESSIONS = 1
  MaxStarts = 2
  MaxDials = 1
PROPERTIES
  StopReturns
  StopEndsPumps

\* Every call over two endpoint ids, two sockets and a relay.
SPECIFICATION Spec
CONSTANTS
  i1 = i1
  i2 = i2
  s1 = s1
  s2 = s2
  r1 = r1
  Ids = {i1, i2}
  Sockets = {s1, s2}
  Relays = {r1}
  Width = 16
  DEFAULT_CONNECT_TIMEOUT_MS = 5
  HalfMs = {0, 1, 2, 3, 14, 31, 32}
INVARIANTS
  IdentityKept
  AddressesKept
  KnownDifferences
  TimeoutHonoured
\* A call ends when the dial begins or has been refused.
CHECK_DEADLOCK FALSE

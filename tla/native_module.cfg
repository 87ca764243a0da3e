\* Two runtimes, one after the other, two calls or futures in all.
SPECIFICATION Spec
CONSTANTS
  MaxBlocks = 7
  MaxLen = 2
  MaxArg = 1
  Functions <- ABufferAScalarNothing
  MaxRuntimes = 2
  MaxFutures = 2
  MaxCalls = 2
INVARIANTS
  TypeOK
  HeapIntact
  NothingHeldBetweenCalls
  CallbackReachesOwner
  ContextIsLive
PROPERTIES
  PromiseSettles
CHECK_DEADLOCK FALSE

\* A report that comes while the runtime is torn down.
SPECIFICATION Spec
CONSTANTS
  MaxBlocks = 7
  MaxLen = 2
  MaxArg = 1
  Functions <- ABufferAScalarNothing
  MaxRuntimes = 2
  MaxFutures = 2
  MaxCalls = 2
INVARIANTS
  NeverCallsDeadRuntime
CHECK_DEADLOCK FALSE

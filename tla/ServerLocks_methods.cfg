SPECIFICATION Spec
CONSTANTS
  Threads = {c1, c2}
  Names <- ServerLockNames
  Programs <- ServerPrograms
  Before <- ServerLockOrder
  WithMethods = TRUE
INVARIANT NoDeadlock

SPECIFICATION FairSpec
CONSTANTS
  Threads = {c1, c2}
  Names <- ServerLockNames
  Programs <- ServerPrograms
  Before <- ServerLockOrder
  WithMethods = FALSE
INVARIANTS LocksInOrder NoDeadlock
PROPERTY ProgramsEnd

SPECIFICATION FairSpec
CONSTANTS
  t1 = t1
  t2 = t2
  Threads <- MCThreads
  MaxCalls = 4
INVARIANTS
  TypeOK
  ContextBeforeWriter
  NoMutationForgotten
  SavedIsCovered
PROPERTIES
  SnapshotNeverRegresses
  NoWriteAfterClose
  EveryCallReturns
  MutationReachesDisk
CHECK_DEADLOCK FALSE

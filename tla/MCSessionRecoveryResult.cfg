SPECIFICATION Spec
CONSTANTS
  Fanout = 1
  MaxMessages = 2
  MaxRestarts = 1
INVARIANT
  CommittedResultSurvives

SPECIFICATION Spec
CONSTANTS
  MaxEvents = 5
  MaxFailures = 1
  MaxRestarts = 2
INVARIANTS
  TypeOK
  SequenceNeverReused
  AcknowledgedSurvives
  CleanCrashIsNotDegraded

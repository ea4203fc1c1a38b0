SPECIFICATION FairSpec
CONSTANTS
  MaxSteering = 3
  MaxPromotions = 2
  MaxTurns = 2
  MaxFailures = 1
  MaxCrashes = 2
INVARIANTS
  TypeOK
  SettledOnce
  MemoryMatchesLedger
PROPERTIES
  AdmittedIsSettled
  InterruptTakesEffect

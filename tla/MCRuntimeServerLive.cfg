SPECIFICATION FairSpec
CONSTANTS
  chat1 = chat1
  chat2 = chat2
  create = create
  pause = pause
  reset = reset
  exit = exit
  None = None
  Kind <- MCKind
  Subs = {chat1, pause}
  MaxSent = 2
  Slots = {1, 2}
PROPERTIES
  GoalContinues
  AcceptedRuns
  ClosingDrains

SPECIFICATION Spec
CONSTANTS
  chat1 = chat1
  chat2 = chat2
  create = create
  pause = pause
  reset = reset
  exit = exit
  None = None
  Kind <- MCKind
  Subs = {chat1, chat2, create, pause, reset, exit}
  MaxSent = 2
  Slots = {1, 2, 3}
INVARIANTS
  TypeOK
  OneForeground
  RunsOnce
PROPERTIES
  NoGoalRoundAfterStop

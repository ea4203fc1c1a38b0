SPECIFICATION Spec
CONSTANTS
  chat1 = chat1
  chat2 = chat2
  create = create
  pause = pause
  reset = reset
  exit = exit
  None = None
  Kind <- MCKind
  Subs = {chat1}
  MaxSent = 2
  Slots = {1, 2}
INVARIANTS
  ShutdownKeepsGoal

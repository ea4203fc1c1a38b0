SPECIFICATION Spec
CONSTANTS
  Fanout = 2
  MaxMessages = 3
  MaxRestarts = 2
INVARIANTS
  TypeOK
  ReplayIsLoadable
  ConversationSurvives

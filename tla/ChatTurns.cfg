SPECIFICATION Spec
CONSTANTS
  Prompts = {"p", "q"}
  MaxTurns = 2
  MaxFaults = 1
  MaxLoads = 1
  MaxRequests = 1
  MaxReconnects = 2
  ReconnectRetries = 1
  SavedTurnRetries = 1
CHECK_DEADLOCK FALSE
INVARIANTS ChatTypeOK OnlyTheTurnInProgressIsFollowed AnswersItsQuestion FailedPromptIsKept
PROPERTIES LostIsNotSaved StreamingEnds

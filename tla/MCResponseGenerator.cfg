SPECIFICATION Spec
CONSTANTS
  c1 = c1
  c2 = c2
  c3 = c3
  Clients = {c1, c2, c3}
  MayAsk <- Mixed
  Hits = {0, 2}
  DecodeConcurrency = 1
  PromptConcurrency = 1
  CancelActive = TRUE
  None = None
  MaxLag = 1
INVARIANTS ResultsMatchBatch ActiveIsServed NoneDropped ResponsesInOrder SavedUnderOwnType
PROPERTIES ConnectedAnswered AllReleased
CHECK_DEADLOCK FALSE

SPECIFICATION Spec
CONSTANTS
  c1 = c1
  c2 = c2
  c3 = c3
  Clients = {c1, c2}
  MayAsk <- TwoChats
  Hits = {0}
  DecodeConcurrency = 1
  PromptConcurrency = 1
  CancelActive = TRUE
  None = None
  MaxLag = 2
PROPERTIES HandlersReturn
CHECK_DEADLOCK FALSE

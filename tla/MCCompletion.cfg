SPECIFICATION Spec
CONSTANTS
  w = w
  x = x
  l = l
  a = a
  b = b
  e = e
  Requests <- AllRequests
  NgramSize = 2
  Repeats = 2
  MinTokens = 4
  ToolMax = 3
  ReasoningMax = 4
INVARIANTS DeliveredAsGenerated GuardsHold EventsWellFormed

SPECIFICATION Spec
CONSTANTS
  m1 = m1
  m2 = m2
  a = a
  b = b
  Models <- TwoModels
  Tokens <- TwoTokens
  Prompts <- RootPrompts
  Sizes <- OneTwo
  MaxSize = 2
  MaxBytes = 3
  Limits = {0}
  FlushEnabled = TRUE
INVARIANT FlushCompletes

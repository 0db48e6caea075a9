SPECIFICATION Spec
CONSTANTS
  m1 = m1
  m2 = m2
  a = a
  b = b
  Models <- OneModel
  Tokens <- TwoTokens
  Prompts <- ChainPrompts
  Sizes <- OneTwo
  MaxSize = 2
  MaxBytes = 3
  Limits = {0}
  FlushEnabled = TRUE
INVARIANTS OrdersMatchTrie TrieWellFormed BytesAccounted WithinLimits FetchNearest
PROPERTIES LostForRoom CallReturns

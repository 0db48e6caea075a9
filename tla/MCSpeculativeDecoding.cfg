SPECIFICATION Spec
CONSTANTS
  a = a
  e = e
  Tokens = {a, e}
  Eos = e
  Prompt <- TokensAsked
  User = a
  Turns = 2
  Setups <- AllSetups
  MaxTokens = 6
  PrefillStep = 2
  MinDrafted = 2
  MinRate = 50
INVARIANTS HistoryWhole CachesInStep
PROPERTY DecodesAsPlain

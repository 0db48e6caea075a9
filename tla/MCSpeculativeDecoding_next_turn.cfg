SPECIFICATION Spec
CONSTANTS
  a = a
  e = e
  Tokens = {a, e}
  Eos = e
  Prompt <- TokensAsked
  User = a
  Turns = 3
  Setups <- LayerOnly
  MaxTokens = 5
  PrefillStep = 2
  MinDrafted = 2
  MinRate = 50
INVARIANT TurnsWhole

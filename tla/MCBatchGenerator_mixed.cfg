SPECIFICATION Spec
CONSTANTS
  None = None
  MaxRequests = 3
  Segmentings <- MixedSegmentings
  MaxTokens = {1, 2}
  MaxDecoded = 2
  Processors = {TRUE}
  Caches <- OnlyFresh
  PrefillStep = 2
  PrefillBatch = 2
  CompletionBatch = 2
  Quantize = TRUE
  QuantizeFrom = 3
INVARIANT NeverRaises

CHECK_DEADLOCK FALSE

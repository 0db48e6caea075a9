SPECIFICATION Spec
CONSTANTS
  None = None
  MaxRequests = 3
  Segmentings <- ShortSegmentings
  MaxTokens = {1, 2}
  MaxDecoded = 2
  Processors = {TRUE, FALSE}
  Caches <- OnlyFresh
  PrefillStep = 2
  PrefillBatch = 2
  CompletionBatch = 2
  Quantize = FALSE
  QuantizeFrom = 0
INVARIANT LogitsOwn

CHECK_DEADLOCK FALSE

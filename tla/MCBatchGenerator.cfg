SPECIFICATION Spec
CONSTANTS
  None = None
  MaxRequests = 3
  Segmentings <- MixedSegmentings
  MaxTokens <- OneOrUnlimited
  MaxDecoded = 2
  Processors = {TRUE}
  Caches <- FreshOrQuantized
  PrefillStep = 2
  PrefillBatch = 2
  CompletionBatch = 2
  Quantize = TRUE
  QuantizeFrom = 0
INVARIANTS WorkAligned LogitsOwn
PROPERTIES NoOvertaking EachAsIfAlone EverySequenceEnds
CHECK_DEADLOCK FALSE

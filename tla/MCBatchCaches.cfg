SPECIFICATION Spec
CONSTANTS
  Step = 2
  MaxSize = 3
  Keep = 1
  ChunkSize = 4
  Models <- Transformers
  MaxBirths = 3
  MaxHeld = 6
  MaxChunk = 3
  MaxRows = 3
  MaxAdmit = 2
INVARIANTS AttendsToWindow RowsHold

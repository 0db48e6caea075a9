SPECIFICATION Spec
CONSTANTS
  c1 = c1
  c2 = c2
  c3 = c3
  Size = 2
  Clients = {c1, c2, c3}
  MayAsk <- Topics
  Leavers = {}
  Models = {"m"}
  IndexerTypes <- Uneven
  Budget = 2
  Iterations = 2
  SyncFrequency = 2
  PassTimes <- Times
  CacheSize = 2
  CacheBytes = 3
  None = None
INVARIANT InLockstep

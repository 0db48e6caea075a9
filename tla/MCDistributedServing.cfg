SPECIFICATION Spec
CONSTANTS
  c1 = c1
  c2 = c2
  c3 = c3
  Size = 3
  Clients = {c1, c2, c3}
  MayAsk <- Mixed
  Leavers = {c1}
  Models = {"m", "other"}
  IndexerTypes <- Stages
  Budget = 2
  Iterations = 2
  SyncFrequency = 2
  PassTimes <- Times
  CacheSize = 2
  CacheBytes = 0
  None = None
INVARIANTS InLockstep ReplicasAgree

PROPERTY Answered

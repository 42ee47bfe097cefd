SPECIFICATION FairSpec
CONSTANTS
  Kinds = {"wanted"}
  Buffer = 1
  MaxEvents = 3
  MaxSubs = 2
  MaxWork = 5
  BatchSize = 2
  MaxInFlight = 2
  MaxConcurrent = 1
  MaxAttempts = 2
  MaxChanges = 1
  None = None
CHECK_DEADLOCK FALSE
INVARIANTS BacklogIsBounded EventsAccountedFor BackendShutDownLast
PROPERTY BufferIsFlushed

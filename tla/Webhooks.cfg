SPECIFICATION FairSpec
CONSTANTS
  Kinds = {"wanted"}
  Buffer = 1
  MaxEvents = 2
  MaxSubs = 2
  MaxWork = 5
  Callers = {c1, c2}
  Configs <- OnePlain
  MaxChanges = 1
  MaxPending = 1
  MaxConcurrent = 1
  MaxAttempts = 2
  None = None
CHECK_DEADLOCK FALSE
INVARIANTS PermitsConserved NoTwin ListedIsListening EventsAccountedFor RegistryIsCurrent
PROPERTY ShutdownCompletes

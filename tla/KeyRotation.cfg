SPECIFICATION Spec
SYMMETRY Swap
CONSTANTS
  m1 = m1
  m2 = m2
  t1 = t1
  t2 = t2
  t3 = t3
  Managers = {m1, m2}
  Tasks = {t1, t2, t3}
  Owner <- Cloned
  Keep = 2
  MaxVersions = 4
  MaxMasters = 2
  MaxDues = 1
  MaxCalls = 4
  MaxFaults = 1
  None = None
CHECK_DEADLOCK FALSE
INVARIANTS EveryKeyIsReadable OneActiveVersion DueOnce CachedWasStored

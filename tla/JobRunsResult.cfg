SPECIFICATION Spec
SYMMETRY Symmetry
CONSTANTS
  Jobs = {j1}
  CronJobs = {}
  Workers = {w1, w2}
  Stamps = {t1, t2, t3}
  NoStamp = NoStamp
  NoRun = NoRun
  NoWorker = NoWorker
  MaxAttempts = 2
  AttemptCap = 3
  AttemptBound = 3
  LeaseTicks = 1
  MaxDelay = 0
PROPERTY CompletedResultIsFixed

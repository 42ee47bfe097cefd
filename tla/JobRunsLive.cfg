SPECIFICATION CanonicalSpec
CONSTANTS
  Jobs = {j1}
  CronJobs = {}
  Workers = {w1, w2}
  Stamps = {1, 2, 3}
  NoStamp = NoStamp
  NoRun = NoRun
  NoWorker = NoWorker
  MaxAttempts = 2
  AttemptCap = 2
  AttemptBound = 2
  LeaseTicks = 1
  MaxDelay = 0
PROPERTIES CompletedIsFinal RunsEnd RunnableIsClaimed

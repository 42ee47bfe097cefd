SPECIFICATION FairSpec
CONSTANTS
  Workers = {w1}
  Jobs = {j1, j2}
  FailFastJobs = {j1}
  NoWorker = NoWorker
  BatchSize = 2
  BatchConcurrency = 2
  MaxConcurrent = 2
  Burst = 2
  MaxRefills = 1
PROPERTIES WorkerStops

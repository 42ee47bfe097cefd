SPECIFICATION Spec
SYMMETRY Symmetry
CONSTANTS
  Workers = {w1, w2}
  Jobs = {j1, j2}
  FailFastJobs = {j1}
  NoWorker = NoWorker
  BatchSize = 2
  BatchConcurrency = 1
  MaxConcurrent = 3
  Burst = 2
  MaxRefills = 1
INVARIANTS RateIsKept PermitsConserved NothingLeftBehind

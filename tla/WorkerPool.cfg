SPECIFICATION FairSpec
CONSTANTS
  Initial = 1
  Others = 1
  MinWorkers = 2
  MaxWorkers = 3
  ScaleStep = 2
  ScaleUpThreshold = 2
  ScaleDownThreshold = 1
  Depths = {0, 9}
  MaxScales = 3
  NoTask = NoTask
INVARIANTS SlotsAreManned ScalingIsApplied
PROPERTY PoolStops
CHECK_DEADLOCK FALSE

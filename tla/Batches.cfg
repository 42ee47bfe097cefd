SPECIFICATION FairSpec
CHECK_DEADLOCK FALSE
CONSTANTS
  a = a  b = b  c = c  d = d  e = e  x = x  y = y
  Jobs = {a, b, c, x, y}
  DependsOn <- Mixed
  Members = {a, b}
  Children <- NoJobs
  BatchJobs = {x, y}
  Policies = {"FailFast", "ContinueOnFailure"}
  Modes = {"ContinueOnError", "FailFast"}
  MaxManual = 1
INVARIANTS BatchIsClosed NotForgotten
PROPERTIES WorkflowEnds BatchEnds

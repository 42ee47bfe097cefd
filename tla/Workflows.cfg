SPECIFICATION Spec
CHECK_DEADLOCK FALSE
CONSTANTS
  a = a  b = b  c = c  d = d  e = e  x = x  y = y
  Jobs = {a, b, c, d, e}
  DependsOn <- Diamond
  Members = {a, b, c, d}
  Children <- DiamondChildren
  BatchJobs = {}
  Policies = {"FailFast", "ContinueOnFailure", "Manual"}
  Modes = {"ContinueOnError"}
  MaxManual = 3
INVARIANTS StartsAfterDependencies NotForgotten NoDoomedWaiter CompletedIsEarned WorkflowIsClosed CancelledStaysStopped

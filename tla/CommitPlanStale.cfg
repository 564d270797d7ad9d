SPECIFICATION PlanSpec
CONSTANTS
  Files = {f1, f2}
  MaxVersion = 2
  MaxOutside = 1
INVARIANT NoStalePlan
CHECK_DEADLOCK FALSE

SPECIFICATION Spec
CONSTANTS
  Policies <- AllPolicies
  Totals = {1, 5, 10}
  Systems = {0, 3}
  Outputs = {1}
  MaxRequests = 2
  None = None
  Stop = Stop
INVARIANTS RamWhole
CHECK_DEADLOCK FALSE

SPECIFICATION Spec
CONSTANTS
  None = None
  m1 = m1  m2 = m2
  Machine <- MCMachines
  Part <- MCParts
  Builds <- Negated
  Order <- MCOrder
  Version = {0, 1}
  MaxEdits = 1
  MaxRuns = 3
INVARIANTS RunsSources
CHECK_DEADLOCK FALSE

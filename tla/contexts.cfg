SPECIFICATION Spec
CONSTANTS
  None = None
  p1 = p1  p2 = p2
  prod = prod  stage = stage  test = test
  s1 = s1  s2 = s2
  Process <- MCProcesses
  Name <- MCNames
  Server <- MCServers
  MaxRuns = 4
SYMMETRY Symmetry
CHECK_DEADLOCK FALSE
INVARIANTS TypeOK OneServer CurrentExists

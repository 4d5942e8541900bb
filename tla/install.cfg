SPECIFICATION Spec
CONSTANTS
  None = None
  m1 = m1  m2 = m2
  Machine <- MCMachines
  Local <- MCLocal
  Scenarios <- MCScenarios
  MaxPasswords = 2
  MaxKills = 2
CHECK_DEADLOCK FALSE
INVARIANTS TypeOK PullsWork AddressHeld FixesSuffice
PROPERTIES ContourComes

SPECIFICATION Spec
CONSTANTS
  None = None
  s1 = s1  s2 = s2
  m1 = m1  m2 = m2
  web = web  db = db  jobs = jobs
  Server <- MCServers
  Machine <- MCMachines
  Workload = {web, db, jobs}
  Type <- MCTypes
  Replicas <- MCReplicas
  Plans <- MCPlans
  Slot = {1, 2}
  MaxFresh = 3
  MaxKills = 1
CHECK_DEADLOCK FALSE
INVARIANTS TypeOK RestoreExact RestartsAsFound SnapshotsReadable
PROPERTIES CopyFaithful

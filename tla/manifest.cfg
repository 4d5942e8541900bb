SPECIFICATION Spec
CONSTANTS
  None = None
  DOMAIN1 = DOMAIN1
  ServiceNames <- MCServiceNames
  VolumeNames <- MCVolumeNames
  Numerals <- MCNumerals
  Host <- MCHosts
  Variable = {DOMAIN1}
  Bases <- MCBases
  Values <- MCValues
  NewService <- Image
  NewVolumes <- MCVolumes
  Rank <- MCRank
  MaxEdits = 2
CHECK_DEADLOCK FALSE
INVARIANTS TypeOK NothingOverwritten ClusterIsManifest ReferencesResolve BackupsCover RoutesApart TargetsResolve

SPECIFICATION FairSpec
CONSTANTS
  blog = blog
  shop = shop
  p1 = p1
  p2 = p2
  h1 = h1
  h2 = h2
  registry = registry
  blog1 = blog1
  blog2 = blog2
  shop1 = shop1
  shop2 = shop2
  shop3 = shop3
  None = None
  Credential = Credential
  App = {blog}
  Proc = {p1, p2}
  Host = {h1, h2, registry}
  Manifest = {blog1, blog2}
  AppObject <- SmallObjects
  WorksOn <- Everything
  Commands <- UpAndRollback
  Versions <- MCVersions
  Render <- SmallRender
  Routes <- MCRoutes
  ClaimTemplates <- MCTemplates
  Backed = {}
  ServerHosts = {registry}
  PrunableGVRs <- SmallGVRs
  KeepReleases = 1
  MaxRevision = 3
PROPERTIES StateSurvives CommandsEnd

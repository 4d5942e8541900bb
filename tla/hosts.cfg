SPECIFICATION Spec
CONSTANTS
  blog = blog
  shop = shop
  p1 = p1
  p2 = p2
  h1 = h1
  h2 = h2
  registry = registry
  blog1 = blog1
  blog2 = blog2
  shop1 = shop1
  shop2 = shop2
  shop3 = shop3
  None = None
  Credential = Credential
  App = {blog, shop}
  Proc = {p1}
  Host = {h1, h2, registry}
  Manifest = {blog1, blog2, shop1, shop2, shop3}
  AppObject <- LargeObjects
  WorksOn <- Everything
  Commands <- UpAndDown
  Versions <- MCVersions
  Render <- LargeRender
  Routes <- MCRoutes
  ClaimTemplates <- MCTemplates
  Backed = {blog1}
  ServerHosts = {registry}
  PrunableGVRs <- LargeGVRs
  KeepReleases = 1
  MaxRevision = 1
INVARIANTS HostsExclusive

------------------------------ MODULE MCDeploy ------------------------------
(***************************************************************************)
(* Instances of Deploy for TLC: two apps, blog with two versions that      *)
(* differ in objects of every kind and shop with versions that want the    *)
(* same hosts or the server's; a large instance for one machine and a      *)
(* small one for two.                                                      *)
(***************************************************************************)
EXTENDS Deploy

CONSTANTS blog, shop,                   \* apps
          p1, p2,                       \* machines
          h1, h2, registry,             \* hosts
          blog1, blog2, shop1, shop2, shop3  \* manifests

Thing(gvr, name) == [gvr |-> gvr, name |-> name, rev |-> 0]
data    == Thing("persistentvolumeclaims", "data")
dbClaim == Thing("persistentvolumeclaims", "db-0")
web     == Thing("deployments", "web")
db      == Thing("statefulsets", "db")
ingress == Thing("ingresses", "web")
proxy   == Thing("httpproxies", "www")
env     == Thing("secrets", "web-secrets")

\* blog1 serves h1 from an ingress, mounts a standalone claim and has a secret;
\* blog2 has dropped these, redirects h2 and adds a StatefulSet with its own
\* claim; both have the Deployment.
\* shop1 wants h1 from an ingress, shop2 redirects h2, shop3 wants the host
\* of the server's registry.
LargeObjects == {data, dbClaim, web, db, ingress, proxy, env}
LargeGVRs == <<"deployments", "statefulsets", "ingresses", "httpproxies", "secrets">>
LargeRender ==
  [m \in Manifest |->
     CASE m = blog1 -> <<data, env, web, ingress>>
       [] m = blog2 -> <<proxy, db, web>>
       [] m = shop1 -> <<web, ingress>>
       [] m = shop2 -> <<proxy, web>>
       [] m = shop3 -> <<ingress>>]

\* The same in small: the versions of blog still share no object.
SmallObjects == {data, ingress, env}
SmallGVRs == <<"ingresses", "secrets">>
SmallRender ==
  [m \in Manifest |->
     CASE m = blog1 -> <<data, env>>
       [] m = blog2 -> <<ingress>>]

MCRoutes ==
  [m \in Manifest |->
     [o \in AppObject |-> CASE o = ingress -> {IF m = shop3 THEN registry ELSE h1}
                            [] o = proxy -> {h2}
                            [] OTHER -> {}]]
MCVersions == [a \in App |-> Manifest \cap IF a = blog THEN {blog1, blog2} ELSE {shop1, shop2, shop3}]
MCTemplates == [o \in AppObject |-> IF o = db THEN {dbClaim} ELSE {}]

\* Every machine deploys everything.
Everything == [p \in Proc |-> App]

AllCommands   == {"up", "rollback", "down", "down --volumes"}
UpAndRollback == {"up", "rollback"}
UpAndDown     == {"up", "down"}
=============================================================================

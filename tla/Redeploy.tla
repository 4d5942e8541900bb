------------------------------ MODULE Redeploy ------------------------------
(***************************************************************************)
(* An app that is edited and deployed again: the jekyo.yaml changes, `up`  *)
(* parses, compiles, applies and prunes, and what an earlier version left  *)
(* in the namespace meets the objects of the next one.                     *)
(*                                                                         *)
(* Deploy has the calls of one deployment and their interleavings, with    *)
(* the manifest a constant.  Here a deployment is one step, and what it    *)
(* applies is computed from the file.  The API server refuses some of the  *)
(* objects; then those before it have been applied and nothing is pruned.  *)
(***************************************************************************)
EXTENDS Compile

CONSTANTS
  Bases,      \* the files to start from
  Values,     \* attribute of a service -> the values it is edited to
  NewService, \* what a service is when it is added
  NewVolumes, \* what a volume is when it is added or changed
  Rank(_),    \* a claim's name -> its place in the order of strings
  MaxEdits    \* bound: edits of the file and of the environment

ASSUME RedeployAssumption ==
  /\ Bases \subseteq App /\ NewService \in Service /\ NewVolumes \subseteq Volume
  /\ DOMAIN Values \subseteq DOMAIN Plain
  /\ \A a \in DOMAIN Values : \A x \in Values[a] : [Plain EXCEPT ![a] = x] \in Service
  /\ MaxEdits \in Nat

\* The words of names: any, and those the compiler adds.
Words == STRING \cup {"secrets", "files", "secret", "nodeport", "tls", "egress", "backup", "r",
                      "jekyo", "registry", "pull"}

\* The restic repositories, and what the backup commands make of a target.
Repositories == Seq(Seq(Words))
Targets == [claim : [gvr : {"persistentvolumeclaims"}, name : Seq(STRING)], repo : Repositories]

Replica == 0..(Len(Numerals) - 1)

\* The names claims can have.
ClaimName ==
  VolumeName \cup {TemplateClaim(v, s, i) : v \in VolumeName, s \in ServiceName, i \in Replica}

ASSUME RankAssumption == \A n \in ClaimName : Rank(n) \in Nat

ASSUME NoneAssumption == None \notin Nat \cup Repositories \cup Targets

VARIABLES
  file,      \* the jekyo.yaml
  env,       \* Variable -> its value, None if it is not set
  target,    \* is a backup target configured
  cluster,   \* the objects in the app's namespace: a function from Id to spec
  deployed,  \* the app and the target the last up compiled, None if it did not
             \* get through or the app has been taken down
  edits

vars == <<file, env, target, cluster, deployed, edits>>

Present == DOMAIN cluster
Of(gvr) == {o \in Present : o.gvr = gvr}

TypeOK ==
  /\ file \in App
  /\ env \in [Variable -> Host \cup {None}]
  /\ target \in BOOLEAN
  /\ \A o \in Present : o.gvr \in PrunableGVRs \cup {"persistentvolumeclaims"}
  /\ deployed # None => Valid(deployed.app)
  /\ edits \in 0..MaxEdits

Init ==
  /\ file \in Bases
  /\ env = [x \in Variable |-> None]
  /\ target = FALSE
  /\ cluster = <<>>
  /\ deployed = None
  /\ edits = 0

-----------------------------------------------------------------------------
\* What the API server refuses: another claim template for a StatefulSet that
\* exists, one port twice in a Service, a probe of port 0.
Refused(o) ==
  \/ /\ o.id.gvr = "statefulsets" /\ o.id \in Present
     /\ cluster[o.id].templates # o.spec.templates
  \/ o.id.gvr = "services" /\ ~IsInjective(o.spec.ports)
  \/ 0 \in Range(o.spec.ports)

-----------------------------------------------------------------------------
(***************************************************************************)
(* The user.                                                               *)
(***************************************************************************)

Edits == edits < MaxEdits /\ edits' = edits + 1 /\ UNCHANGED <<target, cluster, deployed>>

EditService(s, a, x) ==
  /\ Edits /\ UNCHANGED env
  /\ file.services[s] # None /\ file.services[s][a] # x
  /\ file' = [file EXCEPT !.services[s][a] = x]

AddService(s) ==
  /\ Edits /\ UNCHANGED env
  /\ file.services[s] = None
  /\ file' = [file EXCEPT !.services[s] = NewService]

RemoveService(s) ==
  /\ Edits /\ UNCHANGED env
  /\ file.services[s] # None
  /\ file' = [file EXCEPT !.services[s] = None]

EditVolume(v, x) ==
  /\ Edits /\ UNCHANGED env
  /\ file.volumes[v] # x
  /\ file' = [file EXCEPT !.volumes[v] = x]

Export(x, h) ==
  /\ Edits /\ UNCHANGED file
  /\ env[x] # h
  /\ env' = [env EXCEPT ![x] = h]

ConfigureBackup ==
  /\ ~target /\ target' = TRUE
  /\ UNCHANGED <<file, env, cluster, deployed, edits>>

-----------------------------------------------------------------------------
(***************************************************************************)
(* jekyo up and jekyo down.                                                *)
(***************************************************************************)

\* The objects are applied in order up to the first that is refused.
Applied(objs) == {i \in DOMAIN objs : \A j \in 1..i : ~Refused(objs[j])}
IdsOf(objs) == {objs[i].id : i \in DOMAIN objs}
LastOf(objs, is, id) == Max({i \in is : objs[i].id = id})

\* The namespace after the objects objs[i], i \in is, have been applied, the
\* last of a name last.
With(objs, is) ==
  LET ids == {objs[i].id : i \in is}
  IN  [id \in Present \cup ids |-> IF id \in ids THEN objs[LastOf(objs, is, id)].spec ELSE cluster[id]]

\* prune: what a sweep takes that was not applied.
Pruned(store, ids) == Restrict(store, {id \in DOMAIN store : id \in ids \/ id.gvr \notin PrunableGVRs})

Up ==
  LET app  == Parse(file, env)
      objs == Objects(app, target)
      is   == Applied(objs)
  IN  /\ app # None
      /\ IF is = DOMAIN objs
         THEN /\ cluster' = Pruned(With(objs, is), IdsOf(objs))
              /\ deployed' = [app |-> app, target |-> target]
         ELSE /\ cluster' = With(objs, is)
              /\ deployed' = None
      /\ UNCHANGED <<file, env, target, edits>>

\* A plain down keeps the claims and, for them, the namespace.
Down ==
  /\ Present # {}
  /\ cluster' = Pruned(cluster, {})
  /\ deployed' = None
  /\ UNCHANGED <<file, env, target, edits>>

-----------------------------------------------------------------------------
(***************************************************************************)
(* Kubernetes.  The StatefulSet controller makes the claims of a           *)
(* StatefulSet's replicas and never takes one away.                        *)
(***************************************************************************)

TemplateClaims(o) ==
  {Id("persistentvolumeclaims", TemplateClaim(v, o.name, i)) :
     v \in cluster[o].templates, i \in 0..(cluster[o].replicas - 1)}

CreateClaims ==
  LET missing == (UNION {TemplateClaims(o) : o \in Of("statefulsets")}) \ Present
  IN  /\ missing # {}
      /\ cluster' = [id \in Present \cup missing |-> IF id \in missing THEN Bare ELSE cluster[id]]
      /\ UNCHANGED <<file, env, target, deployed, edits>>

Next ==
  \/ \E s \in ServiceName :
       \/ \E a \in DOMAIN Values : \E x \in Values[a] : EditService(s, a, x)
       \/ AddService(s) \/ RemoveService(s)
  \/ \E v \in VolumeName : \E x \in NewVolumes \cup {None} : EditVolume(v, x)
  \/ \E x \in Variable : \E h \in Host \cup {None} : Export(x, h)
  \/ ConfigureBackup \/ Up \/ Down \/ CreateClaims

Spec == Init /\ [][Next]_vars

-----------------------------------------------------------------------------
(***************************************************************************)
(* backupTarget: the claim and the repository of the commands that are     *)
(* given <app>/<volume>[/<replica>]; None is a target that is refused.     *)
(***************************************************************************)

ClaimsNamed(v) == {c \in Of("persistentvolumeclaims") : IsPrefix(v, c.name)}
OfReplica(cs, r) == {c \in cs : Len(c.name) > 1 /\ Last(c.name) = Ordinal(r)[1]}
Suffixed(v, r)   == IF r = None THEN <<v>> ELSE <<v, <<"r">> \o Ordinal(r)>>

\* The scheduled backups of a volume: a listing of the CronJobs that fails
\* (not seen) is taken for one in which there are none.
Scheduled(v, seen) == {o \in Of("cronjobs") : seen /\ cluster[o].label # None /\ cluster[o].label.volume = v}

\* The claim that sort.Strings puts first.
First(cs) == CHOOSE c \in cs : \A d \in cs : Rank(c.name) <= Rank(d.name)

\* The claims that fit a target: those of its scheduled backup, or those present.
Fitting(v, r, seen) ==
  LET jobs == Scheduled(v, seen)
  IN  IF jobs # {} THEN UNION {cluster[o].uses : o \in {p \in jobs : cluster[p].label.replica = r}}
      ELSE IF r # None THEN OfReplica(ClaimsNamed(v), r)
      ELSE ClaimsNamed(v)

\* Slip: a volume with several claims taken for its first one.
BackupTargetFirst(v, r, seen) ==
  LET claims == Fitting(v, r, seen)
  IN  IF claims = {} THEN None ELSE [claim |-> First(claims), repo |-> Suffixed(v, r)]

BackupTarget(v, r, seen) ==
  LET claims == Fitting(v, r, seen)
  IN  IF claims = {} \/ (r = None /\ Cardinality(claims) > 1) THEN None
      ELSE [claim |-> First(claims), repo |-> Suffixed(v, r)]

-----------------------------------------------------------------------------
(***************************************************************************)
(* The names of objects are joined from those of services, volumes, hosts  *)
(* and replicas with dashes, and a name may have dashes itself: web-nodeport*)
(* is the NodePort Service of web and the Service of web-nodeport, and as  *)
(* second and third host api.dev and api-dev share web-tls-api-dev.        *)
(* validate refuses no such names.  Some of the properties hold for the    *)
(* files that have none:                                                   *)
(***************************************************************************)

\* NodePortsApart: no service has the name of another's NodePort Service.
NodePortsApart(ss) == \A s, t \in ss : NodePortName(s) # t

\* CertificatesApart: no two hosts of a service after its first differ only in
\* where they have dots and dashes, and no service's name is another's with
\* tls and more behind it.
CertificatesApart(app) ==
  /\ \A s \in Services(app) :
       LET hosts == HostsOf(app.services[s]) IN
       \A i, j \in DOMAIN hosts \ {1} : HostSlug(hosts[i]) = HostSlug(hosts[j]) => i = j
  /\ \A s, t \in Services(app) : ~IsPrefix(s \o <<"tls">>, t)

\* RedirectsApart: the name of no redirect begins with another's.
RedirectsApart(app) ==
  LET redirects == {s \in Services(app) : IsRedirect(app.services[s])}
  IN  \A s, t \in redirects : IsPrefix(s, t) => s = t

\* CronJobsApart: no two volumes have backup jobs of one name, and no backup
\* job has that of a service.
CronJobsApart(ss, vs) ==
  \A v, w \in vs : \A i, j \in Replica : \A m, n \in {1, 2} :
    /\ BackupJobName(v, i, m) = BackupJobName(w, j, n) => v = w
    /\ BackupJobName(v, i, m) \notin ss

\* ClaimsApart: no two volumes have a claim of one name.
ClaimsApart ==
  \A v, w \in VolumeName : \A s, t \in ServiceName : \A i, j \in Replica :
    /\ TemplateClaim(v, s, i) = TemplateClaim(w, t, j) => v = w
    /\ TemplateClaim(v, s, i) # w

NamesApart(app) ==
  /\ NodePortsApart(Services(app)) /\ CertificatesApart(app) /\ RedirectsApart(app)
  /\ CronJobsApart(Services(app), Volumes(app))

-----------------------------------------------------------------------------
(***************************************************************************)
(* Properties of the objects of an app that was deployed.                  *)
(***************************************************************************)

\* Ignored: what Compile leaves out although validate accepts it: a scheduled
\* service gets no Secret and no ConfigMap for its secrets and files.
Ignored(svc) == svc.schedule /\ (svc.secrets \/ svc.files # {})

BackupsOf(c) == {o \in Of("cronjobs") : cluster[o].repo # None /\ c \in cluster[o].uses}

\* The claims of the pods of one service that are for one volume.
ClaimsFor(app, s, v) ==
  LET o == Workload(app, s)
  IN  IF Id("persistentvolumeclaims", v) \in o.spec.uses THEN {Id("persistentvolumeclaims", v)}
      ELSE IF v \in o.spec.templates
           THEN {Id("persistentvolumeclaims", TemplateClaim(v, s, i)) : i \in 0..(o.spec.replicas - 1)}
           ELSE {}

\* NothingOverwritten: of the objects compiled from an accepted file no two
\* have the same resource and name (the second would silently replace the
\* first, since apply forces), unless the file has names that are joined to the
\* same one: the code lets these through, a service web-nodeport beside one web
\* with a NodePort.
NothingOverwritten ==
  deployed # None /\ NamesApart(deployed.app) =>
    LET objs == Objects(deployed.app, deployed.target) IN Cardinality(IdsOf(objs)) = Len(objs)

\* ClusterIsManifest: after an up that got through the namespace holds, beside
\* claims, exactly what the file compiled to, whatever had been there before.
ClusterIsManifest ==
  deployed # None =>
    Present \ Of("persistentvolumeclaims") =
    IdsOf(Objects(deployed.app, deployed.target)) \ Of("persistentvolumeclaims")

\* ReferencesResolve: every secret, config map, claim and Service that a pod or
\* an Ingress refers to is in the namespace (claims of templates are the
\* controller's), and an Ingress routes to a port its Service has.
ReferencesResolve ==
  deployed # None =>
    \A s \in Services(deployed.app) : ~Ignored(deployed.app.services[s]) =>
      LET objs == ServiceObjects(deployed.app, s) IN
      \A i \in DOMAIN objs :
        /\ objs[i].spec.uses \subseteq Present
        /\ objs[i].spec.backend # 0 =>
             \E u \in objs[i].spec.uses : objs[i].spec.backend \in Range(cluster[u].ports)

\* BackupsCover: each claim that pods mount for a volume with a backup has
\* exactly one backup job, no two jobs of an app share a repository (a restore
\* could not tell their snapshots apart), and with a target none is suspended.
BackupsCover ==
  deployed # None =>
    /\ \A v \in Volumes(deployed.app), s \in Services(deployed.app) :
         deployed.app.volumes[v].backup =>
           \A c \in ClaimsFor(deployed.app, s, v) : Cardinality(BackupsOf(c)) = 1
    /\ \A o, p \in Of("cronjobs") :
         o # p /\ cluster[o].repo # None => cluster[o].repo # cluster[p].repo
    /\ deployed.target => \A o \in Of("cronjobs") : ~cluster[o].suspended

\* RoutesApart: no host is routed by two objects of the app, and no two hosts
\* have their certificates issued into one secret, where one host that fails
\* its challenge would leave the other without.  The comment of tlsSecretName
\* says so of every host (compile.go:1004); the code joins names, and hosts
\* that differ only in dots and dashes do share one.
RoutesApart ==
  deployed # None =>
    LET certs == UNION {cluster[o].certs : o \in Present}
    IN  /\ \A o, p \in Present : o # p => cluster[o].hosts \cap cluster[p].hosts = {}
        /\ CertificatesApart(deployed.app) => \A c, d \in certs : c.secret = d.secret => c = d

\* TargetsResolve: what the backup commands resolve agrees with what the
\* scheduled backups do, and with the claims that the pods mount, whether the
\* CronJobs can be listed or not:
\*   the volume and the replica of a scheduled backup resolve to its claim and
\*   repository;
\*   a volume that resolves does so to a claim that pods mount, if they mount
\*   any.  Excepted is a replica named where no backup is seen, if the namespace
\*   holds another claim that fits, of an earlier version or of a volume whose
\*   name goes on: then the first in the order of names is taken;
\*   a replica named is never taken for another one, and where no backup is seen
\*   each that pods have resolves.
TargetsResolve ==
  deployed # None /\ UNION {TemplateClaims(o) : o \in Of("statefulsets")} \subseteq Present =>
    /\ \A o \in Of("cronjobs") : cluster[o].label # None =>
         LET found == BackupTarget(cluster[o].label.volume, cluster[o].label.replica, TRUE)
         IN  found # None /\ found.claim \in cluster[o].uses /\ found.repo = cluster[o].repo
    /\ \A v \in Volumes(deployed.app), r \in Replica \cup {None}, seen \in BOOLEAN :
         LET found   == BackupTarget(v, r, seen)
             mounted == UNION {ClaimsFor(deployed.app, s, v) : s \in Services(deployed.app)}
             guessed == r # None /\ Scheduled(v, seen) = {}
         IN  /\ found # None /\ mounted # {} =>
                  found.claim \in mounted \/ (guessed /\ ~(Fitting(v, r, seen) \subseteq mounted))
             /\ found # None /\ r # None => OfReplica({found.claim}, r) # {}
             /\ guessed /\ OfReplica(mounted, r) # {} => found # None

=============================================================================

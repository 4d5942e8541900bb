------------------------------- MODULE Compile -------------------------------
(***************************************************************************)
(* internal/compile: the Kubernetes objects of an app, as pure operators.  *)
(*                                                                         *)
(* An object is its resource, its name and what other objects, or the      *)
(* cluster, make of it: what it refers to, the claims it has made for its  *)
(* replicas, the hosts it routes and the secrets their certificates are    *)
(* issued into, the ports it serves, and for a backup the repository.      *)
(* Images, commands, probes, limits, security contexts and schedules are   *)
(* passed through and left out.                                            *)
(***************************************************************************)
EXTENDS Manifest, SequencesExt

Id(gvr, name) == [gvr |-> gvr, name |-> name]

\* The object that says nothing but its name.
Bare == [uses      |-> {},      \* secrets, config maps, claims and services it refers to
         templates |-> {},      \* volumes each replica has a claim of its own for
         replicas  |-> 0,
         hosts     |-> {},
         certs     |-> {},      \* [secret, host]: the certificates it asks for
         backend   |-> 0,       \* the port of the Service it routes to
         ports     |-> <<>>,    \* the ports a Service has, the probe a container has
         repo      |-> None,    \* the restic repository, below the app's
         label     |-> None,    \* of a backup: [volume, replica], None if it has one claim
         suspended |-> FALSE]

Object(gvr, name, spec) == [id |-> Id(gvr, name), spec |-> spec]

\* Names the compiler makes of others.
Ordinal(i)         == <<Numerals[i + 1]>>
SecretsName(s)     == s \o <<"secrets">>
FilesName(s, kind) == IF kind = "from" THEN s \o <<"files", "secret">> ELSE s \o <<"files">>
NodePortName(s)    == s \o <<"nodeport">>
PullSecretName     == <<"jekyo", "registry", "pull">>

\* hostSlug: every dot becomes a dash.
HostSlug(h) == FlattenSeq(h)

-----------------------------------------------------------------------------
(***************************************************************************)
(* Slips: forms of the definitions below with a bug that could have been   *)
(* in the code, to see that a property notices.                            *)
(***************************************************************************)

\* TLSSecretName, had all hosts of a service shared one secret.
TLSSecretNameShared(s, i, h) == s \o <<"tls">>

\* NodePorts, had they gone into the Service of the same name.
NodePortsSameName(s, svc) ==
  IF svc.expose = {} THEN <<>>
  ELSE <<Object("services", s, [Bare EXCEPT !.ports = SetToSeq(svc.expose)])>>

\* Standalone, before scheduled services could mount volumes.
StandaloneShared(app) ==
  {v \in VolumeName : \E s, t \in Services(app) :
      s # t /\ v \in app.services[s].volumes /\ v \in app.services[t].volumes}

\* ClaimNames, before a volume could have a claim for each replica.
ClaimNamesFirst(app, v) ==
  IF v \in {w \in VolumeName : Cardinality({s \in Services(app) : w \in app.services[s].volumes}) > 1}
  THEN <<v>> ELSE <<v \o (CHOOSE s \in Services(app) : v \in app.services[s].volumes) \o <<"0">> >>

-----------------------------------------------------------------------------
(***************************************************************************)
(* Volumes, their claims and their backups.                                *)
(***************************************************************************)

Mounters(app, v) == {s \in Services(app) : v \in app.services[s].volumes}

\* standaloneVolumes: mounted by several services, or by a scheduled one.
Standalone(app) ==
  {v \in VolumeName : \/ Cardinality(Mounters(app, v)) > 1
                      \/ \E s \in Mounters(app, v) : app.services[s].schedule}

\* The claim a StatefulSet's template makes for one replica.
TemplateClaim(v, s, i) == v \o s \o Ordinal(i)

\* ClaimNamesFor.  Of several mounters the first in order is taken; there is
\* one, since the volume does not stand alone.
ClaimNames(app, v) ==
  IF v \in Standalone(app) \/ Mounters(app, v) = {} THEN <<v>>
  ELSE LET s == ServiceNames[SelectInSeq(ServiceNames, LAMBDA t : t \in Mounters(app, v))]
           n == IF app.volumes[v].perReplica THEN ReplicaCount(app.services[s]) ELSE 1
       IN  [i \in 1..n |-> TemplateClaim(v, s, i - 1)]

\* Repository, had the replicas of a volume shared one.
RepositoryShared(v, i, n) == <<v>>

\* RepoSuffixFor and BackupJobName.
BackupJobName(v, i, n) == IF n <= 1 THEN <<"backup">> \o v ELSE <<"backup">> \o v \o Ordinal(i)
Repository(v, i, n)    == IF n <= 1 THEN <<v>> ELSE <<v, <<"r">> \o Ordinal(i)>>

\* backupCronJob: one for each claim, suspended as long as there is no target.
BackupJobs(app, v, target) ==
  LET claims == ClaimNames(app, v)
      n == Len(claims)
  IN  [i \in 1..n |->
         Object("cronjobs", BackupJobName(v, i - 1, n),
                [Bare EXCEPT !.uses = {Id("persistentvolumeclaims", claims[i])},
                             !.repo = Repository(v, i - 1, n),
                             !.label = [volume |-> v, replica |-> IF n <= 1 THEN None ELSE i - 1],
                             !.suspended = ~target])]

VolumeObjects(app, target) ==
  FlattenSeq([i \in DOMAIN VolumeNames |->
     IF VolumeNames[i] \in Standalone(app)
     THEN <<Object("persistentvolumeclaims", VolumeNames[i], Bare)>> ELSE <<>>]) \o
  FlattenSeq([i \in DOMAIN VolumeNames |->
     IF VolumeNames[i] \in Volumes(app) /\ app.volumes[VolumeNames[i]].backup
     THEN BackupJobs(app, VolumeNames[i], target) ELSE <<>>])

-----------------------------------------------------------------------------
(***************************************************************************)
(* The workload of a service.                                              *)
(***************************************************************************)

\* Is there a login for the registry of some image?
NeedsPull(app) == \E s \in Services(app) : app.services[s].image = "private"

FilesId(s, kind) == Id(IF kind = "from" THEN "secrets" ELSE "configmaps", FilesName(s, kind))

\* What every pod of the service refers to, whatever its kind.
PodUses(app, s) ==
  LET svc == app.services[s]
  IN  (IF NeedsPull(app) THEN {Id("secrets", PullSecretName)} ELSE {})
      \cup (IF svc.secrets THEN {Id("secrets", SecretsName(s))} ELSE {})
      \cup {FilesId(s, kind) : kind \in svc.files}

ClaimIds(vs) == {Id("persistentvolumeclaims", v) : v \in vs}

\* The probes of a service with health.path go to its main port.
Probes(svc) == IF svc.health = "path" THEN <<MainPort(svc)>> ELSE <<>>

\* A CronJob mounts its volumes by name, a Deployment has none, a StatefulSet
\* mounts those that stand alone and makes claims for the others.
Workload(app, s) ==
  LET svc  == app.services[s]
      pod  == [Bare EXCEPT !.uses = PodUses(app, s), !.ports = Probes(svc)]
      runs == [pod EXCEPT !.replicas = ReplicaCount(svc)]
  IN  IF svc.schedule
      THEN Object("cronjobs", s, [pod EXCEPT !.uses = @ \cup ClaimIds(svc.volumes)])
      ELSE IF ~IsStateful(svc) THEN Object("deployments", s, runs)
      ELSE Object("statefulsets", s,
             [runs EXCEPT !.uses = @ \cup ClaimIds(svc.volumes \cap Standalone(app)),
                          !.templates = svc.volumes \ Standalone(app)])

-----------------------------------------------------------------------------
(***************************************************************************)
(* Services, routes and certificates.                                      *)
(***************************************************************************)

\* A ClusterIP Service for the ports of the service and its sidecars.
ClusterIP(s, svc) ==
  LET sidecar == IF svc.sidecar = None THEN {} ELSE svc.sidecar.ports
      ports   == SetToSeq(AllPorts(svc)) \o SetToSeq(sidecar)
  IN  IF ports = <<>> THEN <<>> ELSE <<Object("services", s, [Bare EXCEPT !.ports = ports])>>

NodePorts(s, svc) ==
  IF svc.expose = {} THEN <<>>
  ELSE <<Object("services", NodePortName(s), [Bare EXCEPT !.ports = SetToSeq(svc.expose)])>>

\* tlsSecretName: each host has a secret of its own; the first keeps <name>-tls.
TLSSecretName(s, i, h) == IF i = 1 THEN s \o <<"tls">> ELSE s \o <<"tls">> \o HostSlug(h)

Certificates(s, http) ==
  IF http.tls
  THEN {[secret |-> TLSSecretName(s, i, http.hosts[i]), host |-> http.hosts[i]] : i \in DOMAIN http.hosts}
  ELSE {}

Ingress(s, svc) ==
  Object("ingresses", s,
    [Bare EXCEPT !.uses = {Id("services", s)}, !.backend = MainPort(svc),
                 !.hosts = Range(svc.http.hosts), !.certs = Certificates(s, svc.http)])

\* redirectObjects: for each host a proxy and, with TLS, a certificate request
\* that is named like the secret it asks for.
Redirect(s, http, i) ==
  LET h      == http.hosts[i]
      secret == TLSSecretName(s, i, h)
      name   == IF i = 1 THEN s ELSE s \o HostSlug(h)
  IN  (IF http.tls
       THEN <<Object("configmaps", secret, [Bare EXCEPT !.certs = {[secret |-> secret, host |-> h]}])>>
       ELSE <<>>) \o <<Object("httpproxies", name, [Bare EXCEPT !.hosts = {h}])>>

-----------------------------------------------------------------------------
(***************************************************************************)
(* Compile.                                                                *)
(***************************************************************************)

\* A scheduled service has its CronJob and nothing else.
ServiceObjects(app, s) ==
  LET svc == app.services[s]
      listens == AllPorts(svc) # {} \/ svc.expose # {}
  IN  IF IsRedirect(svc) THEN FlattenSeq([i \in DOMAIN svc.http.hosts |-> Redirect(s, svc.http, i)])
      ELSE IF svc.schedule THEN <<Workload(app, s)>>
      ELSE <<Workload(app, s)>>
           \o (IF listens THEN ClusterIP(s, svc) \o NodePorts(s, svc) ELSE <<>>)
           \o (IF svc.http # None THEN <<Ingress(s, svc)>> ELSE <<>>)
           \o (IF svc.secrets THEN <<Object("secrets", SecretsName(s), Bare)>> ELSE <<>>)
           \o (IF "plain" \in svc.files THEN <<Object("configmaps", FilesName(s, "plain"), Bare)>> ELSE <<>>)
           \o (IF "from" \in svc.files THEN <<Object("secrets", FilesName(s, "from"), Bare)>> ELSE <<>>)
           \o (IF "egress" \in svc.network
               THEN <<Object("networkpolicies", s \o <<"egress">>, Bare)>> ELSE <<>>)

\* The namespace is not among them: it is the app's own.
Objects(app, target) ==
  (IF NeedsPull(app) THEN <<Object("secrets", PullSecretName, Bare)>> ELSE <<>>)
  \o VolumeObjects(app, target)
  \o FlattenSeq([i \in DOMAIN ServiceNames |->
       IF ServiceNames[i] \in Services(app) THEN ServiceObjects(app, ServiceNames[i]) ELSE <<>>])

\* PrunableGVRs, before network policies were compiled.
PrunableGVRsOld == {"deployments", "statefulsets", "cronjobs", "services", "ingresses",
                    "configmaps", "httpproxies", "secrets"}

\* kube.PrunableGVRs.
PrunableGVRs == {"deployments", "statefulsets", "cronjobs", "services", "ingresses",
                 "configmaps", "httpproxies", "networkpolicies", "secrets"}
=============================================================================

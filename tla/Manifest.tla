------------------------------ MODULE Manifest ------------------------------
(***************************************************************************)
(* internal/dsl: what a jekyo.yaml can say, and what of it Parse accepts.  *)
(*                                                                         *)
(* A name is the sequence of its words between dashes, and a host the      *)
(* sequence of its labels, each of them a name: the compiler joins names   *)
(* with dashes and turns the dots of a host into dashes, and two different *)
(* names may meet that way.  Everything whose form alone matters (sizes,   *)
(* quantities, durations, cron fields, CIDRs, profiles) is left out but    *)
(* for the one bit that the file has a value its rule refuses.             *)
(***************************************************************************)
EXTENDS Naturals, Sequences, FiniteSets, Functions

CONSTANTS
  ServiceNames,   \* the names services can have, sorted
  VolumeNames,    \* the names volumes can have, sorted
  Numerals,       \* the words for 0, 1, 2, ...: for as many as a service can have replicas
  Host,           \* host names
  Variable,       \* the variables of ${VAR}
  None            \* nothing

ServiceName == Range(ServiceNames)
VolumeName  == Range(VolumeNames)

ASSUME NamesAssumption ==
  /\ ServiceNames \in Seq(Seq(STRING) \ {<<>>}) /\ VolumeNames \in Seq(Seq(STRING) \ {<<>>})
  /\ IsInjective(ServiceNames) /\ IsInjective(VolumeNames)
  /\ Numerals \in Seq(STRING) /\ Numerals # <<>> /\ IsInjective(Numerals)
  /\ Host \subseteq Seq(Seq(STRING) \ {<<>>}) \ {<<>>}
  /\ Variable \cap Host = {} /\ None \notin Host \cup Variable

\* A port of 0 is one that is not there.
Port    == Nat \ {0}
PortSet == {ps \in SUBSET Port : IsFiniteSet(ps)}
Count   == 0..Len(Numerals)

HTTP == [hosts    : Seq(Host \cup Variable),   \* domain or domains
         redirect : BOOLEAN,
         tls      : BOOLEAN]

Sidecar == [ports : PortSet, volumes : SUBSET VolumeName]

Service ==
  [image    : {None, "public", "private"},   \* private: on a registry this machine logs in to
   build    : BOOLEAN,
   port     : Nat,
   ports    : Seq(Port),
   http     : HTTP \cup {None},
   expose   : PortSet,
   uses     : SUBSET Variable,               \* in env, secrets, files, init and build secrets
   secrets  : BOOLEAN,
   files    : SUBSET {"plain", "from"},
   sidecar  : Sidecar \cup {None},
   network  : SUBSET {"host", "egress"},
   health   : {None, "path", "command"},
   schedule : BOOLEAN,
   replicas : Count \cup {None},
   stateful : BOOLEAN \cup {None},
   volumes  : SUBSET VolumeName]

Volume == [backup : BOOLEAN, perReplica : BOOLEAN]

\* A service or volume the file does not have is None.
App == [services  : [ServiceName -> Service \cup {None}],
        volumes   : [VolumeName -> Volume \cup {None}],
        inputs    : BOOLEAN,    \* a template with unresolved inputs
        malformed : BOOLEAN]    \* a value some rule of form refuses

\* What a service is where the file says nothing of it.
Plain == [image |-> None, build |-> FALSE, port |-> 0, ports |-> <<>>, http |-> None,
          expose |-> {}, uses |-> {}, secrets |-> FALSE, files |-> {}, sidecar |-> None,
          network |-> {}, health |-> None, schedule |-> FALSE, replicas |-> None,
          stateful |-> None, volumes |-> {}]

Services(app) == {s \in ServiceName : app.services[s] # None}
Volumes(app)  == {v \in VolumeName : app.volumes[v] # None}

-----------------------------------------------------------------------------
(***************************************************************************)
(* dsl.go.                                                                 *)
(***************************************************************************)

AllPorts(svc)     == ({svc.port} \cup Range(svc.ports)) \ {0}
MainPort(svc)     == IF svc.port # 0 \/ svc.ports = <<>> THEN svc.port ELSE svc.ports[1]
IsStateful(svc)   == IF svc.stateful # None THEN svc.stateful ELSE svc.volumes # {}
ReplicaCount(svc) == IF svc.replicas # None THEN svc.replicas ELSE 1
IsRedirect(svc)   == svc.http # None /\ svc.http.redirect
HostsOf(svc)      == IF svc.http = None THEN <<>> ELSE svc.http.hosts

-----------------------------------------------------------------------------
(***************************************************************************)
(* interpolate: hosts are replaced by the variables' values, an undefined  *)
(* variable is an error.  env is a function from Variable to its value.    *)
(***************************************************************************)

VariablesOf(svc) == svc.uses \cup (Range(HostsOf(svc)) \cap Variable)
Interpolates(app, env) ==
  \A s \in Services(app) : \A x \in VariablesOf(app.services[s]) : env[x] # None

InterpolatedService(svc, env) ==
  IF svc = None \/ svc.http = None THEN svc
  ELSE [svc EXCEPT !.http.hosts =
          [i \in DOMAIN svc.http.hosts |->
             IF svc.http.hosts[i] \in Variable THEN env[svc.http.hosts[i]] ELSE svc.http.hosts[i]]]
Interpolated(app, env) ==
  [app EXCEPT !.services = [s \in ServiceName |-> InterpolatedService(app.services[s], env)]]

-----------------------------------------------------------------------------
(***************************************************************************)
(* validate.                                                               *)
(***************************************************************************)

\* A redirect is pure routing; anything else needs exactly one of image and build.
ValidSource(svc) ==
  IF IsRedirect(svc)
  THEN /\ svc.image = None /\ ~svc.build /\ AllPorts(svc) = {} /\ svc.volumes = {}
       /\ ~svc.schedule /\ svc.expose = {} /\ svc.health = None
  ELSE (svc.image # None) # svc.build

ValidHTTP(svc) ==
  svc.http # None =>
    /\ svc.http.hosts # <<>>
    /\ IsRedirect(svc) \/ MainPort(svc) # 0

\* hostOwner: no host twice in the file.
HostsServedOnce(app) ==
  /\ \A s \in Services(app) : IsInjective(HostsOf(app.services[s]))
  /\ \A s, t \in Services(app) :
       s # t => Range(HostsOf(app.services[s])) \cap Range(HostsOf(app.services[t])) = {}

\* Several replicas need a claim each.
ValidReplicas(app, svc) ==
  ReplicaCount(svc) > 1 /\ IsStateful(svc) =>
    /\ svc.volumes # {}
    /\ \A v \in svc.volumes : app.volumes[v] # None => app.volumes[v].perReplica

ValidMounts(app, svc) ==
  /\ svc.volumes \subseteq Volumes(app)
  /\ svc.sidecar # None => svc.sidecar.volumes \subseteq svc.volumes

ValidNetwork(svc)  == svc.network # {"host", "egress"}
ValidSchedule(svc) == svc.schedule => svc.http = None /\ svc.replicas = None /\ svc.expose = {}

ValidService(app, svc) ==
  /\ ValidSource(svc) /\ ValidHTTP(svc) /\ ValidReplicas(app, svc) /\ ValidMounts(app, svc)
  /\ ValidNetwork(svc) /\ ValidSchedule(svc)

Mounted(app, v) == \E s \in Services(app) : v \in app.services[s].volumes

Valid(app) ==
  /\ Services(app) # {} /\ ~app.inputs /\ ~app.malformed
  /\ \A s \in Services(app) : ValidService(app, app.services[s])
  /\ HostsServedOnce(app)
  /\ \A v \in Volumes(app) : Mounted(app, v)

\* Parse: the app the file describes, None if it is refused.  A template is
\* validated, and so refused, before anything is interpolated.
Parse(file, env) ==
  IF ~file.inputs /\ Interpolates(file, env) /\ Valid(Interpolated(file, env))
  THEN Interpolated(file, env) ELSE None
=============================================================================

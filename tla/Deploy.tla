------------------------------- MODULE Deploy -------------------------------
(***************************************************************************)
(* internal/deploy: how one `jekyo` command changes an app on the cluster. *)
(*                                                                         *)
(* Jekyo has no server side: every command is a process on somebody's      *)
(* machine (a laptop, a CI job) that makes a sequence of calls to the      *)
(* Kubernetes API and then exits.  Nothing locks an app, so the commands   *)
(* of several machines interleave call by call.  One step of this          *)
(* specification is one API call; a command can end between any two calls  *)
(* (an API error, the two minute timeout, ^C), leaving what it did so far. *)
(*                                                                         *)
(* The content of an API object is abstracted to the rendered manifest it  *)
(* was last written from: two renders of an app are different manifests    *)
(* and write different objects, a re-run of an unchanged jekyo.yaml writes *)
(* the same one.                                                           *)
(***************************************************************************)
EXTENDS Naturals, Sequences, FiniteSets, Functions

CONSTANTS
  App,             \* the apps, one namespace jekyo-<app> each
  Proc,            \* the machines commands run on, one command at a time each
  Host,            \* public host names
  Manifest,        \* rendered manifests
  AppObject,       \* the API objects of an app's namespace but for releases
                   \* and the backup secret: [gvr, name, rev |-> 0]
  WorksOn,         \* Proc -> the apps this machine deploys
  Commands,        \* the commands that are run
  Versions,        \* App -> the manifests its jekyo.yaml has compiled to
  Render,          \* Manifest -> its objects after the namespace, in apply order
  Routes,          \* Manifest -> object -> the hosts the object routes
  ClaimTemplates,  \* StatefulSet -> the claims its controller creates
  Backed,          \* the manifests with a backed-up volume
  ServerHosts,     \* hosts the server's own ingresses route (the registry)
  PrunableGVRs,    \* the resources a prune sweeps, in order
  KeepReleases,    \* releases kept (10 in the code)
  MaxRevision,     \* bound: no release is recorded past this revision
  None,            \* nothing
  Credential       \* the content of a backup secret

Release(n)   == [gvr |-> "secrets", name |-> "jekyo-release", rev |-> n]
BackupSecret == [gvr |-> "secrets", name |-> "jekyo-backup", rev |-> 0]

Revision  == 1..MaxRevision
Object    == AppObject \cup {Release(n) : n \in Revision} \cup {BackupSecret}
Content   == Manifest \cup {None, Credential}
ObjectsOf(m) == Range(Render[m])

IsClaim(o)   == o.gvr = "persistentvolumeclaims"
IsRelease(o) == o.rev > 0

\* What compile.Compile can produce and kube.PrunableGVRs lists.
ASSUME NamesAssumption ==
  /\ None \notin Manifest /\ Credential \notin Manifest \cup {None}
  /\ None \notin App
  /\ AppObject \subseteq [gvr : STRING, name : STRING, rev : {0}]
  /\ BackupSecret \notin AppObject
  /\ KeepReleases \in Nat \ {0} /\ MaxRevision \in Nat

\* A manifest has a service, and a service a workload or a redirect.
ASSUME RenderAssumption ==
  /\ Render \in [Manifest -> Seq(AppObject)]
  /\ \A m \in Manifest : Len(Render[m]) > 0 /\ \E o \in ObjectsOf(m) : ~IsClaim(o)
  /\ Routes \in [Manifest -> [AppObject -> SUBSET Host]]
  /\ ServerHosts \subseteq Host
  /\ Backed \subseteq Manifest

ASSUME AppAssumption ==
  /\ WorksOn \in [Proc -> SUBSET App]
  /\ Versions \in [App -> SUBSET Manifest]
  /\ ClaimTemplates \in [AppObject -> SUBSET {o \in AppObject : IsClaim(o)}]
  /\ Commands \subseteq {"up", "rollback", "down", "down --volumes"}

\* Claims are not swept; every other kind a manifest renders is.
ASSUME SweepAssumption ==
  /\ PrunableGVRs \in Seq(STRING) /\ Len(PrunableGVRs) > 0
  /\ "persistentvolumeclaims" \notin Range(PrunableGVRs)
  /\ \A o \in AppObject : IsClaim(o) \/ o.gvr \in Range(PrunableGVRs)

VARIABLES
  ns,      \* App -> phase of the app's namespace
  store,   \* App -> the API objects in the app's namespace
  target,  \* is the cluster backup target (a kube-system secret) configured
  job      \* Proc -> the command the machine is running, and where it is

vars == <<ns, store, target, job>>

-----------------------------------------------------------------------------
(***************************************************************************)
(* The cluster.                                                            *)
(***************************************************************************)

Empty == [o \in Object |-> None]

Present(a) == {o \in Object : store[a][o] # None}
Claims(a)  == {o \in Present(a) : IsClaim(o)}

\* deploy.Releases: the revisions recorded for the app.
Releases(a) == {n \in Revision : store[a][Release(n)] # None}

\* An object can be created only in an active namespace; one that exists can
\* still be patched while the namespace is being deleted.
Admits(a, o) == ns[a] = "active" \/ (ns[a] = "terminating" /\ o \in Present(a))

\* The hosts the app's live objects of one resource route.
Served(a, gvr) ==
  UNION {Routes[store[a][o]][o] : o \in {x \in AppObject \cap Present(a) : x.gvr = gvr}}

\* routeHosts: the hosts a command is about to route.  An Ingress counts only
\* as the typed object the compiler builds: the objects of a stored manifest
\* are all unstructured, and of those the code looks at HTTPProxies alone.
RouteHosts(m, typed) ==
  UNION {Routes[m][o] : o \in {x \in ObjectsOf(m) :
                                 x.gvr = "httpproxies" \/ (typed /\ x.gvr = "ingresses")}}

-----------------------------------------------------------------------------
(***************************************************************************)
(* A command in progress.  "pc" names the call it makes next.              *)
(***************************************************************************)

PC == {"idle", "listIngresses", "listProxies", "namespace", "apply", "pruneList",
       "pruneDelete", "readReleases", "createRelease", "trim", "copyBackup",
       "listClaims", "deleteNamespace", "done"}

Job == [pc     : PC,
        cmd    : {"none", "up", "rollback", "down", "down --volumes"},
        app    : App \cup {None},
        man    : Manifest \cup {None},  \* what is being deployed
        idx    : Nat,                   \* objects of man applied so far
        owned  : SUBSET Host,           \* hostOwners: hosts others route
        gvr    : Nat,                   \* the resource being swept
        doomed : SUBSET Object,         \* listed, to be deleted
        revs   : SUBSET Revision,       \* Releases as read
        copy   : BOOLEAN]               \* hasTarget and a backed-up volume

Idle == [pc |-> "idle", cmd |-> "none", app |-> None, man |-> None, idx |-> 0,
         owned |-> {}, gvr |-> 1, doomed |-> {}, revs |-> {}, copy |-> FALSE]

\* The objects a command j has applied, the map `applied` of deploy.Apply.
Applied(j) == IF j.man = None THEN {} ELSE {Render[j.man][i] : i \in 1..j.idx}

\* Deploying manifest m to app a: Apply checks the hosts first, when there
\* are any, and otherwise goes straight to the namespace.
Deploying(cmd, a, m, copy) ==
  [Idle EXCEPT !.pc = IF RouteHosts(m, cmd = "up") = {} THEN "namespace" ELSE "listIngresses",
               !.cmd = cmd, !.app = a, !.man = m, !.copy = copy]

Goto(p, pc) == job' = [job EXCEPT ![p].pc = pc]

TypeOK ==
  /\ ns \in [App -> {"absent", "active", "terminating"}]
  /\ store \in [App -> [Object -> Content]]
  /\ \A a \in App : /\ \A o \in AppObject : store[a][o] # Credential
                    /\ \A n \in Revision : store[a][Release(n)] # Credential
  /\ target \in BOOLEAN
  /\ job \in [Proc -> Job]

Init ==
  /\ ns = [a \in App |-> "absent"]
  /\ store = [a \in App |-> Empty]
  /\ target = FALSE
  /\ job = [p \in Proc |-> Idle]

-----------------------------------------------------------------------------
(***************************************************************************)
(* Slips.  Forms of the definitions below with a bug that could have been  *)
(* in the code.  Nothing uses them: each is put in the place of its        *)
(* definition to see that a property notices.                              *)
(***************************************************************************)

\* ListProxies, had hostOwners forgotten the HTTPProxies of other apps.
ListProxiesForgets(p) ==
  /\ job[p].pc = "listProxies"
  /\ \/ /\ RouteHosts(job[p].man, job[p].cmd = "up") \cap job[p].owned = {}
        /\ job' = [job EXCEPT ![p].pc = "namespace", ![p].owned = {}]
     \/ /\ RouteHosts(job[p].man, job[p].cmd = "up") \cap job[p].owned # {}
        /\ job' = [job EXCEPT ![p] = Idle]
  /\ UNCHANGED <<ns, store, target>>

\* AfterSweep, had prune stopped before its last resource.
AfterSweepShort(j) ==
  IF j.gvr + 1 < Len(PrunableGVRs)
  THEN [j EXCEPT !.pc = "pruneList", !.gvr = @ + 1, !.doomed = {}]
  ELSE [j EXCEPT !.pc = IF j.cmd = "down" THEN "listClaims" ELSE "readReleases",
                 !.doomed = {}]

\* Spared, had prune not known the backup credential.
SparedReleases(o) == o.gvr = "secrets" /\ IsRelease(o)

\* PruneDelete, had prune listed a resource again until nothing is left of it.
PruneDeleteAgain(p) ==
  /\ job[p].pc = "pruneDelete"
  /\ \E o \in job[p].doomed :
       /\ store' = [store EXCEPT ![job[p].app][o] = None]
       /\ job' = [job EXCEPT ![p].doomed = @ \ {o},
                             ![p].pc = IF job[p].doomed = {o} THEN "pruneList" ELSE @]
  /\ UNCHANGED <<ns, target>>

\* ReadReleases, had Releases kept a secret whose revision does not parse.
ReadReleasesAny(p) ==
  /\ job[p].pc = "readReleases"
  /\ job' = [job EXCEPT ![p].pc = "createRelease", ![p].revs = Releases(job[p].app) \cup {0}]
  /\ UNCHANGED <<ns, store, target>>

\* CreateRelease, had the release been applied like every other object.
CreateReleaseByForce(p) ==
  /\ job[p].pc = "createRelease"
  /\ \E n \in Revision :
       /\ \A k \in job[p].revs : k < n
       /\ n = 1 \/ n - 1 \in job[p].revs
       /\ ns[job[p].app] = "active"
       /\ store' = [store EXCEPT ![job[p].app][Release(n)] = job[p].man]
  /\ Goto(p, "trim")
  /\ UNCHANGED <<ns, target>>

\* TrimRelease, had Releases sorted the newest first.
TrimReleaseNewest(p) ==
  /\ job[p].pc = "trim" /\ Cardinality(job[p].revs) >= KeepReleases
  /\ \E n \in job[p].revs :
       /\ \A k \in job[p].revs : n >= k
       /\ store' = [store EXCEPT ![job[p].app][Release(n)] = None]
       /\ job' = [job EXCEPT ![p].revs = @ \ {n}]
  /\ UNCHANGED <<ns, target>>

\* EndTrim, had recordRelease not counted the release it has just created.
EndTrimEarly(p) ==
  /\ job[p].pc = "trim" /\ Cardinality(job[p].revs) <= KeepReleases
  /\ job' = [job EXCEPT ![p].pc = IF job[p].copy THEN "copyBackup" ELSE "done",
                        ![p].revs = {}]
  /\ UNCHANGED <<ns, store, target>>

\* ListClaims, had Down not looked for claims.
ListClaimsBlind(p) ==
  /\ job[p].pc = "listClaims"
  /\ Goto(p, "deleteNamespace") \/ Goto(p, "done")
  /\ UNCHANGED <<ns, store, target>>

-----------------------------------------------------------------------------
(***************************************************************************)
(* Commands start.                                                         *)
(***************************************************************************)

Starts(p, a, cmd) == job[p].pc = "idle" /\ a \in WorksOn[p] /\ cmd \in Commands

\* jekyo up: whether there is a backup target is read before compiling.
Up(p, a, m) ==
  /\ Starts(p, a, "up") /\ m \in Versions[a]
  /\ job' = [job EXCEPT ![p] = Deploying("up", a, m, m \in Backed /\ target)]
  /\ UNCHANGED <<ns, store, target>>

\* jekyo rollback <app> [revision]: any recorded revision can be named; with
\* none named it is the one before the newest, if there is one.
Rollback(p, a, n) ==
  /\ Starts(p, a, "rollback") /\ n \in Releases(a)
  /\ job' = [job EXCEPT ![p] = Deploying("rollback", a, store[a][Release(n)], FALSE)]
  /\ UNCHANGED <<ns, store, target>>

\* jekyo down: a prune that spares nothing, then the namespace if no claim.
Down(p, a) ==
  /\ Starts(p, a, "down")
  /\ job' = [job EXCEPT ![p] = [Idle EXCEPT !.pc = "pruneList", !.cmd = "down", !.app = a]]
  /\ UNCHANGED <<ns, store, target>>

\* jekyo down --volumes: the namespace with everything in it.
DownVolumes(p, a) ==
  /\ Starts(p, a, "down --volumes")
  /\ job' = [job EXCEPT ![p] = [Idle EXCEPT !.pc = "deleteNamespace",
                                            !.cmd = "down --volumes", !.app = a]]
  /\ UNCHANGED <<ns, store, target>>

-----------------------------------------------------------------------------
(***************************************************************************)
(* deploy.Apply, one call at a time.                                       *)
(***************************************************************************)

\* hostOwners: the ingresses of every other app and of the server.
ListIngresses(p) ==
  /\ job[p].pc = "listIngresses"
  /\ job' = [job EXCEPT ![p].pc = "listProxies",
                        ![p].owned = ServerHosts \cup
                           UNION {Served(b, "ingresses") : b \in App \ {job[p].app}}]
  /\ UNCHANGED <<ns, store, target>>

\* hostOwners, its second listing; then hostConflicts refuses the command
\* if anybody else routes one of its hosts.
ListProxies(p) ==
  LET owned == job[p].owned \cup UNION {Served(b, "httpproxies") : b \in App \ {job[p].app}}
      mine  == RouteHosts(job[p].man, job[p].cmd = "up")
  IN /\ job[p].pc = "listProxies"
     /\ \/ /\ mine \cap owned = {}
           /\ job' = [job EXCEPT ![p].pc = "namespace", ![p].owned = {}]
        \/ /\ mine \cap owned # {}
           /\ job' = [job EXCEPT ![p] = Idle]
     /\ UNCHANGED <<ns, store, target>>

\* The first object of every render is the namespace.
ApplyNamespace(p) ==
  /\ job[p].pc = "namespace"
  /\ ns' = [ns EXCEPT ![job[p].app] = IF @ = "absent" THEN "active" ELSE @]
  /\ Goto(p, "apply")
  /\ UNCHANGED <<store, target>>

\* Server-side apply, by force, of the next object.
ApplyObject(p) ==
  LET a == job[p].app
      i == job[p].idx + 1
      o == Render[job[p].man][i]
  IN /\ job[p].pc = "apply" /\ Admits(a, o)
     /\ store' = [store EXCEPT ![a][o] = job[p].man]
     /\ job' = [job EXCEPT ![p].idx = i,
                           ![p].pc = IF i = Len(Render[job[p].man]) THEN "pruneList" ELSE @]
     /\ UNCHANGED <<ns, target>>

\* prune has dealt with one resource: the next one, or what comes after.
AfterSweep(j) ==
  IF j.gvr < Len(PrunableGVRs)
  THEN [j EXCEPT !.pc = "pruneList", !.gvr = @ + 1, !.doomed = {}]
  ELSE [j EXCEPT !.pc = IF j.cmd = "down" THEN "listClaims" ELSE "readReleases",
                 !.doomed = {}]

\* prune spares the releases and the backup credential: they are jekyo's own
\* state and no render's output.
Spared(o) == o.gvr = "secrets" /\ (IsRelease(o) \/ o = BackupSecret)

\* The objects of the swept resource this command did not apply.
Stale(p) ==
  {o \in Present(job[p].app) :
     /\ o.gvr = PrunableGVRs[job[p].gvr]
     /\ ~Spared(o) /\ o \notin Applied(job[p])}

PruneList(p) ==
  /\ job[p].pc = "pruneList"
  /\ job' = [job EXCEPT ![p] = IF Stale(p) = {} THEN AfterSweep(job[p])
                               ELSE [job[p] EXCEPT !.pc = "pruneDelete", !.doomed = Stale(p)]]
  /\ UNCHANGED <<ns, store, target>>

\* An object listed is deleted by name, whatever has happened to it since.
PruneDelete(p) ==
  /\ job[p].pc = "pruneDelete"
  /\ \E o \in job[p].doomed :
       /\ store' = [store EXCEPT ![job[p].app][o] = None]
       /\ job' = [job EXCEPT ![p] = IF job[p].doomed = {o} THEN AfterSweep(job[p])
                                    ELSE [job[p] EXCEPT !.doomed = @ \ {o}]]
  /\ UNCHANGED <<ns, target>>

-----------------------------------------------------------------------------
(***************************************************************************)
(* deploy.recordRelease, and the end of jekyo up.                          *)
(***************************************************************************)

ReadReleases(p) ==
  /\ job[p].pc = "readReleases"
  /\ job' = [job EXCEPT ![p].pc = "createRelease", ![p].revs = Releases(job[p].app)]
  /\ UNCHANGED <<ns, store, target>>

\* n is the revision after the newest of S, 1 if there is none.
IsNext(n, S) ==
  \/ S = {} /\ n = 1
  \/ \E newest \in S : n = newest + 1 /\ \A k \in S : k <= newest

\* Create, not apply: it fails if somebody has recorded this revision since.
CreateRelease(p) ==
  /\ job[p].pc = "createRelease"
  /\ \E n \in Revision :
       /\ IsNext(n, job[p].revs)
       /\ ns[job[p].app] = "active" /\ n \notin Releases(job[p].app)
       /\ store' = [store EXCEPT ![job[p].app][Release(n)] = job[p].man]
  /\ Goto(p, "trim")
  /\ UNCHANGED <<ns, target>>

\* Delete the oldest of the revisions read until fewer than KeepReleases are
\* left; with the new one that makes KeepReleases.
TrimRelease(p) ==
  /\ job[p].pc = "trim" /\ Cardinality(job[p].revs) >= KeepReleases
  /\ \E n \in job[p].revs :
       /\ \A k \in job[p].revs : n <= k
       /\ store' = [store EXCEPT ![job[p].app][Release(n)] = None]
       /\ job' = [job EXCEPT ![p].revs = @ \ {n}]
  /\ UNCHANGED <<ns, target>>

EndTrim(p) ==
  /\ job[p].pc = "trim" /\ Cardinality(job[p].revs) < KeepReleases
  /\ job' = [job EXCEPT ![p].pc = IF job[p].copy THEN "copyBackup" ELSE "done",
                        ![p].revs = {}]
  /\ UNCHANGED <<ns, store, target>>

\* EnsureBackupSecret: the cluster's target, copied next to the app.  Its reads
\* and its write are one step: the target never goes away, and a write that
\* conflicts with another is an error (Abort).
CopyBackup(p) ==
  /\ job[p].pc = "copyBackup" /\ target /\ Admits(job[p].app, BackupSecret)
  /\ store' = [store EXCEPT ![job[p].app][BackupSecret] = Credential]
  /\ Goto(p, "done")
  /\ UNCHANGED <<ns, target>>

-----------------------------------------------------------------------------
(***************************************************************************)
(* deploy.Down after its prune, and the end of a command.                  *)
(***************************************************************************)

\* Only an answer without claims lets the namespace go: with claims in it, or
\* if the listing fails, the command ends and reports the volumes kept.
ListClaims(p) ==
  /\ job[p].pc = "listClaims"
  /\ \/ Claims(job[p].app) = {} /\ Goto(p, "deleteNamespace")
     \/ Goto(p, "done")
  /\ UNCHANGED <<ns, store, target>>

\* Deleting a namespace that is already going is accepted; that there is none
\* is an error (Abort) for down --volumes only.
DeleteNamespace(p) ==
  /\ job[p].pc = "deleteNamespace"
  /\ job[p].cmd = "down --volumes" => ns[job[p].app] # "absent"
  /\ ns' = [ns EXCEPT ![job[p].app] = IF @ = "absent" THEN @ ELSE "terminating"]
  /\ Goto(p, "done")
  /\ UNCHANGED <<store, target>>

\* The command reports success.
Return(p) ==
  /\ job[p].pc = "done"
  /\ job' = [job EXCEPT ![p] = Idle]
  /\ UNCHANGED <<ns, store, target>>

\* It ends early: every error is returned at once and nothing is undone.
Abort(p) ==
  /\ job[p].pc \notin {"idle", "done"}
  /\ job' = [job EXCEPT ![p] = Idle]
  /\ UNCHANGED <<ns, store, target>>

-----------------------------------------------------------------------------
(***************************************************************************)
(* The rest of the cluster.                                                *)
(***************************************************************************)

\* The namespace controller empties a namespace under deletion, claims and
\* all, and removes it.
Finalize(a) ==
  /\ ns[a] = "terminating"
  /\ ns' = [ns EXCEPT ![a] = "absent"]
  /\ store' = [store EXCEPT ![a] = Empty]
  /\ UNCHANGED <<target, job>>

\* The StatefulSet controller creates the claims of a live StatefulSet.
CreateClaim(a) ==
  /\ ns[a] = "active"
  /\ \E o \in AppObject \cap Present(a) : \E c \in ClaimTemplates[o] \ Present(a) :
       store' = [store EXCEPT ![a][c] = store[a][o]]
  /\ UNCHANGED <<ns, target, job>>

\* jekyo backup config, on any machine.
ConfigureBackup ==
  /\ ~target /\ target' = TRUE
  /\ UNCHANGED <<ns, store, job>>

-----------------------------------------------------------------------------

Start(p) ==
  \E a \in App :
    \/ \E m \in Manifest : Up(p, a, m)
    \/ \E n \in Revision : Rollback(p, a, n)
    \/ Down(p, a)
    \/ DownVolumes(p, a)

\* What a running command does by itself.
Step(p) ==
  \/ ListIngresses(p) \/ ListProxies(p) \/ ApplyNamespace(p) \/ ApplyObject(p)
  \/ PruneList(p) \/ PruneDelete(p)
  \/ ReadReleases(p) \/ CreateRelease(p) \/ TrimRelease(p) \/ EndTrim(p) \/ CopyBackup(p)
  \/ ListClaims(p) \/ DeleteNamespace(p) \/ Return(p) \/ Abort(p)

Cluster == ConfigureBackup \/ \E a \in App : Finalize(a) \/ CreateClaim(a)

Next == (\E p \in Proc : Start(p) \/ Step(p)) \/ Cluster

Spec == Init /\ [][Next]_vars

\* A command that runs keeps going until it ends (the code has no waits of its
\* own here, and each call is under the command's timeout), and the namespace
\* controller finishes.  Nobody has to start a command.
FairSpec == Spec /\ (\A p \in Proc : WF_vars(Step(p))) /\ (\A a \in App : WF_vars(Finalize(a)))

-----------------------------------------------------------------------------
(***************************************************************************)
(* What the commands promise.                                              *)
(***************************************************************************)

\* No app is deployed from two machines (several machines can still deploy
\* different apps at once).
Exclusive == \A p, q \in Proc : p # q => WorksOn[p] \cap WorksOn[q] = {}

\* The objects a prune would sweep.
Live(a) == {o \in Present(a) : o.gvr \in Range(PrunableGVRs) /\ ~Spared(o)}

\* The app's namespace is exactly what manifest m renders.
Runs(a, m) ==
  /\ ns[a] = "active"
  /\ \A o \in ObjectsOf(m) : store[a][o] = m
  /\ Live(a) \subseteq ObjectsOf(m)

\* When up or rollback has recorded its release, the cluster runs exactly the
\* manifest that was asked for and the newest release is that manifest, from
\* whatever half-applied state earlier commands left (deploy.Apply).
UpConverges ==
  \A p \in Proc :
    LET a == job[p].app
    IN (job[p].pc \in {"trim", "copyBackup", "done"} /\ job[p].cmd \in {"up", "rollback"}) =>
         /\ Runs(a, job[p].man)
         /\ \E n \in Releases(a) : /\ store[a][Release(n)] = job[p].man
                                   /\ \A k \in Releases(a) : k <= n

\* A plain down that reports success has left nothing running (deploy.Down).
DownConverges ==
  \A p \in Proc : (job[p].pc = "done" /\ job[p].cmd = "down") => Live(job[p].app) = {}

\* The hosts the app's live objects route.
HostsOf(a) == Served(a, "ingresses") \cup Served(a, "httpproxies")

\* No host is routed by two apps, or by an app and the server: the check of
\* hosts.go runs before anything is applied.
HostsExclusive ==
  \A a \in App : /\ HostsOf(a) \cap ServerHosts = {}
                 /\ \A b \in App \ {a} : HostsOf(a) \cap HostsOf(b) = {}

\* A successful command leaves at most KeepReleases releases, however many
\* crashes before the trim left too many (recordRelease).
HistoryBounded ==
  \A p \in Proc : (job[p].pc = "done" /\ job[p].cmd \in {"up", "rollback"}) =>
                    Cardinality(Releases(job[p].app)) <= KeepReleases

\* Volumes survive every command but down --volumes: a namespace that holds a
\* claim is deleted by nothing else (deploy.Down).
VolumesSurvive ==
  [][\A a \in App :
       (Claims(a) # {} /\ ns[a] = "active" /\ ns'[a] # "active") =>
         \E p \in Proc : job[p].app = a /\ job[p].cmd = "down --volumes"]_vars

\* As long as its namespace lives an app keeps its claims and its backup
\* credential, whatever is swept, and keeps each release, unchanged, until
\* KeepReleases newer ones are recorded.
StateSurvives ==
  [][\A a \in App : ns'[a] # "absent" =>
       /\ Claims(a) \subseteq Claims(a)'
       /\ store[a][BackupSecret] # None => store'[a][BackupSecret] = store[a][BackupSecret]
       /\ \A n \in Releases(a) :
            \/ store'[a][Release(n)] = store[a][Release(n)]
            \/ /\ n \notin Releases(a)'
               /\ Cardinality({k \in Releases(a) : k > n}) >= KeepReleases]_vars

\* The refinement mapping to ReleaseHistory: the manifest the cluster runs,
\* and the recorded releases.
Running(a) == IF \E m \in Manifest : Runs(a, m)
              THEN CHOOSE m \in Manifest : Runs(a, m) ELSE None

History == INSTANCE ReleaseHistory WITH
             running <- [a \in App |-> Running(a)],
             log <- [a \in App |-> [n \in Revision |-> store[a][Release(n)]]]

\* The releases are the log of what ran: ReleaseHistory, for apps deployed
\* from one machine each.
RefinesHistory == History!Spec

\* A command always ends, even while other machines change the same app under
\* it: its loops run over what it listed.
CommandsEnd == \A p \in Proc : job[p].pc # "idle" ~> job[p].pc = "idle"

=============================================================================

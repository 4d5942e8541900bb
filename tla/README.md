# Jekyo in TLA+

Jekyo is a command line PaaS: `jekyo server install` turns a Linux host into a
single-node k3s cluster, and `jekyo up` compiles a `jekyo.yaml` into Kubernetes
objects and applies them. There is no server-side component of Jekyo. Every
command is a process on somebody's machine (a laptop, a CI job) that makes a
sequence of calls to the Kubernetes API, over SSH or to its own files, and
exits. Nothing takes a lock. What can go wrong is therefore what happens
*between* two calls: a command that ends half-way, a retry that meets what an
earlier one left behind, and two machines that work on the same thing.

The specifications are about exactly that. A step is one call; a command can
end between any two of them; the commands of all machines interleave.

## 1. The system

| Component (source) | State | Operations | What makes it correct |
| --- | --- | --- | --- |
| Deploy (`internal/deploy`, `cmd/jekyo/app.go`) | An app's namespace and the objects in it | `up`, `down`, `down --volumes`: host check, apply, prune, record, copy the backup credential | A re-run converges from any half-applied state; volumes, releases and the credential survive; hosts have one owner |
| Release history and rollback (`deploy.go`, `day2.go`) | One secret per recorded release | `history`, `rollback [rev]` | The history is a log of what really ran; it stays bounded; recent releases stay reachable |
| Backup and restore (`cmd/jekyo/backup.go`) | The target (a secret in kube-system), its copies, the restic repository, replica counts | `backup config`, `backup now`, `backup restore` | The repository password never changes; a restore never writes under a running mounter and leaves the app running |
| Credentials (`cmd/jekyo/creds.go`) | One server secret and a copy in every machine's context | sync (in `up`, `vpn`, `login`, `logout`, `context add`), push (in `login`, `logout`, `install`) | No machine loses another's logins; all converge on one VPN password |
| Contexts (`internal/contexts/store.go`, `cmd/jekyo/context.go`) | Directories with `meta.yaml` and a kubeconfig; `config.yaml` | Save, Remove, Rename, SetCurrent, Import, Resolve | A context's SSH target and its kubeconfig are of one server; the current context exists |
| Compiler (`internal/compile`) | None | `Compile`: every object, its name and what it refers to | No two objects share a name; every reference resolves; mounts, backups and restores name the same claim |
| DSL (`internal/dsl`) | None | Parse, interpolate, validate | What it accepts, the compiler can render |
| Build (`internal/build`, `internal/registry`, `cmd/jekyo/build.go`) | The registry's tags, the node's images | content hash, lookup, buildx, delivery over SSH | What runs is built from the sources that were hashed; what is deployed can be pulled; nothing restarts without a new image |
| Server install (`cmd/jekyo/server.go`, `internal/provision`, `internal/addons`) | Files, units and add-ons of the host | `server install`, `server uninstall` | Re-running converges after a failure at any step |
| Preflight (`internal/provision/preflight.go`) | None | checks over parsed facts, fixes | An install starts only on a server it can finish on; what has a fix does not block it |
| Volume copy (`cmd/jekyo/volume.go`) | Two claims and the transfer's processes | check, clear, stream, checksum | A copy that reports success is one |
| Terminal UI (`cmd/jekyo/ui.go`) | Selection, log channel, goroutines | follow the selected pods' logs | No line of an old selection in a new pane; goroutines end |
| Templates (`internal/templates`) | None | Resolve, friendly schedules | Every variable gets a value or an error |
| SSH, VPN client, self update, skill, kubectl | None of their own | thin wrappers | – |

How they interact: commands call each other's packages directly and share state
only through the Kubernetes API (objects), the server's files and the machine's
`~/.jekyo`. `up` runs sync, then build, then compile, then deploy; `rollback`
takes a manifest that deploy recorded and deploys it; a deployed app carries a
copy of the backup target and a name for each claim that the backup jobs use;
the StatefulSet and namespace controllers of Kubernetes act on the same objects
on their own.

The hard behaviours, each with its source line, are the `hazards` of
`PROJECT.json`. They are of five kinds: partial failure (apply, prune, restore,
copy and install undo nothing), crashes between two files or two calls (rename,
remove, restore, registries.yaml), stale reads (prune, the release listing, the
host check, the claim listing of `down`, the credential merge, the content hash,
the facts of an install, the check for mounting pods), interleaving of machines
and processes without a lock, and long sequences of legal edits or commands (an
app deployed again and again, contexts renamed and made anew).

## 2. Modules

| Module | What it is |
| --- | --- |
| `Deploy` | deploy, rollback and down of any number of apps from any number of machines, one API call per step |
| `ReleaseHistory` | what history and rollback promise, with commands and calls abstracted away; `Deploy` implements it |
| `MCDeploy` | the instances of `Deploy` that TLC checks |
| `DeployProofs` | the proofs about `Deploy`: types and convergence |
| `HistoryProofs` | the proofs about `Deploy`: what survives, the history and its refinement, hosts |
| `Manifest` | what a `jekyo.yaml` can say; interpolation and validation as operators |
| `Compile` | the objects of an app as operators on `Manifest` |
| `Redeploy` | an app whose file is edited and deployed again, on `Compile`; the resolution of a claim for `backup` |
| `MCRedeploy` | its instance |
| `RedeployProofs` | the proofs about `Compile` and `Redeploy` |
| `Volumes` | what `backup` and `volume copy` do to the data of a volume, call by call, beside pods, Jobs and other machines |
| `MCVolumes` | its instance |
| `VolumesProofs` | the proofs about `Volumes` |
| `Build` | from sources to running images, call by call, several machines |
| `MCBuild` | its instances |
| `BuildProofs` | the proofs about `Build` |
| `Preflight` | the checks before an install and what their fixes do, as operators |
| `Install` | `server install` and `uninstall` on `Preflight`, step by step, beside k3s |
| `MCInstall` | its instance |
| `InstallProofs` | the proofs about `Install` |
| `Contexts` | the store of contexts on one machine, file by file, several processes |
| `MCContexts` | its instance |
| `ContextsProofs` | the proofs about `Contexts` |
| `Credentials` | the credentials that machines share through one Secret: sync, login, logout, context add and install, one call per step |
| `MCCredentials` | the instances of `Credentials` that TLC checks |
| `CredentialsProofs` | the proofs about `Credentials` |

### Deploy: state

| Variable | In the system |
| --- | --- |
| `ns[a]` | phase of namespace `jekyo-<a>`: absent, active, terminating |
| `store[a]` | the objects in it, each with the rendered manifest that last wrote it (`None`: there is none); a release holds the manifest it recorded |
| `target` | whether `backup config` has stored the cluster's backup target |
| `job[p]` | the command machine `p` is running: the call it makes next (`pc`) and the local variables of `Apply`, `prune`, `recordRelease` and `Down` |

An object's content is abstracted to the manifest it came from. That is what
the properties tell apart: whether what is there is of *this* deployment, of
another one, or stale. Two renders of an app are two manifests even if they
share objects; an unchanged `jekyo.yaml` renders the same manifest again.
Whether a render has backup CronJobs depends on the target when it is made
(`Compile`'s `NoBackupTarget`); with object bodies abstracted this is one
object more or less, and `Backed` says which manifests have a backed-up volume.

### Deploy: actions

| Action | Code |
| --- | --- |
| `Up`, `Rollback`, `Down`, `DownVolumes` | a command starts (`newUpCmd`, `newRollbackCmd`, `newDownCmd`) |
| `ListIngresses`, `ListProxies` | `hostOwners`, two listings; then `hostConflicts` lets the command go on or refuses it |
| `ApplyNamespace`, `ApplyObject` | the loop of `Apply`, one server-side apply each |
| `PruneList`, `PruneDelete` | `prune`: one listing per resource, one delete per object listed and not applied, whatever has happened to it since |
| `ReadReleases`, `CreateRelease`, `TrimRelease`, `EndTrim` | `recordRelease` |
| `CopyBackup` | `EnsureBackupSecret` |
| `ListClaims`, `DeleteNamespace` | the rest of `Down` |
| `Return`, `Abort` | success; an early return: an API error, the two-minute timeout, ^C. Nothing is undone |
| `Finalize`, `CreateClaim` | Kubernetes: the namespace controller empties and removes a namespace under deletion; the StatefulSet controller creates claims from a live StatefulSet's templates |
| `ConfigureBackup` | `backup config` |

Details of the code that matter and are kept: the check for hosts sees an
Ingress only as the typed object of a fresh compile, never in a stored manifest
(`RouteHosts`); `prune` spares releases and the backup credential (`Spared`) and
sweeps only the listed resources, among which claims are not (`PrunableGVRs`); a
release is created, not applied, so a revision that exists is an error; the trim
works on the listing made before the create; a plain `down` takes a failed
listing of claims for "there are some"; an object can be patched but not created
in a namespace under deletion.

### ReleaseHistory

`running[a]` is the manifest the cluster runs exactly, `log[a]` the recorded
releases. Deployments and crashes change `running` in any way (`Change`); only
what runs can be recorded, under the next number (`Record`); the oldest goes
when more than `KeepReleases` are there (`Forget`); `Remove` takes an app with
its history. The refinement mapping in `Deploy` computes `running` from the
namespace's objects (`Running`) and reads `log` off the release secrets.

### Credentials: state and actions

| Variable | In the system |
| --- | --- |
| `secret` | the Secret `kube-system/jekyo-credentials`; one that does not exist reads as an empty one |
| `contexts[m]` | machine `m`'s `meta.yaml` for the server: its VPN entry and its logins |
| `admin` | the password whose hash the VPN's manifest carries, which is what the admin UI accepts |
| `k3s` | whether an install got as far as a running k3s |
| `job[m]` | the command `m` is running: the next call, the context in memory (`m`), whether the merge found something to `push`, and two observations, `warned` and `synced`, that the properties use |

| Action | Code |
| --- | --- |
| `Sync`, `RegistryLogin`, `RegistryLogout`, `ContextAdd`, `Install` | a command starts, with the context it loads (`up` and `vpn` only sync) |
| `ReadSecret`, `SaveMerged` | `syncCreds`: the merge decides in one go what to save and what to push |
| `GetSecret`, `PutSecret` | `writeClusterCreds`, for a sync's backfill (`get`, `put`) and for a push (`pushGet`, `pushPut`) |
| `SyncFails` | any call of a sync or push fails: a warning, and the command goes on |
| `ChangeLogins`, `SaveChange` | login and logout between their sync and their push |
| `ReadServer`, `InstallK3s`, `WriteManifests`, `SaveContext` | `server install`; the last also `context add` |
| `Return`, `Abort`, `ContextRemove` | success; an early end; `context rm` |

The Secret's `resourceVersion` becomes `fresh`: nobody has written since this
command got the Secret for its update. That it is set by the *second* get and
not by the merge is what two of the findings are about. A failed read over SSH
looks like a server without a password (`readServerCreds`), so `ReadServer` and
`ContextAdd` may read nothing. `ContextAdd` makes its two reads in one step: a
VPN once there stays, so an early look at the manifest followed by a late read
of the Secret is one of the two at a single moment.

Assumed: a server with WireGuard, one command at a time on a machine, `context
rm` atomic (its file steps are those of `Contexts`), and a kubeconfig
that is missing counts as a sync that fails. Left out: the built-in registry's
password and `server uninstall`, which are in `Install`.

### Manifest, Compile and Redeploy

`Deploy` has the calls of a deployment and takes the manifest as a constant;
here the manifest is computed and a deployment is one step. `Manifest` keeps of
a file what other components depend on. A name is the sequence of its words and
a host the sequence of its labels, because the compiler joins names with dashes
and turns dots into dashes, and the question is whether two names meet that way.
A count of replicas becomes a word of the claims' and the backups' names: the
words are `Numerals`, and there are no more replicas than words.
`Parse` is interpolation (`Interpolated`) and then `Valid`, rule by rule; the
rules about the form of a single value (sizes, durations, cron fields) are one
bit, `malformed`. `Compile` gives every object its resource and name, what it
refers to, its claim templates, hosts, certificates, ports and repository.

| Variable of `Redeploy` | In the system |
| --- | --- |
| `file`, `env` | the `jekyo.yaml` and the environment of the command |
| `target` | is a backup target configured |
| `cluster` | the objects in the app's namespace |
| `deployed` | the app and target of the last `up` that got through |

`EditService`, `AddService`, `RemoveService`, `EditVolume` and `Export` are the
user; `Up` parses, compiles, applies in order up to the first object the API
refuses (`Refused`: another claim template for a StatefulSet that exists, a port
twice in a Service, a probe of port 0) and prunes only if all went through;
`Down` and `ConfigureBackup` are the commands, `CreateClaims` the StatefulSet
controller. `BackupTarget` is the resolution of a volume and replica to a claim
and a repository: from the CronJobs (`Scheduled`) and, if there are none or the
listing fails (`seen`), from the claims present, of which a volume must have one
and a replica named takes the first in the order of names (`Fitting`, `First`;
`Rank` is that order).

`validate` refuses no dashes in names, and some files have two objects of one
name: `web` with a NodePort beside `web-nodeport`, or `api.dev` and `api-dev` as
second and third host. The properties such files break say so themselves
(`NamesApart`, `CertificatesApart`), the others hold for all names.

### Volumes

| Variable | In the system |
| --- | --- |
| `want`, `pods` | of each server, the replicas asked of each workload that mounts the volume (a Deployment, a StatefulSet or the CronJob of a scheduled service), and the pods that do, those that terminate included |
| `volume` | of each server, the volume's content, a number |
| `repo` | of each server, the restic repository: its password and snapshots |
| `secret`, `copied` | the backup target, and the copy of it next to the app |
| `job` | the Jobs of restic: `created`, `running`, `done` or `failed`; `doomed` ones are deleted and their pod may go on |
| `cmd` | of each machine, the command it runs, with the variables of `scaleMounters`, `runBackupJob` and `streamVolume` |

| Action | Code |
| --- | --- |
| `Start`, `GetTarget`, `PutTarget` | the commands; `backup config` |
| `ListMounters`, `Scale`, `NoPods`, `TooLong` | `scaleMounters`: Deployments are listed and patched one at a time, then StatefulSets; and `waitNoPodsWithClaim` |
| `CreateJob`, `Poll`, `DeleteJob`, `Restart` | `runBackupJob` with its deferred deletion; the deferred restart of a restore |
| `CheckSource`, `CheckDest`, `Clear`, `Receive`, `SumSource`, `SumDest` | `volume copy`: who mounts either end, `find -delete`, the two tars, the two checksums |
| `CreateFails`, `ScaleFails`, `StreamFails`, `Abort`, `Kill`, `Cut` | a call that fails (of `scaleMounters` a patch or the second listing: the counts noted so far are lost); a command that is killed, in the middle of a stream too |
| `Up`, `Down`, `AddPod`, `EndPod`, `RunScheduled`, `Write` | other commands, the workload controllers, a scheduled service that runs, the app |
| `Fire`, `RunJob`, `EndJob`, `StopJob` | the scheduled backup, and the pods of Jobs |

Whoever reads or writes while another writes leaves, or gets, a content that
equals no other (`Fresh`, `SpoiltJobs`, `SpoiltCommands`). Three observations are
for the properties: a restore was `overtaken` by another command or Job, `crossed`
by a scheduled service that began to run after the wait for pods, or has `lost`
the counts of some workloads.

### Build

| Variable | In the system |
| --- | --- |
| `source` | of each machine, the version of each part: the files, and what the manifest has inline |
| `registry`, `images`, `pushing` | the in-cluster registry, containerd on the server, containerd under the name an image has while it is pushed |
| `deployed` | of each unit (service or sidecar), the tag in the applied manifest, and what docker would make of the sources it was computed from |
| `pods` | what runs |
| `cmd` | of each machine, `EnsureAll` at one of its calls |

A tag is the versions that were hashed, an image the versions docker built it
from: `Hashed` follows `contentHash` (`.dockerignore`, the Dockerfile inline,
named, beside the manifest or in the context) and `Sent` what docker gets. The two
read one `.dockerignore` in two ways: `loadDockerignore` skips lines with `!` and
knows a subset of the patterns (no `**/x`, no `/x`), and the hash leaves `.git`
out. So a build says twice which files are left out, of the hash (`unhashed`) and
of what docker gets (`unsent`); `Extra` is what is hashed all the same.
`Hash`, `Check`, `Buildx`, `Import`, `TagForce`, `Push`, `Rm` and `Apply` are the
calls in order, `Fails` an error at any of them, `Edit`, `StartPod` and
`CollectImage` the author and the kubelet.

### Preflight and Install

`Preflight` is the table of checks as a record, on facts that are abstracted to
what each check compares; `Fixed` is what the fixes change of the facts.

| Variable | In the system |
| --- | --- |
| `host` | the facts as they are now |
| `k3s` | the running k3s: the address and the registries.yaml it started with |
| `registries`, `manifests` | registries.yaml and the addon files, by the registry password in them |
| `applied`, `certgen`, `cert` | what k3s has applied, contour's certgen Job and its certificate |
| `contexts` | of each machine, the registry password and the kubeconfig |
| `cmd` | of each machine, the install or uninstall at one of its steps, with the facts it gathered and what it has computed |

The actions are the steps of `newServerInstallCmd` and `Installer.Install` in
order (`GatherFacts`, `RemoveDocker`, `ApplyFixes`, `Verdict`, `Credentials`,
`FixAppArmor`, `WriteRegistries`, `InstallK3s`, `RestartK3s`, `WaitNode`,
`InstallGPU`, `WriteManifest`, `EnsureCertgen`, `WaitContour`, `WaitAddons`,
`SaveContext`, `SaveKubeconfig`), those of uninstall (`UninstallK3s`,
`RemoveConfig`, `RemoveContext`), `Fails` at any of them, and k3s
(`ApplyAddon`, `RunCertgen`). The VPN's password is in `Credentials`.

### Contexts

`meta[n]` and `kubeconfig[n]` are the two files of directory `n`; `meta` holds a
name, which is not necessarily `n`, and the server reached over SSH; `current`
is `config.yaml`; `proc[p]` is a command at one of its calls. `Get`, `Save`,
`Move`, `RemoveAll`, `WriteKubeconfig` and the steps about the current context
are the operations of `store.go`; `Start` gives them to import, add, install,
use, rm, rename and `up`. An `up` resolves its context twice: before the sync and
the build over SSH, and once more in `newDeployer`, whose kubeconfig it deploys
by (`Again`, `GetAgain`, `Deploy`). With `--context` both go by that name, without
it both read `config.yaml`. `Kill` ends a command between two calls, and leaves a removal half
done. `tainted` is an observation for the properties: the names that killed or
simultaneous commands may have spoilt.

## 3. Properties and runs

| Property | What it says | Kind |
| --- | --- | --- |
| `TypeOK` | types | invariant |
| `UpConverges` | once an `up` or `rollback` has recorded its release, the namespace runs exactly the manifest asked for and the newest release is that manifest | invariant |
| `DownConverges` | a plain `down` that reports success has left nothing a prune would sweep | invariant |
| `HistoryBounded` | a successful deployment leaves at most `KeepReleases` releases, whatever earlier crashes left untrimmed | invariant |
| `HostsExclusive` | no host is routed by two apps, or by an app and the server | invariant |
| `VolumesSurvive` | a namespace with a claim in it is deleted by `down --volumes` only | action property |
| `StateSurvives` | claims and the credential live as long as the namespace; a release is never changed and goes only when `KeepReleases` newer ones exist | action property |
| `RefinesHistory` | `Deploy` implements `ReleaseHistory` | refinement |
| `CommandsEnd` | every command ends | liveness |
| `LoginsChange` (`Credentials`) | a command whose merge succeeded and that nobody overtook changes no stored login but the one it is about, though it writes those of all registries | action property |
| `CleanCommandsAgree` | a command that ends without a warning and was not overtaken leaves its context and the Secret in agreement | invariant |
| `KnownPasswordsWork` | every VPN password a context or the Secret holds opens the admin UI; where one machine installs, always with the VPN, and keeps its context | invariant |
| `NothingOverwritten` (`Redeploy`) | no two objects of an accepted file have the same resource and name, if none of its names are joined to the same one (`NamesApart`) | invariant |
| `ClusterIsManifest` | after an `up` that got through, the namespace holds beside claims exactly what the file compiles to, whatever version or failed `up` came before | invariant |
| `ReferencesResolve` | every secret, config map, claim and Service that an object refers to is there, and an Ingress routes to a port its Service has | invariant |
| `BackupsCover` | every claim of a backed-up volume that pods mount has one backup job, into a repository of its own | invariant |
| `RoutesApart` | no host is served by two objects; no two certificates share a secret, if no hosts differ in dots and dashes only and no service is named like another with tls behind it (`CertificatesApart`) | invariant |
| `TargetsResolve` | `backup now` and `restore` work on the claim and repository the scheduled backup has, and else on one the pods mount, whether the CronJobs can be listed or not; excepted is a replica named without a backup in sight, for which an older claim may come first | invariant |
| `RestoreExact` (`Volumes`) | a restore whose Job has succeeded has the snapshot in the volume before the app starts, unless another command has come between or a scheduled service, which nothing stops, has begun to run | invariant |
| `RestartsAsFound` | a restore that returns leaves every workload at the count it found, or at zero those whose count a failed patch or listing has lost, unless somebody else has come between | invariant |
| `SnapshotsReadable` | every repository, and every copy of the target, has the target's password | invariant |
| `CopyFaithful` | a copy that reports success has in the destination something the source held since it began | action property |
| `RunsAgain` | a restore that reports success leaves the app running as its manifest says (refuted) | invariant |
| `Pullable` (`Build`) | every image a manifest names is in the registry | invariant |
| `RunsSources` | what runs, or would be pulled, is what docker makes of the sources the tag was computed from | invariant |
| `RolloutsMatter` | a tag changes only with the image, or with a file that is hashed and that docker does not get | action property |
| `PodsRun` | whatever is deployed gets to run | liveness |
| `PullsWork` (`Install`) | a server reported ready by an install that was alone has one registry password: in registries.yaml, in the running k3s, in the registry and in the context; unless an earlier one has missed the restart of k3s | invariant |
| `AddressHeld` | k3s never starts with an address the server does not have, if its addresses are known | invariant |
| `FixesSuffice` | with `--fix` an install is refused only for what has no fix | invariant |
| `ContourComes` | an install does not wait in vain for contour on an address that can be reached | liveness |
| `OneServer` (`Contexts`) | either time `up` resolves its context, SSH target and kubeconfig are of one server, and with `--context` both times of the same one, unless one of its names is tainted | invariant |
| `CurrentExists` | the current context exists while no command is about it, unless it is tainted | invariant |

| Run | Instance | Shows |
| --- | --- | --- |
| `solo` | one machine, all commands, one app with two versions that differ in objects of every kind; keep 2, four revisions | the first eight above except the hosts: a retry converges from whatever a command ended anywhere left behind |
| `shared` | two machines, one app, `up` and `rollback`; keep 1, three revisions, no backup target; fairness | `StateSurvives` with stale listings of two machines; `CommandsEnd` |
| `hosts` | one machine, two apps and the registry, five manifests that want each other's hosts from ingresses and redirects | `HostsExclusive`, with `up` and `down` ended half-way |
| `credentials` | one machine that installs and one that adopts the server and drops it again, all commands except `install --no-vpn`, two registries with a login each, two passwords (2.1 million states) | types, `LoginsChange`, `CleanCommandsAgree`, `KnownPasswordsWork` |
| `manifest` | a database with its volume, a replicated store and a web server, or a site that has moved, with any two edits out of some sixty, deployed in any version in between; a service `web-nodeport` and hosts `api.dev` and `api-dev` can be added (80,218 states) | the properties of `Redeploy` |
| `volumes` | a restore and its retry; two machines that configure the target; a copy and its retry; a restore beside a copy of the same volume; on a Deployment, a StatefulSet and a scheduled service, with pods, scheduled backups, failures and a kill (1.2 million states) | the properties of `Volumes` but `RunsAgain` |
| `build` | two machines, a service and a sidecar, a file that both leave out and one that docker alone does, an edit and three commands, images collected at any time (586,000 states) | the properties of `Build` |
| `install` | a wrong address and its correction, listed or not; a server with a GPU, a broken apt source and Docker's containers on port 80; two machines that install and one that uninstalls; two failures (333,597 states) | the properties of `Install` |
| `contexts` | two processes, three names, two servers, four commands (484,000 states) | the properties of `Contexts` |
| `rollbackHosts` | as `hosts`, with `rollback` | finding: `HostsExclusive` fails |
| `runsAgain` | as `volumes`, with no kill | finding: `RunsAgain` fails |
| `negated` | as `build`, with a `.dockerignore` that has a line with `!` | finding: `RunsSources` fails |

### Bounds

* `KeepReleases` is 10 in the code and 1 or 2 in the runs. The code uses the
  number only in `len(revs) >= 10`; the runs reach histories below, at and
  above it. The convergence theorems hold for every value.
* `MaxRevision` caps the revision counter: no release is recorded past it. It is
  at least `KeepReleases` + 1 wherever the trim matters (4 with keep 2 in
  `solo`: room for two commands that end before their trim, and a third that
  catches up). `hosts` needs no history and has 1.
* The objects are few but there is one of every kind the code treats
  differently: a standalone claim, a StatefulSet with a claim template, a
  Deployment, an Ingress, a redirect HTTPProxy and a secret that is neither
  release nor credential. The swept resources are the kinds in use, with the
  secrets last, as `PrunableGVRs` has them among others; a further kind behaves
  like the Deployment.
* Two machines suffice for the races, which are all between a listing of one
  and a write of another. The proofs have no bound on machines, apps,
  manifests, objects or resources.

* `Credentials` has no counters. Logins of different registries meet in the push
  of a whole map, which two registries show. With one login for each, a login is
  stored or is not; that of two logins of one registry the Secret's wins the merge
  is in the theorem `LoginsKept` only. Two passwords let an install make
  a new one while an old one is still in use, and two machines are enough for
  one to overtake the other. Passwords, and registries, are interchangeable and are
  symmetry sets; the run that uses it checks no liveness. A context without a
  VPN is there without `install --no-vpn` too: a `context add` makes one while
  the first install has not yet come to the VPN.
* `Redeploy`: two edits reach every pair of changes, and a change and its
  reversal; two services and two volumes are what the rules about sharing
  compare. A third service `web-nodeport` and the hosts `api.dev.example` and
  `api-dev.example` make the joined names meet: without its condition on names
  `NothingOverwritten`, and without its own `RoutesApart`, fails in this run. A
  service added by an edit has no port, and giving `web` NodePorts and both
  services of a joined name a port takes more than two edits, so
  `ReferencesResolve` does not meet the joined name here; its theorem assumes
  `NodePortsApart`. The names of volumes are of one word and satisfy `ClaimsApart`; the theorems are
  about names of any words. There are ten numerals, and the runs use replica counts
  up to 2.
* `Volumes`: one workload of each type, three contents that come up besides the
  first (the snapshot, one that was spoilt and one more), two Jobs at once (a left-over one and a new one), one kill. The plans
  say who runs what; everything else interleaves freely.
* `Build`: two versions of a part tell a stale image from a current one, three
  commands let a second machine overtake a first and a third run find what both
  left.
* `Install`: two failures, so that a retry may fail too; two passwords, one for
  each machine that finds none.
* `Contexts`: commands, names and servers are the only bounds; three names are
  needed to move one context out of the way of another, and all three sets are
  symmetry sets (no liveness is checked).
* Deadlock checking is off in the five runs of the second half of the list,
  `runsAgain` and `negated`: edits, plans and commands are bounded and the
  system then rests.

### Fairness

`FairSpec` assumes that a running command goes on (`WF_vars(Step(p))`): the
modelled code waits for nothing but API answers, and these are under the
command's two-minute timeout, whose expiry is `Abort`. It also assumes that the
namespace controller finishes a deletion. No command has to be started. Weak
fairness of `Step(p)` as a whole says only that some enabled next call or the
abort happens, so `CommandsEnd` rests on the loops: each goes over what was
listed and gets shorter, even while another machine adds objects. A `down` has
no loop but the listing of `DownVolumes` and is left out of that run, as it may
take the releases `StateSurvives` keeps.

`Build` assumes only that the kubelet starts a pod that can start, again and
again (back-off and retry): nobody has to run a command, and images may be
collected for ever. `Install` assumes that k3s applies an addon file that it has
not applied and that a certgen Job ends; both are control loops of k3s. No
fairness is assumed of a command there: one that has come to the wait may stay.

### Findings

* **A rollback ignores host ownership** (`rollbackHosts`). `routeHosts` sees the
  hosts of an Ingress only in the typed object (`hosts.go:27`); a rollback's
  objects are all unstructured (`deploy.go:339`). Deploy *blog* on a host, move
  it away, deploy *shop* on that host, roll *blog* back: both route it, which is
  what the comment at `hosts.go:85` says the check refuses.
* **A restore can leave the app stopped and report success** (`runsAgain`). If
  the patch of one workload fails, or the listing of the StatefulSets after the
  Deployments were patched, `scaleMounters` returns without the counts it has set
  to zero already (`backup.go:420`, `426`, `438`); nothing restarts them, and the
  retry takes zero for the count to go back to. `README.md:118` says that a
  restore "stops the app, restores, restarts". A killed restore does the same.
* **Sources behind a `!` line are never rebuilt** (`negated`). The content hash
  skips such lines of a `.dockerignore` (`build.go:319`), docker follows them.
  With `*` and `!src` the hash covers no source, an edit keeps the tag, and the
  build is skipped from then on; the comment at `build.go:223` says that the
  hash covers everything that determines the image.

Other disagreements TLC showed while the modules were written, each by stating
the quoted promise, or the stronger form of the property named, as a property:

* a plain `down` lists the claims and deletes the namespace in two calls; a claim
  another machine's `up` creates in between goes too (`deploy.go:258`, against
  the comment at `deploy.go:242`): `VolumesSurvive` with two machines;
* an unchanged `up` records one more release of the same manifest, and ten of
  them leave nothing else to roll back to (`docs/deploy-from-ci.md:48`:
  "unchanged manifests are no-ops");
* after a sync that failed, or when another machine stored one since the merge,
  `pushCreds` writes this machine's whole map of logins (`creds.go:151`, against
  `creds.go:92` and `day2.go:795`); `LoginsChange` says what does hold;
* an install from a second machine that finds no VPN password on the server
  makes another one under the first machine (`server.go:171`, against
  `server.go:157`);
* a context without a VPN writes the Secret without a VPN password
  (`creds.go:67`, against `creds.go:19`);
* the replicas of a service share one claim if a second service mounts the
  per-replica volume (`compile.go:679`, against `dsl.go:381` and the rule at
  `parse.go:352`);
* an install that ends between writing registries.yaml and restarting k3s is
  never made up for: the next one finds the file as desired (`install.go:139`,
  against `install.go:168`). `PullsWork` leaves such a server out (`missed`);
* with three hosts on one service of which the second and third differ in dots and
  dashes only, two certificates go into one secret (`compile.go:1009`, against
  `compile.go:1004`, "Each host gets its own secret"): `RoutesApart` without
  `CertificatesApart`;
* a replica named of a volume without a backup resolves to the first claim present
  with the volume's name in front and the replica's number at the end, also to one
  that an earlier version has left and nothing mounts (`backup.go:181`, against
  `backup.go:121`, "from the deployed release manifest"): `TargetsResolve` excepts
  this case and no other. A listing of CronJobs that fails makes every volume one
  without a backup (`backup.go:136`);
* a restore does not stop scheduled services, whose pods mount the volume too
  (`compile.go:594`, against `backup.go:360`, "stops the app during restore"):
  `RestoreExact` leaves a restore out that one has crossed;
* `up` without `--context` reads the current context a second time after the build
  (`app.go:113`): after a `context use` in between, it has built for one server and
  deploys to another. `OneServer` claims one server for `--context` only;
* a file that docker leaves out by a pattern that `loadDockerignore` does not know
  (`build.go:309`) changes the tag and restarts the service for nothing:
  `RolloutsMatter` without `Extra`.

### What the mutants show

The *Slips* section of `Deploy` holds nine altered forms of definitions: a prune
that stops before the last resource, one that forgets the credential, one that
lists until nothing is left, a trim that counts short or starts at the newest
release, a release written by force, a revision that does not parse kept, a
`down` that looks for no claims, a host check that forgets redirects. Each, put
in the place of the original, breaks the property named with it in
`PROJECT.json`. Those of `Credentials` are a merge that takes the Secret's logins
only into a context that has none, one that does not notice a missing VPN password, a push that stores the
entry of a context without a VPN, and an install that does not look at the
context it replaces.

The altered forms in the newer modules: `Compile` with one certificate secret
for all hosts, a NodePort under its Service's name, a claim for one replica only,
a scheduled service that does not make its volumes stand alone, one repository
for all replicas, a prune that does not know network policies, and backup commands that take the
first of several claims; `Volumes`
with a wait that overlooks terminating pods, counts noted after the patch, a
target stored over one that was not read, checksums that are printed and not
compared, and Jobs that are gone when they end; `Build` with a name for several
images, a failed push ignored, a hash without the Dockerfile, and one that covers
the values of secrets; `Install` with registries.yaml compared after it was
written, facts gathered once, a certgen Job left alone or run again whatever
there is; `Preflight` with any address accepted; `Contexts` with a context
renamed to its own name, a rename that keeps the old name in `meta.yaml`, a second
resolution that does not look at `--context`, and a current context that is not
looked at.

## 4. Proofs

TLAPS checks every theorem for all values of the constants that satisfy the
assumptions of its module: any number of machines, apps, names, servers, files,
and any bounds. TLC evaluates the assumptions on every run, and has checked each
inductive invariant on the module's run before it was proved.

| Theorem | Property | Under |
| --- | --- | --- |
| `TypeSafe`, `TypeCorrect` (`Deploy`) | `TypeOK` | – |
| `UpConvergence`, `DownConvergence` | `UpConverges`, `DownConverges` | `Exclusive` |
| `StateKept` | `StateSurvives` | `Undisturbed` |
| `BoundedHistory`, `HistoryRefined`, `VolumesKeptByDown` | `HistoryBounded`, `RefinesHistory`, `VolumesSurvive` | `Exclusive` |
| `HostsApart` | `HostsExclusive` | `OneMachine`, `Seen` |
| `CredentialsTypeSafe`, `SyncsAgree`, `LoginsKept` | `TypeOK`, `CleanCommandsAgree`, `LoginsChange` | – |
| `PasswordsKeepWorking` | `KnownPasswordsWork` | `Keeps(k)` |
| `ContextsTypeSafe`, `ContextReachesItsServer`, `CurrentIsThere` | `TypeOK`, `OneServer`, `CurrentExists` | – |
| `BuildTypeSafe`, `ImagesPullable`, `RolloutsJustified` | `TypeOK`, `Pullable`, `RolloutsMatter` | – |
| `RunsItsSources` | `RunsSources` | `Exact` |
| `InstallTypeSafe`, `PullsAlwaysWork`, `AddressAlwaysHeld`, `FixesAlwaysSuffice` | `TypeOK`, `PullsWork`, `AddressHeld`, `FixesSuffice` | – |
| `VolumesTypeSafe`, `RestoresExactly`, `RestoresAsFound`, `SnapshotsAlwaysReadable`, `CopiesFaithfully` | `TypeOK`, `RestoreExact`, `RestartsAsFound`, `SnapshotsReadable`, `CopyFaithful` | – |
| `RedeployTypeSafe`, `ClusterAlwaysManifest`, `HostsRoutedOnce` | `TypeOK`, `ClusterIsManifest`, the first half of `RoutesApart` | – |
| `ReferencesAlwaysResolve` | `ReferencesResolve` | `NodePortsApart` |
| `RoutesAlwaysApart`, `NothingEverOverwritten` | `RoutesApart`, `NothingOverwritten`, which have their conditions on names in them | – |
| `TargetsAlwaysResolve`, `RepositoriesNeverShared` | `TargetsResolve`, the last two parts of `BackupsCover` | – |
| `BackupsAlwaysCover` | `BackupsCover` | `CronJobsApart`, `ClaimsApart` |

The hypotheses of the last column are not conveniences; without each of them the
property is false, and the run or the disagreement that shows it is named below.

### Deploy: types and convergence (`DeployProofs`)

The assumptions of `Deploy` are `NamesAssumption` (object names and contents do
not collide), `RenderAssumption` (a manifest is a sequence of objects with at
least one that is not a claim: a service has a workload or is a redirect),
`AppAssumption` (typing) and `SweepAssumption` (a prune sweeps every kind a
manifest can contain except claims, which `kube.PrunableGVRs` and the compiler's
kinds justify).

`TypeOK` is not inductive: that the release created at `createRelease` holds a
manifest, or that the object applied next exists, depends on which fields of a
job are meaningful at which call. `TypeInv` adds that.

`Exclusive` says that no app is deployed from two machines; without it
convergence is false (two machines prune each other's objects) and the code
does not claim it. Other apps can be deployed from other machines at the same
time, and that they do not disturb each other is part of what is proved.

The inductive invariant `IInv` is `TypeInv` and, for every running command,
`Progress`: what a command has achieved when it makes its next call, in three
parts.

* *Intact*: while the namespace is active, every object applied so far still
  holds this manifest.
* *Swept*: of the resources swept so far nothing is left that this command did
  not apply, and of the one being swept nothing but that and what it still has
  to delete.
* *Recorded*: the releases read are still the app's releases when the next one
  is created; from then on the namespace is active and the newest release is
  this manifest and not among those to be trimmed.

`Swept` is why `UpConverges` cannot be proved by itself: it holds at the end
because of facts about each resource that were established one sweep at a time.
A step of the command's own machine is followed phase by phase
(`EarlyProgress`, `ApplyProgress`, `AfterSweepProgress` and so on); a step of
another machine writes to another app (`OtherWrite`); the cluster's own steps
either leave what `Progress` speaks of alone or happen only in a namespace
under deletion (`ClusterProgress`).

### Deploy: history, volumes, hosts (`HistoryProofs`)

The first part says what one step can do to one app's objects and to the phase
of its namespace: write an object of a render, record a release, trim one, copy
the credential, or finish a deletion (`MachineWrites`, `ClusterWrites`). The rest
is about that.

* `StateKept` holds for any number of machines that deploy the same app at
  once, if none takes it down (`NoDowns`), and with downs if the app is deployed
  from one machine: `Undisturbed` is either. The invariant `SInv` adds to the
  types that namespaces are never under deletion (`Steady`), that the credential
  is one (`BackupOK`), and what a trim rests on (`HeldAll`): every release that a
  command listed is still there or has `KeepReleases` newer ones, so what it
  deletes from its stale listing was due anyway. With downs and two machines this
  is false, because a release of the same number may have been made anew.
* `BoundedHistory` adds to `IInv` that a trim deletes from a listing that is all
  there is but for the release just recorded (`Trimmed`).
* `HistoryRefined` maps every step of `Deploy` to one of `ReleaseHistory` or to
  none: `CreateRelease` to `Record` (what runs is the manifest recorded, which is
  `UpConverges`), `TrimRelease` to `Forget` (what goes is the oldest and one too
  many, which is `Trimmed`), the end of a namespace to `Remove`, all else to
  `Change` or a stutter.
* `VolumesKeptByDown` adds to `IInv` that a plain `down` about to delete the
  namespace has no claim in it (`Unclaimed`). The StatefulSet controller could
  make one between the two calls, but the prune before has taken every
  StatefulSet and nobody applies another.
* `HostsApart` is for one machine (`OneMachine`) and for renders whose hosts the
  check sees (`Seen`: no rollback is run, or no render has an Ingress); the
  finding `rollbackHosts` is what happens otherwise, and two machines can pass
  the check together. The invariant `XInv` says what the listings have found
  when the next call is made (`HostsChecked`), and that no two apps' objects
  route one host, whether or not the apps have converged (`Apart`): a command
  that ends half-way leaves objects of two renders.

### Credentials (`CredentialsProofs`)

`CredentialsAssumption` is typing and that the values for "nothing" and "no VPN"
are neither passwords nor contexts.

* `CredentialsTypeSafe`: strengthened by *Made*, an install has its password
  before it deploys it.
* `SyncsAgree` and `LoginsKept` rest on one invariant, `AInv`. Of a command that
  has synced and that nobody has overtaken it says that the context in memory has
  every login of the Secret but the one the command is about (`SyncedJob`), and
  that this is what the file says, and the Secret too once there is nothing left
  to push (`CleanJob`).
* `PasswordsKeepWorking`: `Keeps(k)` says that only `k` installs, always with the
  VPN, and never removes its context; two installers break it (section 3, the
  other disagreements). The inductive invariant `KInv` says where passwords can
  be. Until `k`'s context has one, nobody has but the install of `k` that is
  making it. From then on `k`'s context has it, every password in a context, in
  the Secret or in a command's memory is that one (`KeptContexts`, `KeptJob`),
  and an install takes it from there and makes no other. The property alone says
  nothing of what a command still has in memory and will write.

### Contexts (`ContextsProofs`)

A command owns its names while it runs: two that share one both know
(`Apart`), and a command's names are spoilt together or not at all (`Tainting`).
`Progress` says what a command that owns good names has achieved at each call;
`Names` that every good name which nobody is in the middle of writing is one
server's; `Current` that what `config.yaml` names is there, unless a removal or a
rename is about to look at it. Of an `up` that has resolved its context again
`Progress` says it of the second name too. The three theorems need no more than
`ContextsAssumption` (no name, server or entry is the value for "none").

### Build (`BuildProofs`)

Every entry of the registry, the node's store and the name a push uses is
*Sound*: the image was made of sources that hash to its tag, or an edit during
the build has spoilt it (`StoreOK`, with `Unique`: a name is for one image at a
time). A command knows the sources it has hashed (`CommandOK`), and what is
deployed has an image under its name in the registry (`RefOK`), which is
`ImagesPullable`: push or lookup always comes before the apply.

`RunsItsSources` needs `Exact`, that docker gets no more than is hashed: an
assumption on the builds, not on what machines do, and the finding `negated` shows
one for which it fails. `RolloutsJustified` is the other direction and needs
nothing: a tag that differs where docker's part does not, differs in `Extra`, what
is hashed beyond it. That is a file that only docker leaves out, or the Dockerfile
beside the manifest where docker reads the one in the context.

### Install (`InstallProofs`)

The invariant has two levels. Of the server, whoever works on it: k3s has an
address it was shown to have, and has read registries.yaml as it is, or somebody
is about to restart it, or a command ended between the two (`missed`, one of the
disagreements of section 3). Of an install that has been alone (`Alone`): the
password it knows is in registries.yaml once that is written, in k3s once that
runs, in the registry's addon file once that is written (`Progress`), and in its
own context at the end (`Saved`). `CommandOK` is what a command knows of the
facts it gathered, which for `FixesAlwaysSuffice` must stay true while other
machines apply fixes and fail: what one has fixed nobody unfixes. `FixesSuffice`
says of which checks alone a `--fix` install can be refused.

### Volumes (`VolumesProofs`)

Nothing is assumed but typing (`VolumesAssumption`) and that `None` is none of the
values it stands beside (`NoneAssumption`): servers, machines, workloads, plans,
Jobs and kills are arbitrary. `Shape` and `Known` say which fields of a command mean what
at which call, `JobsOK` that a command's Job is there and is its own. `RestoreOK`
is about a restore that nobody has overtaken, in three parts: the counts
(`CountsOK`: of each workload it has come to, the count is noted and the
replicas are 0), the pods (`Undisturbed`: once it has waited, nothing mounts the
volume but its Job, unless a scheduled service has crossed it), and its Job (`OwnJob`: done means the snapshot is in the
volume). `CopyOK` keeps what the source has held since the stream began. A step
is of one of a few kinds, each with a lemma for what it preserves (`EnvStep`,
`QuietStep`, `PodStep`, `SlotStep`, `PatchStep`, `ArrivesStep` among them); the
actions are then instances. `SnapshotsReadable` is inductive with `Known`, which
says what a `backup config` may have read.

### Compile and Redeploy (`RedeployProofs`)

What an app compiles to is a list put together by concatenation and `FlattenSeq`,
which is recursive; induction as a theorem with an operator parameter is beyond
the provers. `Flatten` says what it contains all the same: that the elements of
the first `n` lists are those of the result is shown for the least `n` at which it
would fail (`Climb`, from the well-foundedness of the naturals). After that lists
are sets: `ServiceObjectsRead`, `RoutesRead`, `VolumeObjectsRead` and
`ObjectsRead` say exactly which objects an app has, `BackupJobsRead`,
`RedirectRead` and others what is in them.

The inductive invariant is that after an `up` that got through the namespace
*Holds* these objects: all are there, nothing else of a swept kind is, and each
holds what was compiled (the last of a name, since apply forces). It is kept by
edits, by `CreateClaims`, and by an `up` from any namespace, one that a refused
`up` has left half applied among them; with it that claims are bare, and that no
host of a deployed app is a variable.

* `ClusterAlwaysManifest` follows at once, for names that collide too.
* `ReferencesAlwaysResolve`: that what is referred to is compiled
  (`UsesCompiled`) needs no assumption. That the Service an Ingress routes to has
  the port needs that it is the one of its service, and a service `web-nodeport`
  beside `web` would replace it: `NodePortsApart`.
* `HostsRoutedOnce`: since no host is in the file twice (`HostsServedOnce`), two
  objects that route one host are of one service and of one position in its list.
* `RoutesAlwaysApart`: two certificates of one secret are of one service and host
  for names that `tlsSecretName` keeps apart (`CertificatesApart`), which dashes
  in a name and dots in a host may not. What is shown is that no other names
  meet: not by the service's name and the slug of a host running into each other.
* `TargetsAlwaysResolve` holds for all names. The commands find a claim through
  the labels of the backup jobs, or among the claims whose name starts with the
  volume's. Each job has the claim and the repository of its own label
  (`BackupResolves`); where no jobs are seen, a single claim with the volume's name
  in front is the one that the pods mount, since that one is there and has the name
  in front too (`VolumeResolves`). Of a replica named the first claim is taken, and
  that there is a first, that it is of that replica, and that a mounted one is
  among those it was chosen from (`ReplicaResolves`, `ReplicaFound`) needs what
  names claims have at all: those of volumes, and of StatefulSets and replicas
  (`Small`, inductive with what the templates are).
* `BackupsAlwaysCover`: that repositories are not shared and that nothing is
  suspended needs no assumption (`RepositoriesNeverShared`): the repository says
  which volume and replica it is of, and the name of a job, of which there is one
  in the namespace, follows from it. That a claim has exactly one job needs that
  the jobs of two volumes are not the same object (`CronJobsApart`) and that two
  volumes do not have a claim of one name, which then has a job for each
  (`ClaimsApart`): `log-db-web-0` is the claim of a volume `log` for a service
  `db-web`, and of a volume `log-db` for a service `web`.
* `NothingEverOverwritten` is about the list itself, since what was overwritten is
  gone from the set: a list whose elements have pairwise different ids
  (`Distinct`) is as long as the set of its ids (`DistinctCounted`). `Flatten` is
  shown to be `Distinct` when the lists in it are and no two of them share an id
  (`FlattenDistinct`, again by the least index). The objects of a service all have
  names that the service *owns* (`Owned`, `OwnedRead`), and two services own no
  name together (`OwnedApart`); volumes own claims and jobs; the lists of one
  service are of different kinds, or differ in a last word. `NamesApart` is what
  the names have to satisfy for this, one conjunct for each way in which the
  compiler joins them: NodePort Services, backup jobs, certificates, redirects.

`NamesApart` is a condition in the property and `ClaimsApart` an assumption of a
theorem, neither one of the module, because `validate` refuses no dashes: what they
exclude a file may have, and then two objects are one.
`RedeployAssumption` includes that the files to start from and the values of the
edits are of the types of `Manifest`; the sets of ports in a file are finite.
`RankAssumption` says that names of claims have a place in the order of strings.
`NoneAssumption` says that `None` is none of the repositories and targets, whose
names are of any words and of those the compiler adds (`Words`).

### Checked by TLC only

* `CommandsEnd`, `PodsRun` and `ContourComes`: liveness under fairness is out of
  the prover's reach.
* The three findings: they are false.

## 5. Not modelled

* In `Deploy`: `ps`, `history` and the GPU warning, which only read; a cluster
  without the HTTPProxy resource (its listings are skipped); the bodies of
  objects and whether pods become ready (the command does not wait for them);
  a user's `kubectl`.
* In `Manifest` and `Compile`: the form of single values, and object bodies that
  are passed through (images, commands, probes' timing, limits, security
  contexts). The model follows the code in what it accepts and then does not
  carry out, and the properties say where they step aside: a scheduled service
  gets neither secrets nor files (`compile.go:122`, `Ignored`); `stateful: false`
  mounts no volume; a health check without a port, and a sidecar's port equal to
  its service's, give objects that the API refuses (`Refused`). Volumes whose
  names have dashes are left out of the run: a volume `log` of `db-web` and a volume
  `log-db` of `web` do share a claim. What still holds of them, and which names have
  to be apart for the rest, the theorems say.
* In `Volumes`: `backup ls`, which runs a Job that only reads; a scheduled backup
  during a restore, which the code permits, saves half-restored content (the
  snapshot a restore is given is the one it has to produce); the copy's checksum
  covers regular files only, which contents as numbers do not show.
* In `Build`: the platform, which the context fixes; an edit between the hash and
  docker's read makes an image that its tag does not describe, for good
  (`spoilt`, which `RunsSources` excepts); Dockerfiles in subdirectories.
* In `Install`: `--purge-storage`, `--purge-docker-data`, the upgrade of k3s's
  version, and the waits' timeouts except as failures. A fix is all or nothing.
  Addon files of an option that is dropped later stay, as in the code.
* In `Contexts`: writes to a file are atomic, while `os.WriteFile` truncates
  first: a kill in between leaves an empty `meta.yaml`. Listing, showing,
  exporting and redacting only read.
* Commands that only read or pass a request on (`logs`, `exec`, `port-forward`,
  `restart`, `images`, `top`), and the terminal UI: a view that refreshes itself
  and on which no other component acts. Its log stream replaces a channel under
  goroutines that still send (`ui.go:357`).
* SSH, the VPN client, self update, skill packs, kubectl wrapping, templates
  (splicing, fetching, friendly schedules) and all rendering of text: thin
  wrappers, functions of one value, or layout, with nothing several steps could get wrong.

## 6. Plan

1. *Done*: `Deploy`, `ReleaseHistory`, `MCDeploy`, `DeployProofs`;
   `Credentials`, `MCCredentials`, `CredentialsProofs`.
2. *Done*: `Manifest`, `Compile`, `Redeploy`; `Volumes`; `Build`; `Preflight`,
   `Install`; `Contexts`, each with its instance.
3. *Done*: the theorems of section 4: the types of every module, and every safety
   invariant and action property that a run checks.

---------------------------- MODULE HistoryProofs ----------------------------
(***************************************************************************)
(* Theorems about the releases of Deploy, for any apps, machines,          *)
(* manifests and bounds: what a step can do to an app's objects and to the *)
(* phase of its namespace, that state survives, that the history stays     *)
(* bounded and refines ReleaseHistory, that a plain down keeps claims, and *)
(* that the apps of one machine route no host twice.                       *)
(***************************************************************************)
EXTENDS DeployProofs, FiniteSetTheorems

-----------------------------------------------------------------------------
(***************************************************************************)
(* What one step can do to one app.                                        *)
(***************************************************************************)

With(st, o, v) == [st EXCEPT ![o] = v]

\* An object of a render is written by an apply or the StatefulSet controller,
\* and deleted, if it is not a claim, by a prune.
ObjectWrite(st, st2) ==
  \E o \in AppObject, v \in Manifest \cup {None} :
    st2 = With(st, o, v) /\ (v = None => ~IsClaim(o))

RecordsIn(p, a, n) ==
  /\ CreateRelease(p) /\ job[p].app = a
  /\ IsNext(n, job[p].revs) /\ ns[a] = "active" /\ n \notin ReleasesIn(store[a])
  /\ job'[p] = [job[p] EXCEPT !.pc = "trim"]
  /\ store'[a] = With(store[a], Release(n), job[p].man)

TrimsIn(p, a, n) ==
  /\ TrimRelease(p) /\ job[p].app = a
  /\ Cardinality(job[p].revs) >= KeepReleases
  /\ n \in job[p].revs /\ \A k \in job[p].revs : n <= k
  /\ job'[p] = [job[p] EXCEPT !.revs = @ \ {n}]
  /\ store'[a] = With(store[a], Release(n), None)

LEMMA JobFacts ==
  ASSUME TypeInv, NEW p \in Proc
  PROVE  /\ job[p] \in Job /\ JobOK(p, job[p]) /\ DoomedOK(job[p]) /\ GoodJob(p, job[p])
         /\ job[p].pc # "idle" => job[p].app \in App
  BY DEF TypeInv, GoodJob, JobOK

\* The steps of a machine, by what they do to the objects of an app.
LEMMA MachineWrites ==
  ASSUME TypeInv, NEW p \in Proc, Start(p) \/ Step(p), NEW a \in App
  PROVE  \/ store'[a] = store[a]
         \/ ObjectWrite(store[a], store'[a])
         \/ \E n \in Revision : RecordsIn(p, a, n) \/ TrimsIn(p, a, n)
         \/ store'[a] = With(store[a], BackupSecret, Credential)
  <1> DEFINE j == job[p]
  <1>1. /\ j \in Job /\ JobOK(p, j) /\ DoomedOK(j) /\ (j.pc # "idle" => j.app \in App)
        /\ store \in [App -> [Object -> Content]] /\ job \in [Proc -> Job]
    BY JobFacts DEF TypeInv, TypeOK
  <1>2. ASSUME NEW o, NEW v, j.app \in App, store' = [store EXCEPT ![j.app][o] = v]
        PROVE  store'[a] = store[a] \/ (j.app = a /\ store'[a] = With(store[a], o, v))
    BY <1>1, <1>2 DEF With
  <1>3. CASE Start(p)
    BY <1>3 DEF Start, Up, Rollback, Down, DownVolumes
  <1>4. CASE ApplyObject(p)
    <2> DEFINE o == Render[j.man][j.idx + 1]
    <2>1. j.pc = "apply" /\ store' = [store EXCEPT ![j.app][o] = j.man]
      BY <1>4 DEF ApplyObject
    <2>2. j.man \in Manifest /\ j.idx \in Nat /\ j.idx < Len(Render[j.man])
      BY <1>1, <2>1 DEF JobOK, Job
    <2>3. o \in AppObject /\ j.man # None
      BY <2>2, RenderFacts, NamesAssumption
    <2>4. store'[a] = store[a] \/ store'[a] = With(store[a], o, j.man)
      BY <1>1, <1>2, <2>1
    <2> HIDE DEF o
    <2>5. QED
      BY <2>2, <2>3, <2>4 DEF ObjectWrite
  <1>5. CASE PruneDelete(p)
    <2>1. PICK o \in j.doomed : store' = [store EXCEPT ![j.app][o] = None]
      BY <1>5 DEF PruneDelete
    <2>2. o \in AppObject /\ o.gvr = PrunableGVRs[j.gvr] /\ j.gvr \in 1..Len(PrunableGVRs)
      BY <1>1 DEF DoomedOK, JobOK
    <2>3. ~IsClaim(o)
      BY <2>2, SweepAssumption DEF IsClaim, Range
    <2>4. store'[a] = store[a] \/ store'[a] = With(store[a], o, None)
      BY <1>1, <1>2, <1>5, <2>1 DEF PruneDelete
    <2>5. QED
      BY <2>2, <2>3, <2>4 DEF ObjectWrite
  <1>6. CASE CreateRelease(p)
    <2>1. PICK n \in Revision :
            /\ IsNext(n, j.revs) /\ ns[j.app] = "active" /\ n \notin Releases(j.app)
            /\ store' = [store EXCEPT ![j.app][Release(n)] = j.man]
      BY <1>6 DEF CreateRelease
    <2>2. j.pc = "createRelease" /\ job' = [job EXCEPT ![p].pc = "trim"]
      BY <1>6 DEF CreateRelease, Goto
    <2>3. job'[p] = [j EXCEPT !.pc = "trim"]
      BY <1>1, <2>2
    <2>4. store'[a] = store[a] \/ (j.app = a /\ store'[a] = With(store[a], Release(n), j.man))
      BY <1>1, <1>2, <2>1, <2>2
    <2>5. QED
      BY <1>6, <2>1, <2>3, <2>4 DEF RecordsIn, Releases, ReleasesIn
  <1>7. CASE TrimRelease(p)
    <2>1. PICK n \in j.revs :
            /\ \A k \in j.revs : n <= k
            /\ store' = [store EXCEPT ![j.app][Release(n)] = None]
            /\ job' = [job EXCEPT ![p].revs = @ \ {n}]
      BY <1>7 DEF TrimRelease
    <2>2. j.pc = "trim" /\ Cardinality(j.revs) >= KeepReleases
      BY <1>7 DEF TrimRelease
    <2>3. job'[p] = [j EXCEPT !.revs = @ \ {n}] /\ n \in Revision
      BY <1>1, <2>1 DEF Job
    <2>4. store'[a] = store[a] \/ (j.app = a /\ store'[a] = With(store[a], Release(n), None))
      BY <1>1, <1>2, <2>1, <2>2
    <2>5. QED
      BY <1>7, <2>1, <2>2, <2>3, <2>4 DEF TrimsIn
  <1>8. CASE CopyBackup(p)
    BY <1>1, <1>2, <1>8 DEF CopyBackup
  <1>9. CASE \/ ListIngresses(p) \/ ListProxies(p) \/ ApplyNamespace(p) \/ PruneList(p)
             \/ ReadReleases(p) \/ EndTrim(p) \/ ListClaims(p) \/ DeleteNamespace(p)
             \/ Return(p) \/ Abort(p)
    BY <1>9 DEF ListIngresses, ListProxies, ApplyNamespace, PruneList, ReadReleases, EndTrim,
                ListClaims, DeleteNamespace, Return, Abort
  <1>10. QED
    BY <1>3, <1>4, <1>5, <1>6, <1>7, <1>8, <1>9 DEF Step

\* And those of the rest of the cluster.
LEMMA ClusterWrites ==
  ASSUME TypeInv, Cluster, NEW a \in App
  PROVE  /\ job' = job
         /\ \/ store'[a] = store[a] /\ ns'[a] = ns[a]
            \/ ns[a] = "terminating" /\ ns'[a] = "absent" /\ store'[a] = Empty
            \/ ObjectWrite(store[a], store'[a]) /\ ns'[a] = ns[a] /\ ns[a] = "active"
  <1>1. /\ store \in [App -> [Object -> Content]]
        /\ ns \in [App -> {"absent", "active", "terminating"}]
        /\ \A b \in App : \A o \in AppObject : store[b][o] # Credential
    BY DEF TypeInv, TypeOK
  <1>2. CASE ConfigureBackup
    BY <1>2 DEF ConfigureBackup
  <1>3. ASSUME NEW b \in App, Finalize(b)
        PROVE  /\ job' = job
               /\ \/ store'[a] = store[a] /\ ns'[a] = ns[a]
                  \/ ns[a] = "terminating" /\ ns'[a] = "absent" /\ store'[a] = Empty
    BY <1>1, <1>3 DEF Finalize
  <1>4. ASSUME NEW b \in App, CreateClaim(b)
        PROVE  /\ job' = job /\ ns'[a] = ns[a]
               /\ \/ store'[a] = store[a]
                  \/ ObjectWrite(store[a], store'[a]) /\ ns[a] = "active"
    <2>1. PICK o \in AppObject \cap Present(b) : \E c \in ClaimTemplates[o] :
                 store' = [store EXCEPT ![b][c] = store[b][o]]
      BY <1>4 DEF CreateClaim
    <2>2. PICK c \in ClaimTemplates[o] : store' = [store EXCEPT ![b][c] = store[b][o]]
      BY <2>1
    <2>3. c \in AppObject
      <3>1. ClaimTemplates[o] \in SUBSET {x \in AppObject : IsClaim(x)}
        BY AppAssumption
      <3>2. QED
        BY <3>1
    <2>4. store[b][o] \in Manifest /\ store[b][o] # None
      BY <1>1, ObjectKinds DEF Present, Content
    <2>5. store'[a] = store[a] \/ (a = b /\ store'[a] = With(store[a], c, store[b][o]))
      BY <1>1, <2>2 DEF With
    <2>6. QED
      BY <1>4, <2>3, <2>4, <2>5 DEF CreateClaim, ObjectWrite
  <1>5. QED
    BY <1>2, <1>3, <1>4 DEF Cluster

\* The phase of a namespace changes at the hands of a command of its app.
LEMMA MachinePhases ==
  ASSUME TypeInv, NEW p \in Proc, Start(p) \/ Step(p), NEW a \in App, ns'[a] # ns[a]
  PROVE  /\ job[p].app = a
         /\ \/ /\ ApplyNamespace(p) /\ job[p].pc = "namespace"
               /\ ns[a] = "absent" /\ ns'[a] = "active"
            \/ /\ DeleteNamespace(p) /\ job[p].pc = "deleteNamespace"
               /\ ns[a] # "absent" /\ ns'[a] = "terminating"
  <1>1. /\ ns \in [App -> {"absent", "active", "terminating"}]
        /\ job[p].pc # "idle" => job[p].app \in App
    BY JobFacts DEF TypeInv, TypeOK
  <1>2. CASE Start(p)
    BY <1>2 DEF Start, Up, Rollback, Down, DownVolumes
  <1>3. CASE ApplyNamespace(p)
    BY <1>1, <1>3 DEF ApplyNamespace
  <1>4. CASE DeleteNamespace(p)
    BY <1>1, <1>4 DEF DeleteNamespace
  <1>5. CASE \/ ListIngresses(p) \/ ListProxies(p) \/ ApplyObject(p) \/ PruneList(p)
             \/ PruneDelete(p) \/ ReadReleases(p) \/ CreateRelease(p) \/ TrimRelease(p)
             \/ EndTrim(p) \/ CopyBackup(p) \/ ListClaims(p) \/ Return(p) \/ Abort(p)
    BY <1>5 DEF ListIngresses, ListProxies, ApplyObject, PruneList, PruneDelete, ReadReleases,
                CreateRelease, TrimRelease, EndTrim, CopyBackup, ListClaims, Return, Abort
  <1>6. QED
    BY <1>2, <1>3, <1>4, <1>5 DEF Step

\* Only its own machine moves a job.
LEMMA OwnJob ==
  ASSUME TypeInv, [Next]_vars, NEW p \in Proc, ~(Start(p) \/ Step(p))
  PROVE  job'[p] = job[p]
  <1>1. CASE UNCHANGED vars
    BY <1>1 DEF vars
  <1>2. CASE Cluster
    BY <1>2 DEF Cluster, ConfigureBackup, Finalize, CreateClaim
  <1>3. ASSUME NEW q \in Proc, Start(q) \/ Step(q)
        PROVE  job'[p] = job[p]
    BY <1>3, Elsewhere
  <1>4. QED
    BY <1>1, <1>2, <1>3 DEF Next

\* What a job looks like after a command's start,
LEMMA StartJob ==
  ASSUME TypeInv, NEW p \in Proc, Start(p)
  PROVE  /\ job[p].pc = "idle" /\ UNCHANGED <<ns, store, target>>
         /\ job'[p].pc \in {"namespace", "listIngresses", "pruneList", "deleteNamespace"}
         /\ job'[p].cmd \in Commands /\ job'[p].app \in WorksOn[p] \cap App
         /\ job'[p].pc \in {"namespace", "listIngresses"} => job'[p].cmd \in {"up", "rollback"}
         /\ job'[p].pc = "pruneList" => job'[p].cmd = "down"
         /\ job'[p].pc = "deleteNamespace" => job'[p].cmd = "down --volumes"
         /\ job'[p].revs = {} /\ job'[p].owned = {}
  <1>1. job \in [Proc -> Job]
    BY DEF TypeInv, TypeOK
  <1>2. PICK a \in App : \/ \E m \in Manifest : Up(p, a, m)
                         \/ \E n \in Revision : Rollback(p, a, n)
                         \/ Down(p, a)
                         \/ DownVolumes(p, a)
    BY DEF Start
  <1>3. ASSUME NEW cmd \in Commands, a \in WorksOn[p], cmd \in {"up", "rollback"}, NEW m, NEW copy,
               job' = [job EXCEPT ![p] = Deploying(cmd, a, m, copy)]
        PROVE  /\ job'[p].pc \in {"namespace", "listIngresses"}
               /\ job'[p].cmd = cmd /\ job'[p].app = a /\ job'[p].revs = {} /\ job'[p].owned = {}
    <2> DEFINE k == Deploying(cmd, a, m, copy)
    <2>1. /\ k.pc \in {"namespace", "listIngresses"} /\ k.cmd = cmd /\ k.app = a
          /\ k.revs = {} /\ k.owned = {}
      BY DEF Deploying, Idle
    <2> HIDE DEF k
    <2>2. job'[p] = k
      BY <1>1, <1>3 DEF k
    <2>3. QED
      BY <2>1, <2>2
  <1>4. CASE \E m \in Manifest : Up(p, a, m)
    <2>1. PICK m \in Manifest : Up(p, a, m)
      BY <1>4
    <2>2. /\ job[p].pc = "idle" /\ a \in WorksOn[p] /\ "up" \in Commands
          /\ job' = [job EXCEPT ![p] = Deploying("up", a, m, m \in Backed /\ target)]
          /\ UNCHANGED <<ns, store, target>>
      BY <2>1 DEF Up, Starts
    <2>3. QED
      BY <1>3, <2>2
  <1>5. CASE \E n \in Revision : Rollback(p, a, n)
    <2>1. PICK n \in Revision : Rollback(p, a, n)
      BY <1>5
    <2>2. /\ job[p].pc = "idle" /\ a \in WorksOn[p] /\ "rollback" \in Commands
          /\ job' = [job EXCEPT ![p] = Deploying("rollback", a, store[a][Release(n)], FALSE)]
          /\ UNCHANGED <<ns, store, target>>
      BY <2>1 DEF Rollback, Starts
    <2>3. QED
      BY <1>3, <2>2
  <1>6. CASE Down(p, a)
    BY <1>1, <1>6 DEF Down, Starts, Idle
  <1>7. CASE DownVolumes(p, a)
    BY <1>1, <1>7 DEF DownVolumes, Starts, Idle
  <1>8. QED
    BY <1>2, <1>4, <1>5, <1>6, <1>7

\* and after one of its calls: it has ended, or is about the same.
LEMMA StepJob ==
  ASSUME TypeInv, NEW p \in Proc, Step(p)
  PROVE  /\ job[p].pc # "idle"
         /\ \/ job'[p] = Idle
            \/ /\ job'[p].app = job[p].app /\ job'[p].cmd = job[p].cmd /\ job'[p].man = job[p].man
               /\ job'[p].pc \in Before => job[p].pc \in Before
               /\ job'[p].pc = "listProxies" => ListIngresses(p)
               /\ job'[p].pc = "namespace" => ListProxies(p)
               /\ job'[p].pc = "apply" => ApplyNamespace(p) \/ ApplyObject(p)
               /\ job'[p].pc \in {"pruneList", "pruneDelete"} =>
                    ApplyObject(p) \/ PruneList(p) \/ PruneDelete(p)
               /\ job'[p].pc \in {"readReleases", "listClaims"} => PruneList(p) \/ PruneDelete(p)
               /\ job'[p].pc = "createRelease" => ReadReleases(p)
               /\ job'[p].pc = "trim" => CreateRelease(p) \/ TrimRelease(p)
               /\ job'[p].pc = "copyBackup" => EndTrim(p)
               /\ job'[p].pc = "deleteNamespace" => ListClaims(p)
               /\ job'[p].pc = "done" => EndTrim(p) \/ CopyBackup(p) \/ ListClaims(p) \/ DeleteNamespace(p)
               /\ job'[p].pc # "idle"
  <1> DEFINE j == job[p]
             k == job'[p]
  <1>1. j \in Job /\ job \in [Proc -> Job]
    BY JobFacts DEF TypeInv, TypeOK
  <1>2. CASE ListIngresses(p)
    BY <1>1, <1>2 DEF ListIngresses, Job, Before
  <1>3. CASE ListProxies(p)
    <2>1. \/ k = [j EXCEPT !.pc = "namespace", !.owned = {}]
          \/ k = Idle
      BY <1>1, <1>3 DEF ListProxies
    <2>2. j.pc = "listProxies"
      BY <1>3 DEF ListProxies
    <2>3. QED
      BY <1>1, <1>3, <2>1, <2>2 DEF Job, Before
  <1>4. CASE ApplyNamespace(p)
    BY <1>1, <1>4 DEF ApplyNamespace, Goto, Job, Before
  <1>5. CASE ApplyObject(p)
    <2> DEFINE pc == IF j.idx + 1 = Len(Render[j.man]) THEN "pruneList" ELSE j.pc
    <2>1. k = [j EXCEPT !.idx = j.idx + 1, !.pc = pc]
      BY <1>1, <1>5 DEF ApplyObject
    <2>2. j.pc = "apply" /\ pc \in {"apply", "pruneList"}
      BY <1>5 DEF ApplyObject
    <2> HIDE DEF pc
    <2>3. k.pc = pc /\ k.app = j.app /\ k.cmd = j.cmd /\ k.man = j.man
      BY <1>1, <2>1 DEF Job
    <2>4. QED
      BY <1>5, <2>2, <2>3 DEF Before
  <1>6. CASE PruneList(p) \/ PruneDelete(p)
    <2>1. j.pc \in {"pruneList", "pruneDelete"}
      BY <1>6 DEF PruneList, PruneDelete
    <2>2. \/ k = AfterSweep(j)
          \/ \E d : k = [j EXCEPT !.pc = "pruneDelete", !.doomed = d]
          \/ j.pc = "pruneDelete" /\ \E d : k = [j EXCEPT !.doomed = d]
      <3>1. CASE PruneList(p)
        BY <1>1, <3>1 DEF PruneList
      <3>2. CASE PruneDelete(p)
        BY <1>1, <3>2 DEF PruneDelete
      <3>3. QED
        BY <1>6, <3>1, <3>2
    <2>3. /\ k.app = j.app /\ k.cmd = j.cmd /\ k.man = j.man
          /\ k.pc \in {"pruneList", "pruneDelete", "listClaims", "readReleases"}
      <3>1. CASE k = AfterSweep(j)
        BY <1>1, <3>1 DEF AfterSweep, Job
      <3>2. CASE \E d : k = [j EXCEPT !.pc = "pruneDelete", !.doomed = d]
        BY <1>1, <3>2 DEF Job
      <3>3. CASE j.pc = "pruneDelete" /\ \E d : k = [j EXCEPT !.doomed = d]
        BY <1>1, <3>3 DEF Job
      <3>4. QED
        BY <2>2, <3>1, <3>2, <3>3
    <2>4. QED
      BY <1>6, <2>1, <2>3 DEF Before
  <1>7. CASE ReadReleases(p)
    BY <1>1, <1>7 DEF ReadReleases, Job, Before
  <1>8. CASE CreateRelease(p)
    BY <1>1, <1>8 DEF CreateRelease, Goto, Job, Before
  <1>9. CASE TrimRelease(p)
    <2>1. j.pc = "trim" /\ \E n \in j.revs : k = [j EXCEPT !.revs = @ \ {n}]
      BY <1>1, <1>9 DEF TrimRelease
    <2>2. QED
      BY <1>1, <1>9, <2>1 DEF Job, Before
  <1>10. CASE EndTrim(p)
    BY <1>1, <1>10 DEF EndTrim, Job, Before
  <1>11. CASE CopyBackup(p)
    BY <1>1, <1>11 DEF CopyBackup, Goto, Job, Before
  <1>12. CASE ListClaims(p)
    <2>1. j.pc = "listClaims" /\ \E pc \in {"deleteNamespace", "done"} : k = [j EXCEPT !.pc = pc]
      BY <1>1, <1>12 DEF ListClaims, Goto
    <2>2. QED
      BY <1>1, <1>12, <2>1 DEF Job, Before
  <1>13. CASE DeleteNamespace(p)
    BY <1>1, <1>13 DEF DeleteNamespace, Goto, Job, Before
  <1>14. CASE Return(p) \/ Abort(p)
    BY <1>1, <1>14 DEF Return, Abort
  <1>15. QED
    BY <1>2, <1>3, <1>4, <1>5, <1>6, <1>7, <1>8, <1>9, <1>10, <1>11, <1>12, <1>13, <1>14 DEF Step

-----------------------------------------------------------------------------
(***************************************************************************)
(* Writes and the releases.                                                *)
(***************************************************************************)

LEMMA OtherObjects ==
  ASSUME NEW st \in [Object -> Content], NEW o \in Object, NEW v,
         \A n \in Revision : o # Release(n)
  PROVE  LET st2 == With(st, o, v)
         IN  /\ ReleasesIn(st2) = ReleasesIn(st)
             /\ \A n \in Revision : st2[Release(n)] = st[Release(n)]
  <1>1. \A n \in Revision : With(st, o, v)[Release(n)] = st[Release(n)]
    BY ObjectKinds DEF With
  <1>2. QED
    BY <1>1 DEF ReleasesIn

LEMMA ObjectWriteReleases ==
  ASSUME NEW st \in [Object -> Content], NEW st2, ObjectWrite(st, st2)
  PROVE  /\ ReleasesIn(st2) = ReleasesIn(st)
         /\ \A n \in Revision : st2[Release(n)] = st[Release(n)]
         /\ st2[BackupSecret] = st[BackupSecret]
  <1>1. PICK o \in AppObject : \E v : st2 = With(st, o, v)
    BY DEF ObjectWrite
  <1>2. o \in Object /\ o # BackupSecret /\ \A n \in Revision : o # Release(n)
    BY ObjectKinds
  <1>3. st2[BackupSecret] = st[BackupSecret]
    BY <1>1, <1>2, ObjectKinds DEF With
  <1>4. QED
    BY <1>1, <1>2, <1>3, OtherObjects

LEMMA BackupWriteReleases ==
  ASSUME NEW st \in [Object -> Content]
  PROVE  LET st2 == With(st, BackupSecret, Credential)
         IN  /\ ReleasesIn(st2) = ReleasesIn(st)
             /\ \A n \in Revision : st2[Release(n)] = st[Release(n)]
  <1>1. BackupSecret \in Object /\ \A n \in Revision : BackupSecret # Release(n)
    BY ObjectKinds
  <1>2. QED
    BY <1>1, OtherObjects

LEMMA ReleaseWrite ==
  ASSUME NEW st \in [Object -> Content], NEW n \in Revision, NEW v
  PROVE  LET st2 == With(st, Release(n), v)
         IN  /\ st2[Release(n)] = v
             /\ \A o \in Object : o # Release(n) => st2[o] = st[o]
             /\ \A k \in Revision : k # n => st2[Release(k)] = st[Release(k)]
             /\ v # None => ReleasesIn(st2) = ReleasesIn(st) \cup {n}
             /\ v = None => ReleasesIn(st2) = ReleasesIn(st) \ {n}
  <1> DEFINE st2 == With(st, Release(n), v)
  <1>1. st2[Release(n)] = v /\ \A o \in Object : o # Release(n) => st2[o] = st[o]
    BY ObjectKinds DEF With
  <1>2. \A k \in Revision : k # n => st2[Release(k)] = st[Release(k)]
    BY <1>1, ObjectKinds
  <1> HIDE DEF st2
  <1>3. v # None => ReleasesIn(st2) = ReleasesIn(st) \cup {n}
    BY <1>1, <1>2 DEF ReleasesIn
  <1>4. v = None => ReleasesIn(st2) = ReleasesIn(st) \ {n}
    BY <1>1, <1>2 DEF ReleasesIn
  <1>5. QED
    BY <1>1, <1>2, <1>3, <1>4 DEF st2

LEMMA FiniteRevisions ==
  ASSUME NEW S \in SUBSET Revision
  PROVE  /\ IsFiniteSet(S) /\ Cardinality(S) \in Nat
         /\ \A T \in SUBSET S : Cardinality(T) <= Cardinality(S)
         /\ S \subseteq Nat
  <1>1. IsFiniteSet(Revision)
    BY FS_Interval, NamesAssumption DEF Revision
  <1>2. IsFiniteSet(S)
    BY <1>1, FS_Subset
  <1>3. ASSUME NEW T \in SUBSET S PROVE Cardinality(T) <= Cardinality(S)
    BY <1>2, FS_Subset
  <1>4. Cardinality(S) \in Nat
    BY <1>2, FS_CardinalityType
  <1>5. S \subseteq Nat
    BY DEF Revision
  <1>6. QED
    BY <1>2, <1>3, <1>4, <1>5

\* The number of the next release is above those it follows.
LEMMA NextAbove ==
  ASSUME NEW S \in SUBSET Revision, NEW n \in Revision, IsNext(n, S)
  PROVE  \A i \in S : i < n
  <1>1. S \subseteq Nat /\ n \in Nat
    BY DEF Revision
  <1>2. CASE S = {}
    BY <1>2
  <1>3. CASE \E newest \in S : n = newest + 1 /\ \A k \in S : k <= newest
    BY <1>1, <1>3
  <1>4. QED
    BY <1>2, <1>3 DEF IsNext

\* KeepReleases releases newer than n are recorded.
Surpassed(st, n) == Cardinality({k \in ReleasesIn(st) : k > n}) >= KeepReleases

\* A surpassed release stays surpassed when another surpassed one goes.
LEMMA SurpassedStays ==
  ASSUME NEW st \in [Object -> Content], NEW n \in Revision, NEW m \in Revision,
         Surpassed(st, m),
         NEW st2, \/ ReleasesIn(st) \subseteq ReleasesIn(st2)
                  \/ ReleasesIn(st2) = ReleasesIn(st) \ {n} /\ Surpassed(st, n),
         ReleasesIn(st2) \subseteq Revision
  PROVE  Surpassed(st2, m)
  <1> DEFINE Above(s, i) == {k \in ReleasesIn(s) : k > i}
  <1>0. ReleasesIn(st) \subseteq Revision /\ m \in Nat /\ n \in Nat /\ KeepReleases \in Nat
    BY NamesAssumption DEF ReleasesIn, Revision
  <1>1. Above(st2, m) \in SUBSET Revision /\ Cardinality(Above(st2, m)) \in Nat
    BY FiniteRevisions
  <1>2. CASE ReleasesIn(st) \subseteq ReleasesIn(st2) \/ (n <= m /\ ReleasesIn(st2) = ReleasesIn(st) \ {n})
    <2>1. Above(st, m) \in SUBSET Above(st2, m)
      BY <1>0, <1>2, FiniteRevisions
    <2>2. Cardinality(Above(st, m)) <= Cardinality(Above(st2, m)) /\ Cardinality(Above(st, m)) \in Nat
      BY <1>0, <1>1, <2>1, FiniteRevisions
    <2>3. QED
      BY <1>0, <1>1, <2>2 DEF Surpassed
  <1>3. CASE n > m /\ ReleasesIn(st2) = ReleasesIn(st) \ {n} /\ Surpassed(st, n)
    <2>1. Above(st, n) \in SUBSET Above(st2, m)
      <3>1. \A k \in Nat : k > n => k > m /\ k # n
        BY <1>0, <1>3
      <3>2. ReleasesIn(st) \subseteq Nat
        BY <1>0, FiniteRevisions
      <3>3. QED
        BY <1>3, <3>1, <3>2
    <2>2. Cardinality(Above(st, n)) <= Cardinality(Above(st2, m)) /\ Cardinality(Above(st, n)) \in Nat
      BY <1>0, <1>1, <2>1, FiniteRevisions
    <2>3. QED
      BY <1>0, <1>1, <1>3, <2>2 DEF Surpassed
  <1>4. QED
    BY <1>0, <1>2, <1>3

\* The oldest of at least KeepReleases revisions, below a newer one, is
\* surpassed: by them, or by what has surpassed one of them that is gone.
LEMMA OldestSurpassed ==
  ASSUME NEW st \in [Object -> Content], NEW S \in SUBSET Revision, NEW n \in S, NEW r \in Revision,
         Cardinality(S) >= KeepReleases,
         \A k \in S : n <= k /\ k < r,
         \A k \in S \cup {r} : k \in ReleasesIn(st) \/ Surpassed(st, k)
  PROVE  Surpassed(st, n)
  <1> DEFINE T == (S \ {n}) \cup {r}
             Above(i) == {k \in ReleasesIn(st) : k > i}
  <1>0. /\ ReleasesIn(st) \subseteq Revision /\ Revision \subseteq Nat /\ KeepReleases \in Nat
        /\ r \in Nat /\ n \in Nat
    BY NamesAssumption DEF ReleasesIn, Revision
  <1>1. \A k \in T : k > n /\ k \in Nat
    BY <1>0
  <1>2. Above(n) \in SUBSET Revision /\ Cardinality(Above(n)) \in Nat
    BY <1>0, FiniteRevisions
  <1>3. Cardinality(T) = Cardinality(S) /\ Cardinality(S) \in Nat
    <2>1. IsFiniteSet(S) /\ Cardinality(S) \in Nat
      BY FiniteRevisions
    <2>2. IsFiniteSet(S \ {n}) /\ Cardinality(S \ {n}) = Cardinality(S) - 1
      BY <2>1, FS_RemoveElement
    <2>3. r \notin S \ {n}
      BY <1>0
    <2>4. Cardinality(T) = Cardinality(S \ {n}) + 1
      BY <2>2, <2>3, FS_AddElement
    <2>5. QED
      BY <2>1, <2>2, <2>4
  <1>4. CASE T \subseteq ReleasesIn(st)
    <2>1. T \in SUBSET Above(n)
      BY <1>1, <1>4
    <2>2. Cardinality(T) <= Cardinality(Above(n))
      BY <1>2, <2>1, FiniteRevisions
    <2>3. QED
      BY <1>0, <1>2, <1>3, <2>2 DEF Surpassed
  <1>5. CASE \E k \in T : Surpassed(st, k)
    <2>1. PICK k \in T : Surpassed(st, k)
      BY <1>5
    <2>2. k > n /\ k \in Nat
      BY <1>1
    <2>3. Above(k) \in SUBSET Above(n)
      <3>1. \A i \in Nat : i > k => i > n
        BY <1>0, <2>2
      <3>2. ReleasesIn(st) \subseteq Nat
        BY <1>0
      <3>3. QED
        BY <3>1, <3>2
    <2>4. Cardinality(Above(k)) <= Cardinality(Above(n)) /\ Cardinality(Above(k)) \in Nat
      BY <1>0, <1>2, <2>3, FiniteRevisions
    <2>5. QED
      BY <1>0, <1>2, <2>1, <2>4 DEF Surpassed
  <1>6. QED
    BY <1>4, <1>5

-----------------------------------------------------------------------------
(***************************************************************************)
(* State survives.  Neither machine of two that deploy the same app can    *)
(* trim more than ten newer releases justify, because what a command has   *)
(* read stays true enough: a release it has seen is there, or has been     *)
(* surpassed since.  That is lost when the app is taken down and deployed  *)
(* anew in between, under the same numbers: so either no machine takes     *)
(* apps down, or no app is deployed from two machines.                     *)
(***************************************************************************)

NoDowns     == Commands \cap {"down", "down --volumes"} = {}
Undisturbed == Exclusive \/ NoDowns

\* What a command knows of the releases when it trims them.
Held(j, phase, st) ==
  /\ (j.pc = "createRelease" /\ phase = "active") =>
       \A k \in j.revs : k \in ReleasesIn(st) \/ Surpassed(st, k)
  /\ j.pc = "trim" =>
       /\ phase = "active"
       /\ \E r \in Revision : /\ \A k \in j.revs : k < r
                              /\ \A k \in j.revs \cup {r} : k \in ReleasesIn(st) \/ Surpassed(st, k)

HeldAll  == \A p \in Proc : Held(job[p], ns[job[p].app], store[job[p].app])
BackupOK == \A a \in App : store[a][BackupSecret] \in {None, Credential}

LEMMA TrimSurpassed ==
  ASSUME TypeInv, HeldAll, NEW p \in Proc, NEW a \in App, NEW n \in Revision, TrimsIn(p, a, n)
  PROVE  Surpassed(store[a], n)
  <1> DEFINE j == job[p]
  <1>1. j.pc = "trim" /\ j.app = a /\ j.revs \in SUBSET Revision /\ store[a] \in [Object -> Content]
    BY JobFacts DEF TrimsIn, TrimRelease, Job, TypeInv, TypeOK
  <1>2. PICK r \in Revision : /\ \A k \in j.revs : k < r
                              /\ \A k \in j.revs \cup {r} : k \in ReleasesIn(store[a]) \/ Surpassed(store[a], k)
    BY <1>1 DEF HeldAll, Held
  <1>3. n \in j.revs /\ \A k \in j.revs : n <= k
    BY DEF TrimsIn
  <1>4. Cardinality(j.revs) >= KeepReleases
    BY DEF TrimsIn
  <1>5. QED
    BY <1>1, <1>2, <1>3, <1>4, OldestSurpassed

\* The step that keeps an app's state: claims are never deleted, the backup
\* credential is only written anew, a release is deleted when it is surpassed.
Keeps(a) ==
  /\ Claims(a) \subseteq Claims(a)'
  /\ store[a][BackupSecret] # None => store'[a][BackupSecret] = store[a][BackupSecret]
  /\ \A n \in Releases(a) :
       \/ store'[a][Release(n)] = store[a][Release(n)]
       \/ /\ n \notin Releases(a)'
          /\ Cardinality({k \in Releases(a) : k > n}) >= KeepReleases

LEMMA WritesKeep ==
  ASSUME TypeInv, HeldAll, BackupOK, NEW p \in Proc, Start(p) \/ Step(p), NEW a \in App
  PROVE  Keeps(a)
  <1>1. store[a] \in [Object -> Content] /\ store[a][BackupSecret] \in {None, Credential}
    BY DEF TypeInv, TypeOK, BackupOK
  <1>2. \A n \in Revision : Release(n) \in Object /\ ~IsClaim(Release(n)) /\ Release(n) # BackupSecret
    BY ObjectKinds
  <1>3. CASE store'[a] = store[a]
    BY <1>3 DEF Keeps, Claims, Present, Releases
  <1>4. CASE ObjectWrite(store[a], store'[a])
    <2>1. PICK o \in AppObject, v \in Manifest \cup {None} :
            store'[a] = With(store[a], o, v) /\ (v = None => ~IsClaim(o))
      BY <1>4 DEF ObjectWrite
    <2>2. \A x \in Object : x # o => store'[a][x] = store[a][x]
      BY <1>1, <2>1 DEF With
    <2>3. o \in Object => store'[a][o] = v
      BY <1>1, <2>1 DEF With
    <2>4. Claims(a) \subseteq Claims(a)'
      BY <2>1, <2>2, <2>3, NamesAssumption DEF Claims, Present
    <2>5. QED
      BY <1>1, <1>4, <2>4, ObjectWriteReleases DEF Keeps, Releases
  <1>5. CASE \E n \in Revision : RecordsIn(p, a, n)
    <2>1. PICK n \in Revision : RecordsIn(p, a, n)
      BY <1>5
    <2>2. n \notin ReleasesIn(store[a]) /\ store'[a] = With(store[a], Release(n), job[p].man)
      BY <2>1 DEF RecordsIn
    <2>3. \A o \in Object : o # Release(n) => store'[a][o] = store[a][o]
      BY <1>1, <2>2, ReleaseWrite
    <2>4. Claims(a) \subseteq Claims(a)'
      BY <1>2, <2>3 DEF Claims, Present
    <2>5. \A k \in Releases(a) : store'[a][Release(k)] = store[a][Release(k)]
      BY <1>2, <2>2, <2>3 DEF Releases, ReleasesIn
    <2>6. QED
      BY <1>2, <2>3, <2>4, <2>5, ObjectKinds DEF Keeps
  <1>6. CASE \E n \in Revision : TrimsIn(p, a, n)
    <2>1. PICK n \in Revision : TrimsIn(p, a, n)
      BY <1>6
    <2>2. Surpassed(store[a], n) /\ store'[a] = With(store[a], Release(n), None)
      BY <2>1, TrimSurpassed DEF TrimsIn
    <2>3. /\ \A o \in Object : o # Release(n) => store'[a][o] = store[a][o]
          /\ store'[a][Release(n)] = None
      BY <1>1, <2>2, ReleaseWrite
    <2>4. Claims(a) \subseteq Claims(a)'
      BY <1>2, <2>3 DEF Claims, Present
    <2>5. n \notin Releases(a)' /\ Cardinality({k \in Releases(a) : k > n}) >= KeepReleases
      BY <2>2, <2>3 DEF Releases, ReleasesIn, Surpassed
    <2>6. \A k \in Releases(a) : k = n \/ store'[a][Release(k)] = store[a][Release(k)]
      BY <2>3, ObjectKinds DEF Releases
    <2>7. QED
      BY <1>2, <2>3, <2>4, <2>5, <2>6, ObjectKinds DEF Keeps
  <1>7. CASE store'[a] = With(store[a], BackupSecret, Credential)
    <2>1. \A o \in Object : o # BackupSecret => store'[a][o] = store[a][o]
      BY <1>1, <1>7 DEF With
    <2>2. Claims(a) \subseteq Claims(a)'
      BY <2>1, ObjectKinds DEF Claims, Present
    <2>3. store'[a][BackupSecret] = Credential
      BY <1>1, <1>7, ObjectKinds DEF With
    <2>4. QED
      BY <1>1, <1>2, <2>1, <2>2, <2>3 DEF Keeps, Releases
  <1>8. QED
    BY <1>3, <1>4, <1>5, <1>6, <1>7, MachineWrites

LEMMA NextKeeps ==
  ASSUME TypeInv, HeldAll, BackupOK, [Next]_vars, NEW a \in App, ns'[a] # "absent"
  PROVE  Keeps(a)
  <1>1. CASE UNCHANGED vars
    BY <1>1 DEF vars, Keeps, Claims, Present, Releases
  <1>2. CASE Cluster
    <2>0. store[a] \in [Object -> Content]
      BY DEF TypeInv, TypeOK
    <2>1. CASE store'[a] = store[a]
      BY <2>1 DEF Keeps, Claims, Present, Releases
    <2>2. CASE ObjectWrite(store[a], store'[a])
      <3>1. PICK o \in AppObject, v \in Manifest \cup {None} :
              store'[a] = With(store[a], o, v) /\ (v = None => ~IsClaim(o))
        BY <2>2 DEF ObjectWrite
      <3>2. /\ \A x \in Object : x # o => store'[a][x] = store[a][x]
            /\ o \in Object => store'[a][o] = v
        BY <2>0, <3>1 DEF With
      <3>3. Claims(a) \subseteq Claims(a)'
        BY <3>1, <3>2, NamesAssumption DEF Claims, Present
      <3>4. QED
        BY <2>0, <2>2, <3>3, ObjectWriteReleases DEF Keeps, Releases
    <2>3. QED
      BY <1>2, <2>1, <2>2, ClusterWrites
  <1>3. CASE \E p \in Proc : Start(p) \/ Step(p)
    BY <1>3, WritesKeep
  <1>4. QED
    BY <1>1, <1>2, <1>3 DEF Next

LEMMA NextBackupOK == TypeInv /\ BackupOK /\ [Next]_vars => BackupOK'
  <1> SUFFICES ASSUME TypeInv, BackupOK, [Next]_vars, NEW a \in App
               PROVE  store'[a][BackupSecret] \in {None, Credential}
    BY DEF BackupOK
  <1>1. store[a] \in [Object -> Content] /\ store[a][BackupSecret] \in {None, Credential}
    BY DEF TypeInv, TypeOK, BackupOK
  <1>2. BackupSecret \in Object /\ \A n \in Revision : Release(n) # BackupSecret
    BY ObjectKinds
  <1>3. CASE UNCHANGED vars
    BY <1>1, <1>3 DEF vars
  <1>4. CASE Cluster
    BY <1>1, <1>2, <1>4, ClusterWrites, ObjectWriteReleases DEF Empty
  <1>5. ASSUME NEW p \in Proc, Start(p) \/ Step(p)
        PROVE  store'[a][BackupSecret] \in {None, Credential}
    <2>1. ASSUME NEW n \in Revision, RecordsIn(p, a, n) \/ TrimsIn(p, a, n)
          PROVE  store'[a][BackupSecret] = store[a][BackupSecret]
      BY <1>1, <1>2, <2>1, ReleaseWrite DEF RecordsIn, TrimsIn
    <2>2. CASE store'[a] = With(store[a], BackupSecret, Credential)
      BY <1>1, <1>2, <2>2 DEF With
    <2>3. QED
      BY <1>1, <1>5, <2>1, <2>2, MachineWrites, ObjectWriteReleases
  <1>6. QED
    BY <1>3, <1>4, <1>5 DEF Next

\* The releases after a step of the releases before, if nothing is finalized.
Moved(st, st2) ==
  \/ ReleasesIn(st) \subseteq ReleasesIn(st2)
  \/ \E n \in Revision : ReleasesIn(st2) = ReleasesIn(st) \ {n} /\ Surpassed(st, n)

LEMMA KnownStays ==
  ASSUME NEW st \in [Object -> Content], NEW st2, Moved(st, st2), NEW k \in Revision,
         k \in ReleasesIn(st) \/ Surpassed(st, k)
  PROVE  k \in ReleasesIn(st2) \/ Surpassed(st2, k)
  <1>1. ReleasesIn(st2) \subseteq Revision
    BY DEF ReleasesIn
  <1>2. CASE k \in ReleasesIn(st2)
    BY <1>2
  <1>3. CASE ReleasesIn(st) \subseteq ReleasesIn(st2) /\ Surpassed(st, k)
    BY <1>1, <1>3, SurpassedStays
  <1>4. CASE \E n \in Revision : ReleasesIn(st2) = ReleasesIn(st) \ {n} /\ Surpassed(st, n)
    <2>1. PICK n \in Revision : ReleasesIn(st2) = ReleasesIn(st) \ {n} /\ Surpassed(st, n)
      BY <1>4
    <2>2. Surpassed(st, k) => Surpassed(st2, k)
      BY <1>1, <2>1, SurpassedStays
    <2>3. QED
      BY <2>1, <2>2
  <1>5. QED
    BY <1>2, <1>3, <1>4 DEF Moved

LEMMA MachineMoves ==
  ASSUME TypeInv, HeldAll, NEW p \in Proc, Start(p) \/ Step(p), NEW a \in App
  PROVE  Moved(store[a], store'[a])
  <1>1. store[a] \in [Object -> Content]
    BY DEF TypeInv, TypeOK
  <1>2. ASSUME NEW n \in Revision, RecordsIn(p, a, n) PROVE Moved(store[a], store'[a])
    <2>1. job[p].man # None
      BY <1>2, JobFacts, NamesAssumption DEF RecordsIn, CreateRelease, JobOK, After
    <2>2. ReleasesIn(store'[a]) = ReleasesIn(store[a]) \cup {n}
      BY <1>1, <1>2, <2>1, ReleaseWrite DEF RecordsIn
    <2>3. QED
      BY <2>2 DEF Moved
  <1>3. ASSUME NEW n \in Revision, TrimsIn(p, a, n) PROVE Moved(store[a], store'[a])
    <2>1. ReleasesIn(store'[a]) = ReleasesIn(store[a]) \ {n}
      BY <1>1, <1>3, ReleaseWrite DEF TrimsIn
    <2>2. QED
      BY <1>3, <2>1, TrimSurpassed DEF Moved
  <1>4. CASE ObjectWrite(store[a], store'[a])
    BY <1>1, <1>4, ObjectWriteReleases DEF Moved
  <1>5. CASE store'[a] = With(store[a], BackupSecret, Credential)
    BY <1>1, <1>5, BackupWriteReleases DEF Moved
  <1>6. QED
    BY <1>2, <1>3, <1>4, <1>5, MachineWrites DEF Moved

\* A waiting command still holds what it knew, if the phase of the namespace
\* has not changed under it.
LEMMA OtherHeld ==
  ASSUME TypeInv, HeldAll, [Next]_vars, NEW p \in Proc, job'[p] = job[p],
         job[p].pc \in {"createRelease", "trim"},
         ns[job[p].app] = "active" <=> ns'[job[p].app] = "active"
  PROVE  Held(job[p], ns'[job[p].app], store'[job[p].app])
  <1> DEFINE j == job[p]
             a == job[p].app
  <1>1. j.revs \in SUBSET Revision /\ a \in App
    BY JobFacts DEF Job
  <1>2. store[a] \in [Object -> Content]
    BY <1>1 DEF TypeInv, TypeOK
  <1>3. ns[a] # "active" \/ Moved(store[a], store'[a])
    <2>1. CASE UNCHANGED vars
      BY <2>1 DEF vars, Moved
    <2>2. CASE Cluster
      <3>1. CASE store'[a] = store[a]
        BY <3>1 DEF Moved
      <3>2. CASE ObjectWrite(store[a], store'[a])
        BY <1>2, <3>2, ObjectWriteReleases DEF Moved
      <3>3. QED
        BY <1>1, <2>2, <3>1, <3>2, ClusterWrites
    <2>3. CASE \E q \in Proc : Start(q) \/ Step(q)
      BY <1>1, <2>3, MachineMoves
    <2>4. QED
      BY <2>1, <2>2, <2>3 DEF Next
  <1>4. Held(j, ns[a], store[a])
    BY DEF HeldAll
  <1>5. ASSUME Moved(store[a], store'[a]), NEW k \in Revision,
               k \in ReleasesIn(store[a]) \/ Surpassed(store[a], k)
        PROVE  k \in ReleasesIn(store'[a]) \/ Surpassed(store'[a], k)
    BY <1>2, <1>5, KnownStays
  <1>6. CASE j.pc = "createRelease"
    BY <1>1, <1>3, <1>4, <1>5, <1>6 DEF Held
  <1>7. CASE j.pc = "trim"
    <2>1. ns[a] = "active" /\ Moved(store[a], store'[a])
      BY <1>3, <1>4, <1>7 DEF Held
    <2>2. PICK r \in Revision : /\ \A k \in j.revs : k < r
                                /\ \A k \in j.revs \cup {r} : k \in ReleasesIn(store[a]) \/ Surpassed(store[a], k)
      BY <1>4, <1>7 DEF Held
    <2>3. \A k \in j.revs \cup {r} : k \in ReleasesIn(store'[a]) \/ Surpassed(store'[a], k)
      BY <1>1, <1>5, <2>1, <2>2
    <2>4. QED
      BY <1>7, <2>1, <2>2, <2>3 DEF Held
  <1>8. QED
    BY <1>6, <1>7

\* And one that reads the releases, records its own or trims them knows what
\* it has to.
LEMMA OwnHeld ==
  ASSUME TypeInv, HeldAll, NEW p \in Proc, Start(p) \/ Step(p)
  PROVE  Held(job'[p], ns'[job'[p].app], store'[job'[p].app])
  <1> DEFINE j == job[p]
             k == job'[p]
  <1>1. j \in Job /\ job \in [Proc -> Job] /\ (j.pc # "idle" => j.app \in App)
    BY JobFacts DEF TypeInv, TypeOK
  <1>2. j.pc # "idle" => store[j.app] \in [Object -> Content]
    BY <1>1 DEF TypeInv, TypeOK
  <1>3. CASE ReadReleases(p)
    <2>1. k.pc = "createRelease" /\ k.revs = ReleasesIn(store[j.app]) /\ k.app = j.app /\ UNCHANGED store
      BY <1>1, <1>3 DEF ReadReleases, Releases, ReleasesIn, Job
    <2> HIDE DEF k
    <2>2. QED
      BY <2>1 DEF Held, k
  <1>4. CASE CreateRelease(p)
    <2>1. PICK n \in Revision :
            /\ IsNext(n, j.revs) /\ ns[j.app] = "active"
            /\ store' = [store EXCEPT ![j.app][Release(n)] = j.man]
      BY <1>4 DEF CreateRelease
    <2>2. /\ j.pc = "createRelease" /\ k.pc = "trim" /\ k.app = j.app /\ k.revs = j.revs /\ UNCHANGED ns
          /\ j.app \in App
      BY <1>1, <1>4 DEF CreateRelease, Goto, Job
    <2>3. store'[j.app] = With(store[j.app], Release(n), j.man)
      BY <2>1, <2>2 DEF With, TypeInv, TypeOK
    <2>4. j.man # None
      BY <2>2, JobFacts, NamesAssumption DEF JobOK, After
    <2>5. ReleasesIn(store'[j.app]) = ReleasesIn(store[j.app]) \cup {n}
      BY <1>2, <2>2, <2>3, <2>4, ReleaseWrite
    <2>6. \A i \in j.revs : i \in Revision /\ i < n
      <3>1. j.revs \subseteq Revision
        BY <1>1 DEF Job
      <3>2. QED
        BY <2>1, <3>1, NextAbove
    <2>7. \A i \in j.revs : i \in ReleasesIn(store[j.app]) \/ Surpassed(store[j.app], i)
      BY <2>1, <2>2 DEF HeldAll, Held
    <2>8. \A i \in j.revs : i \in ReleasesIn(store'[j.app]) \/ Surpassed(store'[j.app], i)
      <3>1. Moved(store[j.app], store'[j.app])
        BY <2>5 DEF Moved
      <3>2. QED
        BY <1>2, <2>2, <2>6, <2>7, <3>1, KnownStays
    <2> HIDE DEF k
    <2>9. Held(k, ns'[k.app], store'[k.app])
      BY <2>1, <2>2, <2>5, <2>6, <2>8 DEF Held
    <2>10. QED
      BY <2>9 DEF k
  <1>5. CASE TrimRelease(p)
    <2>1. PICK n \in j.revs : job' = [job EXCEPT ![p].revs = @ \ {n}]
      BY <1>5 DEF TrimRelease
    <2>2. /\ j.pc = "trim" /\ k.pc = "trim" /\ k.app = j.app /\ k.revs = j.revs \ {n} /\ UNCHANGED ns
          /\ j.app \in App /\ j.revs \in SUBSET Revision
      BY <1>1, <1>5, <2>1 DEF TrimRelease, Job
    <2>3. ns[j.app] = "active"
      BY <2>2 DEF HeldAll, Held
    <2>4. PICK r \in Revision :
            /\ \A i \in j.revs : i < r
            /\ \A i \in j.revs \cup {r} : i \in ReleasesIn(store[j.app]) \/ Surpassed(store[j.app], i)
      BY <2>2 DEF HeldAll, Held
    <2>5. Moved(store[j.app], store'[j.app])
      BY <1>5, <2>2, MachineMoves
    <2>6. \A i \in j.revs \cup {r} : i \in ReleasesIn(store'[j.app]) \/ Surpassed(store'[j.app], i)
      BY <1>2, <2>2, <2>4, <2>5, KnownStays
    <2> HIDE DEF k
    <2>7. Held(k, ns'[k.app], store'[k.app])
      BY <2>2, <2>3, <2>4, <2>6 DEF Held
    <2>8. QED
      BY <2>7 DEF k
  <1>6. CASE k.pc \notin {"createRelease", "trim"}
    BY <1>6 DEF Held
  <1>7. k.pc \in {"createRelease", "trim"} => ReadReleases(p) \/ CreateRelease(p) \/ TrimRelease(p)
    BY StartJob, StepJob, IdleOnce
  <1>8. QED
    BY <1>3, <1>4, <1>5, <1>6, <1>7

\* Where no machine takes apps down, a namespace that is there stays.
Settled == {"apply", "pruneList", "pruneDelete", "done"} \cup After

LEMMA IdleNothing == Idle.pc = "idle" /\ Idle.cmd = "none" /\ "idle" \notin Settled
  BY DEF Idle, Settled, After

Steady ==
  /\ \A a \in App : ns[a] # "terminating"
  /\ \A p \in Proc : /\ job[p].cmd \notin {"down", "down --volumes"}
                     /\ job[p].pc \in Settled => ns[job[p].app] = "active"

LEMMA NextSteady == NoDowns /\ TypeInv /\ Steady /\ [Next]_vars => Steady'
  <1> SUFFICES ASSUME NoDowns, TypeInv, Steady, [Next]_vars PROVE Steady'
    OBVIOUS
  <1>1. ns \in [App -> {"absent", "active", "terminating"}]
    BY DEF TypeInv, TypeOK
  <1>2. ASSUME NEW a \in App
        PROVE  ns'[a] = ns[a] \/ (ns'[a] = "active" /\ ns[a] = "absent")
    <2>1. CASE UNCHANGED vars
      BY <2>1 DEF vars
    <2>2. CASE Cluster
      BY <2>2, ClusterWrites DEF Steady
    <2>3. ASSUME NEW p \in Proc, Start(p) \/ Step(p), ns'[a] # ns[a]
          PROVE  ns'[a] = "active" /\ ns[a] = "absent"
      <3>1. job[p].pc # "deleteNamespace"
        BY JobFacts DEF Steady, JobOK
      <3>2. QED
        BY <2>3, <3>1, MachinePhases
    <2>4. QED
      BY <2>1, <2>2, <2>3 DEF Next
  <1>3. ASSUME NEW p \in Proc, job'[p] = job[p]
        PROVE  /\ job'[p].cmd \notin {"down", "down --volumes"}
               /\ job'[p].pc \in Settled => ns'[job'[p].app] = "active"
    <2>1. job[p].pc \in Settled => job[p].app \in App
      BY JobFacts DEF Settled, After
    <2>2. QED
      BY <1>2, <1>3, <2>1 DEF Steady
  <1>4. ASSUME NEW p \in Proc, Start(p)
        PROVE  /\ job'[p].cmd \notin {"down", "down --volumes"}
               /\ job'[p].pc \in Settled => ns'[job'[p].app] = "active"
    <2>1. job'[p].cmd \notin {"down", "down --volumes"}
      BY <1>4, StartJob DEF NoDowns
    <2>2. job'[p].pc \notin Settled
      BY <1>4, <2>1, StartJob DEF Settled, After
    <2>3. QED
      BY <2>1, <2>2
  <1>5. ASSUME NEW p \in Proc, Step(p)
        PROVE  /\ job'[p].cmd \notin {"down", "down --volumes"}
               /\ job'[p].pc \in Settled => ns'[job'[p].app] = "active"
    <2>1. job'[p].cmd \notin {"down", "down --volumes"}
      BY <1>5, StepJob, IdleNothing DEF Steady
    <2>2. ASSUME job'[p].pc \in Settled PROVE ns'[job'[p].app] = "active"
      <3>1. /\ job'[p].app = job[p].app /\ job[p].app \in App
            /\ \/ ApplyNamespace(p)
               \/ job[p].pc \in Settled \/ ListClaims(p) \/ DeleteNamespace(p)
        <4>1. Idle.pc \notin Settled
          BY DEF Idle, Settled, After
        <4>2. \/ ApplyNamespace(p) \/ ApplyObject(p) \/ PruneList(p) \/ PruneDelete(p)
              \/ ReadReleases(p) \/ CreateRelease(p) \/ TrimRelease(p) \/ EndTrim(p)
              \/ CopyBackup(p) \/ ListClaims(p) \/ DeleteNamespace(p)
          BY <1>5, <2>2, <4>1, StepJob DEF Settled, After
        <4>3. QED
          BY <1>5, <2>2, <4>1, <4>2, StepJob, JobFacts
          DEF ApplyObject, PruneList, PruneDelete, ReadReleases, CreateRelease, TrimRelease,
              EndTrim, CopyBackup, Settled, After
      <3>2. ~ListClaims(p) /\ ~DeleteNamespace(p)
        BY JobFacts DEF Steady, JobOK, ListClaims, DeleteNamespace
      <3>3. CASE ApplyNamespace(p)
        BY <1>1, <3>1, <3>3 DEF ApplyNamespace, Steady
      <3>4. CASE job[p].pc \in Settled
        BY <1>2, <3>1, <3>4 DEF Steady
      <3>5. QED
        BY <3>1, <3>2, <3>3, <3>4
    <2>3. QED
      BY <2>1, <2>2
  <1>6. \A a \in App : ns'[a] # "terminating"
    BY <1>2 DEF Steady
  <1>7. \A p \in Proc : /\ job'[p].cmd \notin {"down", "down --volumes"}
                        /\ job'[p].pc \in Settled => ns'[job'[p].app] = "active"
    BY <1>3, <1>4, <1>5, OwnJob
  <1>8. QED
    BY <1>6, <1>7 DEF Steady

\* The inductive invariant for machines that never take an app down.
SInv == TypeInv /\ BackupOK /\ Steady /\ HeldAll

LEMMA InitSInv == Init => SInv
  <1> SUFFICES ASSUME Init PROVE SInv
    OBVIOUS
  <1>1. TypeInv
    BY InitTyped
  <1>2. \A a \in App : ns[a] = "absent" /\ store[a] = Empty
    BY DEF Init
  <1>3. \A p \in Proc : job[p] = Idle
    BY DEF Init
  <1>4. BackupOK
    BY <1>2, ObjectKinds DEF BackupOK, Empty
  <1>5. Steady
    BY <1>2, <1>3, IdleNothing DEF Steady
  <1>6. HeldAll
    BY <1>3, IdleNothing DEF HeldAll, Held
  <1>7. QED
    BY <1>1, <1>4, <1>5, <1>6 DEF SInv

LEMMA NextSInv == NoDowns /\ SInv /\ [Next]_vars => SInv'
  <1> SUFFICES ASSUME NoDowns, SInv, [Next]_vars PROVE SInv'
    OBVIOUS
  <1>1. TypeInv /\ TypeInv' /\ BackupOK' /\ Steady /\ Steady' /\ HeldAll
    BY NextTyped, NextBackupOK, NextSteady DEF SInv
  <1>2. ASSUME NEW p \in Proc PROVE Held(job'[p], ns'[job'[p].app], store'[job'[p].app])
    <2>1. CASE Start(p) \/ Step(p)
      BY <1>1, <2>1, OwnHeld
    <2>2. CASE ~(Start(p) \/ Step(p)) /\ job[p].pc \in {"createRelease", "trim"}
      <3>1. job'[p] = job[p]
        BY <1>1, <2>2, OwnJob
      <3>2. ns[job[p].app] = "active" /\ ns'[job'[p].app] = "active"
        BY <1>1, <2>2, <3>1 DEF Steady, Settled, After
      <3>3. QED
        BY <1>1, <2>2, <3>1, <3>2, OtherHeld
    <2>3. CASE ~(Start(p) \/ Step(p)) /\ job[p].pc \notin {"createRelease", "trim"}
      BY <1>1, <2>3, OwnJob DEF Held
    <2>4. QED
      BY <2>1, <2>2, <2>3
  <1>3. QED
    BY <1>1, <1>2 DEF SInv, HeldAll

-----------------------------------------------------------------------------
(***************************************************************************)
(* The history is bounded, where no app is deployed from two machines.     *)
(* What a command trims is then all there is but for the release it has    *)
(* just recorded.                                                          *)
(***************************************************************************)

Trimmed(j, st) ==
  /\ j.pc = "trim" =>
       \E r \in Revision : ReleasesIn(st) = j.revs \cup {r} /\ \A k \in j.revs : k < r
  /\ (j.pc \in {"copyBackup", "done"} /\ Deploys(j)) =>
       Cardinality(ReleasesIn(st)) <= KeepReleases

\* The inductive invariant, on top of that of the convergence theorems.
HInv ==
  /\ IInv /\ BackupOK
  /\ \A p \in Proc : Trimmed(job[p], store[job[p].app])

LEMMA TrimFacts ==
  ASSUME HInv, NEW p \in Proc, job[p].pc \in {"trim", "copyBackup", "done"}, Deploys(job[p])
  PROVE  job[p].app \in App /\ ns[job[p].app] = "active" /\ store[job[p].app] \in [Object -> Content]
  <1>1. job[p].app \in App
    BY JobFacts DEF HInv, IInv
  <1>2. Recorded(job[p], ns[job[p].app], store[job[p].app])
    BY DEF HInv, IInv, Progress
  <1>3. QED
    BY <1>1, <1>2 DEF Recorded, HInv, IInv, TypeInv, TypeOK

\* A command's own steps.
LEMMA OwnTrimmed ==
  ASSUME HInv, NEW p \in Proc, Start(p) \/ Step(p)
  PROVE  Trimmed(job'[p], store'[job'[p].app])
  <1> DEFINE j == job[p]
             a == job[p].app
             k == job'[p]
  <1>1. /\ j \in Job /\ job \in [Proc -> Job] /\ JobOK(p, j) /\ (j.pc # "idle" => a \in App)
        /\ TypeInv /\ Trimmed(j, store[a])
    BY JobFacts DEF HInv, IInv, TypeInv, TypeOK
  <1>2. a \in App => store[a] \in [Object -> Content]
    BY <1>1 DEF TypeInv, TypeOK
  <1>3. CASE CreateRelease(p)
    <2>1. PICK n \in Revision :
            /\ IsNext(n, j.revs) /\ ns[a] = "active"
            /\ store' = [store EXCEPT ![a][Release(n)] = j.man]
      BY <1>3 DEF CreateRelease
    <2>2. j.pc = "createRelease" /\ k.pc = "trim" /\ k.app = a /\ k.revs = j.revs /\ a \in App
      BY <1>1, <1>3 DEF CreateRelease, Goto, Job
    <2>3. store'[a] = With(store[a], Release(n), j.man) /\ j.man # None
      BY <1>1, <2>1, <2>2, NamesAssumption DEF With, TypeInv, TypeOK, JobOK, After
    <2>4. j.revs = ReleasesIn(store[a])
      BY <2>1, <2>2 DEF HInv, IInv, Progress, Recorded
    <2>5. ReleasesIn(store'[a]) = j.revs \cup {n}
      BY <1>2, <2>2, <2>3, <2>4, ReleaseWrite
    <2>6. \A i \in j.revs : i < n
      <3>1. j.revs \in SUBSET Revision
        BY <1>1 DEF Job
      <3>2. QED
        BY <2>1, <3>1, NextAbove
    <2> HIDE DEF k
    <2>7. Trimmed(k, store'[k.app])
      BY <2>2, <2>5, <2>6 DEF Trimmed
    <2>8. QED
      BY <2>7 DEF k
  <1>4. CASE TrimRelease(p)
    <2>1. PICK n \in j.revs : /\ store' = [store EXCEPT ![a][Release(n)] = None]
                              /\ job' = [job EXCEPT ![p].revs = @ \ {n}]
      BY <1>4 DEF TrimRelease
    <2>2. /\ j.pc = "trim" /\ k.pc = "trim" /\ k.app = a /\ k.revs = j.revs \ {n} /\ a \in App
          /\ n \in Revision
      BY <1>1, <1>4, <2>1 DEF TrimRelease, Job
    <2>3. store'[a] = With(store[a], Release(n), None)
      BY <1>1, <2>1, <2>2 DEF With, TypeInv, TypeOK
    <2>4. ReleasesIn(store'[a]) = ReleasesIn(store[a]) \ {n}
      BY <1>2, <2>2, <2>3, ReleaseWrite
    <2>5. PICK r \in Revision : ReleasesIn(store[a]) = j.revs \cup {r} /\ \A i \in j.revs : i < r
      BY <1>1, <2>2 DEF Trimmed
    <2>6. n # r
      BY <2>1, <2>2, <2>5 DEF Revision
    <2>7. ReleasesIn(store'[a]) = k.revs \cup {r} /\ \A i \in k.revs : i < r
      BY <2>2, <2>4, <2>5, <2>6
    <2> HIDE DEF k
    <2>8. Trimmed(k, store'[k.app])
      BY <2>2, <2>7 DEF Trimmed
    <2>9. QED
      BY <2>8 DEF k
  <1>5. CASE EndTrim(p)
    <2>1. /\ j.pc = "trim" /\ Cardinality(j.revs) < KeepReleases /\ UNCHANGED store
          /\ k.pc \in {"copyBackup", "done"} /\ k.app = a
      BY <1>1, <1>5 DEF EndTrim, Job
    <2>2. PICK r \in Revision : ReleasesIn(store[a]) = j.revs \cup {r}
      BY <1>1, <2>1 DEF Trimmed
    <2>r. j.revs \in SUBSET Revision
      BY <1>1 DEF Job
    <2>3. IsFiniteSet(j.revs) /\ Cardinality(j.revs) \in Nat
      BY <2>r, FiniteRevisions
    <2>4. Cardinality(j.revs \cup {r}) <= Cardinality(j.revs) + 1 /\ Cardinality(j.revs \cup {r}) \in Nat
      <3> DEFINE S == j.revs
      <3>1. IsFiniteSet(S) /\ Cardinality(S) \in Nat
        BY <2>3
      <3> HIDE DEF S
      <3>2. Cardinality(S \cup {r}) = IF r \in S THEN Cardinality(S) ELSE Cardinality(S) + 1
        BY <3>1, FS_AddElement
      <3>3. Cardinality(S \cup {r}) <= Cardinality(S) + 1 /\ Cardinality(S \cup {r}) \in Nat
        BY <3>1, <3>2
      <3>4. QED
        BY <3>3 DEF S
    <2>5. Cardinality(ReleasesIn(store'[a])) <= KeepReleases
      BY <2>1, <2>2, <2>3, <2>4, NamesAssumption
    <2> HIDE DEF k
    <2>6. Trimmed(k, store'[k.app])
      BY <2>1, <2>5 DEF Trimmed
    <2>7. QED
      BY <2>6 DEF k
  <1>6. CASE CopyBackup(p)
    <2>1. /\ j.pc = "copyBackup" /\ Deploys(j) /\ k.pc = "done" /\ k.app = a /\ a \in App
          /\ store' = [store EXCEPT ![a][BackupSecret] = Credential]
      BY <1>1, <1>6 DEF CopyBackup, Goto, Job, JobOK, After
    <2>2. store'[a] = With(store[a], BackupSecret, Credential)
      BY <1>1, <2>1 DEF With, TypeInv, TypeOK
    <2>3. ReleasesIn(store'[a]) = ReleasesIn(store[a])
      BY <1>2, <2>1, <2>2, BackupWriteReleases
    <2>4. Cardinality(ReleasesIn(store'[a])) <= KeepReleases
      BY <1>1, <2>1, <2>3 DEF Trimmed
    <2> HIDE DEF k
    <2>5. Trimmed(k, store'[k.app])
      BY <2>1, <2>4 DEF Trimmed
    <2>6. QED
      BY <2>5 DEF k
  <1>7. CASE ListClaims(p) \/ DeleteNamespace(p)
    <2>1. j.pc \in {"listClaims", "deleteNamespace"}
      BY <1>7 DEF ListClaims, DeleteNamespace
    <2>2. ~Deploys(j)
      BY <1>1, <2>1 DEF JobOK, Deploys
    <2>3. ~Deploys(k) /\ k.pc # "trim"
      BY <1>1, <1>7, <2>1, <2>2, StepJob, IdleNothing DEF Deploys, Step, CreateRelease, TrimRelease
    <2>4. QED
      BY <2>3 DEF Trimmed
  <1>8. CASE k.pc \notin {"trim", "copyBackup", "done"}
    BY <1>8 DEF Trimmed
  <1>9. k.pc \in {"trim", "copyBackup", "done"} =>
          CreateRelease(p) \/ TrimRelease(p) \/ EndTrim(p) \/ CopyBackup(p) \/ ListClaims(p) \/ DeleteNamespace(p)
    BY <1>1, StartJob, StepJob, IdleNothing
  <1>10. QED
    BY <1>3, <1>4, <1>5, <1>6, <1>7, <1>8, <1>9

LEMMA NextHInv == Exclusive /\ HInv /\ [Next]_vars => HInv'
  <1> SUFFICES ASSUME Exclusive, HInv, [Next]_vars PROVE HInv'
    OBVIOUS
  <1>1. IInv /\ IInv' /\ BackupOK' /\ TypeInv
    BY NextIInv, NextBackupOK DEF HInv, IInv
  <1>2. ASSUME NEW p \in Proc PROVE Trimmed(job'[p], store'[job'[p].app])
    <2> DEFINE j == job[p]
               a == job[p].app
    <2>1. CASE Start(p) \/ Step(p)
      BY <2>1, OwnTrimmed
    <2>2. CASE ~(Start(p) \/ Step(p)) /\ j.pc \in {"trim", "copyBackup", "done"} /\ Deploys(j)
      <3>1. job'[p] = j /\ Trimmed(j, store[a])
        BY <1>1, <2>2, OwnJob DEF HInv
      <3>2. a \in App /\ a \in WorksOn[p] /\ ns[a] = "active" /\ store[a] \in [Object -> Content]
        BY <1>1, <2>2, TrimFacts, JobFacts DEF JobOK
      <3>3. ReleasesIn(store'[a]) = ReleasesIn(store[a])
        <4>1. CASE UNCHANGED vars
          BY <4>1 DEF vars
        <4>2. CASE Cluster
          BY <1>1, <3>2, <4>2, ClusterWrites, ObjectWriteReleases
        <4>3. ASSUME NEW q \in Proc \ {p}, Start(q) \/ Step(q)
              PROVE  ReleasesIn(store'[a]) = ReleasesIn(store[a])
          <5>1. a \in App \ WorksOn[q]
            BY <3>2 DEF Exclusive
          <5>2. QED
            BY <1>1, <4>3, <5>1, Elsewhere
        <4>4. QED
          BY <2>2, <4>1, <4>2, <4>3 DEF Next
      <3>4. QED
        BY <3>1, <3>3 DEF Trimmed
    <2>3. CASE ~(Start(p) \/ Step(p)) /\ ~(j.pc \in {"trim", "copyBackup", "done"} /\ Deploys(j))
      <3>1. job'[p] = j
        BY <1>1, <2>3, OwnJob
      <3>2. j.pc = "trim" => Deploys(j)
        BY <1>1, JobFacts DEF JobOK, After
      <3>3. QED
        BY <2>3, <3>1, <3>2 DEF Trimmed
    <2>4. QED
      BY <2>1, <2>2, <2>3
  <1>3. QED
    BY <1>1, <1>2 DEF HInv

LEMMA InitHInv == Init => HInv
  <1> SUFFICES ASSUME Init PROVE HInv
    OBVIOUS
  <1>1. IInv /\ BackupOK
    BY InitIInv, InitSInv DEF SInv
  <1>2. \A p \in Proc : job[p].pc = "idle"
    BY IdleNothing DEF Init
  <1>3. QED
    BY <1>1, <1>2 DEF HInv, Trimmed

LEMMA HInvHeld == HInv => HeldAll
  <1> SUFFICES ASSUME HInv, NEW p \in Proc PROVE Held(job[p], ns[job[p].app], store[job[p].app])
    BY DEF HeldAll
  <1>1. job[p].pc = "trim" => Deploys(job[p])
    BY JobFacts DEF HInv, IInv, JobOK, After
  <1>2. job[p].pc = "trim" => ns[job[p].app] = "active"
    BY <1>1, TrimFacts
  <1>3. job[p].pc = "trim" =>
          \E r \in Revision : ReleasesIn(store[job[p].app]) = job[p].revs \cup {r} /\ \A k \in job[p].revs : k < r
    BY DEF HInv, Trimmed
  <1>4. (job[p].pc = "createRelease" /\ ns[job[p].app] = "active") =>
          job[p].revs = ReleasesIn(store[job[p].app])
    BY DEF HInv, IInv, Progress, Recorded
  <1>5. QED
    BY <1>2, <1>3, <1>4 DEF Held

\* An app's claims, its backup credential and each of its releases, until
\* KeepReleases newer ones are recorded, survive everything but the end of its
\* namespace: whatever any number of machines deploy at once, if none takes an
\* app down, and also with machines that do if no app is deployed from two.
THEOREM StateKept == ASSUME Undisturbed PROVE Spec => StateSurvives
  <1>1. TypeInv /\ BackupOK /\ HeldAll /\ [Next]_vars =>
          [\A a \in App : ns'[a] # "absent" => Keeps(a)]_vars
    BY NextKeeps
  <1>2. CASE NoDowns
    <2>1. SInv => TypeInv /\ BackupOK /\ HeldAll
      BY DEF SInv
    <2>2. NoDowns
      BY <1>2
    <2>3. QED
      BY <1>1, <2>1, <2>2, InitSInv, NextSInv, PTL DEF Spec, StateSurvives, Keeps
  <1>3. CASE Exclusive
    <2>1. HInv => TypeInv /\ BackupOK /\ HeldAll
      BY HInvHeld DEF HInv, IInv
    <2>2. Exclusive
      BY <1>3
    <2>3. QED
      BY <1>1, <2>1, <2>2, InitHInv, NextHInv, PTL DEF Spec, StateSurvives, Keeps
  <1>4. QED
    BY <1>2, <1>3 DEF Undisturbed

\* A command that reports success has left at most KeepReleases releases,
\* however many earlier commands ended before they had trimmed theirs.
THEOREM BoundedHistory == ASSUME Exclusive PROVE Spec => []HistoryBounded
  <1>1. HInv => HistoryBounded
    <2> SUFFICES ASSUME HInv, NEW p \in Proc, job[p].pc = "done", Deploys(job[p])
                 PROVE  Cardinality(Releases(job[p].app)) <= KeepReleases
      BY DEF HistoryBounded, Deploys
    <2>1. Cardinality(ReleasesIn(store[job[p].app])) <= KeepReleases
      BY DEF HInv, Trimmed
    <2>2. QED
      BY <2>1 DEF Releases, ReleasesIn
  <1>2. QED
    BY <1>1, InitHInv, NextHInv, PTL DEF Spec

-----------------------------------------------------------------------------
(***************************************************************************)
(* Deploy implements ReleaseHistory.  An app's objects and the phase of    *)
(* its namespace decide what it runs; a step changes those of one app.     *)
(***************************************************************************)

RunsIn(phase, st, m) ==
  /\ phase = "active"
  /\ \A o \in ObjectsOf(m) : st[o] = m
  /\ \A o \in AppObject : (st[o] # None /\ o.gvr \in Range(PrunableGVRs)) => o \in ObjectsOf(m)

\* What runs is r, None if it is nothing or something in between.
IsRunning(phase, st, r) ==
  \/ r \in Manifest /\ RunsIn(phase, st, r)
  \/ r = None /\ \A m \in Manifest : ~RunsIn(phase, st, m)

\* A manifest has an object that is not a claim, which no other may hold.
LEMMA RunsOne ==
  ASSUME NEW phase, NEW st, NEW l \in Manifest, NEW m \in Manifest,
         RunsIn(phase, st, l), RunsIn(phase, st, m)
  PROVE  l = m
  <1>1. PICK o \in ObjectsOf(l) : ~IsClaim(o)
    BY RenderAssumption
  <1>2. o \in AppObject /\ o.gvr \in Range(PrunableGVRs)
    BY <1>1, RenderFacts, SweepAssumption
  <1>3. st[o] = l /\ l # None
    BY <1>1, NamesAssumption DEF RunsIn
  <1>4. o \in ObjectsOf(m)
    BY <1>2, <1>3 DEF RunsIn
  <1>5. QED
    BY <1>3, <1>4 DEF RunsIn

LEMMA RunningOne ==
  ASSUME NEW phase, NEW st, NEW r, NEW s, IsRunning(phase, st, r), IsRunning(phase, st, s)
  PROVE  r = s
  BY RunsOne DEF IsRunning

LEMMA RunsRead ==
  \A a \in App, m \in Manifest : Runs(a, m) <=> RunsIn(ns[a], store[a], m)
  <1>1. SUFFICES ASSUME NEW a \in App, NEW m \in Manifest
                 PROVE  Live(a) \subseteq ObjectsOf(m) <=>
                          \A o \in AppObject : (store[a][o] # None /\ o.gvr \in Range(PrunableGVRs))
                                                 => o \in ObjectsOf(m)
    BY DEF Runs, RunsIn
  <1>2. Live(a) = {o \in AppObject : store[a][o] # None /\ o.gvr \in Range(PrunableGVRs)}
    BY ObjectKinds DEF Live, Present
  <1>3. QED
    BY <1>2

LEMMA RunningNow == \A a \in App : IsRunning(ns[a], store[a], Running(a))
  BY RunsRead DEF Running, IsRunning

LEMMA RunningNext == \A a \in App : IsRunning(ns'[a], store'[a], Running(a)')
  <1>1. []\A a \in App : IsRunning(ns[a], store[a], Running(a))
    BY RunningNow, PTL
  <1>2. (\A a \in App : IsRunning(ns[a], store[a], Running(a)))'
    BY <1>1, PTL
  <1>3. QED
    BY <1>2

\* What runs does not depend on the releases and the backup credential.
LEMMA RunningSame ==
  ASSUME NEW phase, NEW st, NEW st2, \A o \in AppObject : st2[o] = st[o]
  PROVE  /\ \A m \in Manifest : RunsIn(phase, st2, m) <=> RunsIn(phase, st, m)
         /\ \A r : IsRunning(phase, st2, r) <=> IsRunning(phase, st, r)
  <1>1. ASSUME NEW m \in Manifest PROVE RunsIn(phase, st2, m) <=> RunsIn(phase, st, m)
    BY RenderFacts DEF RunsIn
  <1>2. QED
    BY <1>1 DEF IsRunning

\* What the mapping makes of the releases among an app's objects.
LogOf(st) == [n \in Revision |-> st[Release(n)]]

LEMMA LogFacts ==
  ASSUME NEW st \in [Object -> Content], NEW n \in Revision, NEW v
  PROVE  /\ LogOf(With(st, Release(n), v)) = [LogOf(st) EXCEPT ![n] = v]
         /\ {k \in Revision : LogOf(st)[k] # None} = ReleasesIn(st)
  <1>1. \A k \in Revision : With(st, Release(n), v)[Release(k)] = IF k = n THEN v ELSE st[Release(k)]
    BY ReleaseWrite
  <1>2. LogOf(With(st, Release(n), v)) = [k \in Revision |-> IF k = n THEN v ELSE st[Release(k)]]
    BY <1>1 DEF LogOf
  <1>3. [LogOf(st) EXCEPT ![n] = v] = [k \in Revision |-> IF k = n THEN v ELSE st[Release(k)]]
    BY DEF LogOf
  <1>4. {k \in Revision : LogOf(st)[k] # None} = ReleasesIn(st)
    BY DEF LogOf, ReleasesIn
  <1>5. QED
    BY <1>2, <1>3, <1>4

\* The actions of ReleaseHistory, of one app's r, what runs, and l, its log.
RecordsNow(r, l, r2, l2) ==
  /\ r # None /\ r2 = r
  /\ \E n \in Revision :
       /\ \A k \in {i \in Revision : l[i] # None} : k < n
       /\ n = 1 \/ n - 1 \in {i \in Revision : l[i] # None}
       /\ l2 = [l EXCEPT ![n] = r]

ForgetsNow(r, l, r2, l2) ==
  /\ r2 = r
  /\ \E n \in {i \in Revision : l[i] # None} :
       /\ \A k \in {i \in Revision : l[i] # None} : n <= k
       /\ Cardinality({i \in Revision : l[i] # None}) > KeepReleases
       /\ l2 = [l EXCEPT ![n] = None]

RemovesNow(r2, l2) == r2 = None /\ l2 = [n \in Revision |-> None]

MovesOn(r, l, r2, l2) ==
  l2 = l \/ RecordsNow(r, l, r2, l2) \/ ForgetsNow(r, l, r2, l2) \/ RemovesNow(r2, l2)

LEMMA IsNextFacts ==
  ASSUME NEW S \in SUBSET Revision, NEW n \in Revision, IsNext(n, S)
  PROVE  (\A k \in S : k < n) /\ (n = 1 \/ n - 1 \in S)
  <1>1. S \subseteq Nat
    BY DEF Revision
  <1>2. \A k \in S : k < n
    BY NextAbove
  <1>3. ASSUME NEW newest \in S, n = newest + 1 PROVE n - 1 = newest
    BY <1>1, <1>3
  <1>4. QED
    BY <1>2, <1>3 DEF IsNext

\* A release is created when the cluster runs exactly what it records.
LEMMA CreateRuns ==
  ASSUME IInv, NEW p \in Proc, job[p].pc = "createRelease", ns[job[p].app] = "active"
  PROVE  /\ job[p].man \in Manifest
         /\ RunsIn(ns[job[p].app], store[job[p].app], job[p].man)
         /\ job[p].revs = ReleasesIn(store[job[p].app])
  <1> DEFINE j == job[p]
             a == job[p].app
  <1>1. TypeInv /\ GoodJob(p, j) /\ a \in App /\ Progress(j, ns[a], store[a])
    BY JobFacts DEF IInv
  <1>2. /\ Deploys(j) /\ j.man \in Manifest /\ j.idx = Len(Render[j.man]) /\ j.doomed = {}
        /\ j.cmd # "down --volumes"
    BY <1>1 DEF GoodJob, JobOK, DoomedOK, After, Deploys
  <1>3. Applied(j) = ObjectsOf(j.man)
    BY <1>2, RenderFacts, NamesAssumption DEF Applied
  <1>4. \A i \in 1..Len(PrunableGVRs) : Clean(j, store[a], PrunableGVRs[i])
    BY <1>1, <1>2 DEF Progress, Swept, After
  <1>5. Live(a) \subseteq ObjectsOf(j.man)
    BY <1>1, <1>2, <1>3, <1>4, SweptLive
  <1>6. \A o \in ObjectsOf(j.man) : store[a][o] = j.man
    BY <1>1, <1>2, <1>3 DEF Progress, Intact
  <1>7. Runs(a, j.man)
    BY <1>5, <1>6 DEF Runs
  <1>8. j.revs = ReleasesIn(store[a])
    BY <1>1 DEF Progress, Recorded
  <1>9. QED
    BY <1>1, <1>2, <1>7, <1>8, RunsRead

LEMMA RecordMoves ==
  ASSUME HInv, NEW p \in Proc, NEW a \in App, NEW n \in Revision, RecordsIn(p, a, n),
         NEW r, NEW r2, IsRunning(ns[a], store[a], r), IsRunning(ns'[a], store'[a], r2)
  PROVE  RecordsNow(r, LogOf(store[a]), r2, LogOf(store'[a]))
  <1> DEFINE st  == store[a]
             st2 == store'[a]
  <1>1. st \in [Object -> Content] /\ job[p].revs \in SUBSET Revision
    BY JobFacts DEF HInv, IInv, TypeInv, TypeOK, Job
  <1>2. /\ job[p].pc = "createRelease" /\ job[p].app = a /\ ns' = ns /\ ns[a] = "active"
        /\ IsNext(n, job[p].revs) /\ st2 = With(st, Release(n), job[p].man)
    BY DEF RecordsIn, CreateRelease
  <1>3. job[p].man \in Manifest /\ RunsIn(ns[a], st, job[p].man) /\ job[p].revs = ReleasesIn(st)
    BY <1>2, CreateRuns DEF HInv
  <1>4. r = job[p].man /\ r # None
    BY <1>3, RunningOne, NamesAssumption DEF IsRunning
  <1>5. \A o \in AppObject : st2[o] = st[o]
    BY <1>1, <1>2, ReleaseWrite, ObjectKinds
  <1>6. r2 = r
    BY <1>2, <1>5, RunningSame, RunningOne
  <1>7. (\A k \in ReleasesIn(st) : k < n) /\ (n = 1 \/ n - 1 \in ReleasesIn(st))
    BY <1>1, <1>2, <1>3, IsNextFacts
  <1>8. /\ LogOf(st2) = [LogOf(st) EXCEPT ![n] = r]
        /\ {k \in Revision : LogOf(st)[k] # None} = ReleasesIn(st)
    BY <1>1, <1>2, <1>4, LogFacts
  <1>9. QED
    BY <1>4, <1>6, <1>7, <1>8 DEF RecordsNow

LEMMA TrimMoves ==
  ASSUME HInv, NEW p \in Proc, NEW a \in App, NEW n \in Revision, TrimsIn(p, a, n),
         NEW r, NEW r2, IsRunning(ns[a], store[a], r), IsRunning(ns'[a], store'[a], r2)
  PROVE  ForgetsNow(r, LogOf(store[a]), r2, LogOf(store'[a]))
  <1> DEFINE st   == store[a]
             st2  == store'[a]
             revs == job[p].revs
  <1>0. n \in Nat
    BY DEF Revision
  <1>1. st \in [Object -> Content] /\ revs \in SUBSET Revision
    BY JobFacts DEF HInv, IInv, TypeInv, TypeOK, Job
  <1>2. /\ job[p].pc = "trim" /\ job[p].app = a /\ ns' = ns
        /\ Cardinality(revs) >= KeepReleases /\ n \in revs /\ \A k \in revs : n <= k
        /\ st2 = With(st, Release(n), None)
    BY DEF TrimsIn, TrimRelease
  <1>3. PICK newest \in Revision : ReleasesIn(st) = revs \cup {newest} /\ \A k \in revs : k < newest
    BY <1>2 DEF HInv, Trimmed
  <1>4. newest \in Nat /\ newest \notin revs /\ n <= newest
    BY <1>0, <1>2, <1>3 DEF Revision
  <1>5. Cardinality(revs \cup {newest}) > KeepReleases
    <2> DEFINE S == revs
    <2>1. IsFiniteSet(S) /\ Cardinality(S) \in Nat
      BY <1>1, FiniteRevisions
    <2>2. Cardinality(S) >= KeepReleases /\ newest \notin S
      BY <1>2, <1>4
    <2> HIDE DEF S
    <2>3. Cardinality(S \cup {newest}) = Cardinality(S) + 1
      BY <2>1, <2>2, FS_AddElement
    <2>4. Cardinality(S \cup {newest}) > KeepReleases
      BY <2>1, <2>2, <2>3, NamesAssumption
    <2>5. QED
      BY <2>4 DEF S
  <1>6. \A o \in AppObject : st2[o] = st[o]
    BY <1>1, <1>2, ReleaseWrite, ObjectKinds
  <1>7. r2 = r
    BY <1>2, <1>6, RunningSame, RunningOne
  <1>8. /\ LogOf(st2) = [LogOf(st) EXCEPT ![n] = None]
        /\ {k \in Revision : LogOf(st)[k] # None} = ReleasesIn(st)
    BY <1>1, <1>2, LogFacts
  <1>9. n \in ReleasesIn(st) /\ \A k \in ReleasesIn(st) : n <= k
    BY <1>2, <1>3, <1>4
  <1>10. QED
    BY <1>3, <1>5, <1>7, <1>8, <1>9 DEF ForgetsNow

\* A step of the system is a step of the history of each app, or none.
LEMMA AppMoves ==
  ASSUME HInv, [Next]_vars, NEW a \in App,
         NEW r, NEW r2, IsRunning(ns[a], store[a], r), IsRunning(ns'[a], store'[a], r2)
  PROVE  MovesOn(r, LogOf(store[a]), r2, LogOf(store'[a]))
  <1> DEFINE st  == store[a]
             st2 == store'[a]
  <1>1. TypeInv /\ st \in [Object -> Content]
    BY DEF HInv, IInv, TypeInv, TypeOK
  <1>2. CASE st2 = st
    BY <1>2 DEF MovesOn
  <1>3. CASE ObjectWrite(st, st2)
    BY <1>1, <1>3, ObjectWriteReleases DEF MovesOn, LogOf
  <1>4. CASE ns'[a] = "absent" /\ st2 = Empty
    <2>1. r2 = None
      BY <1>4 DEF IsRunning, RunsIn
    <2>2. LogOf(st2) = [n \in Revision |-> None]
      BY <1>4, ObjectKinds DEF LogOf, Empty
    <2>3. QED
      BY <2>1, <2>2 DEF MovesOn, RemovesNow
  <1>5. ASSUME NEW p \in Proc, Start(p) \/ Step(p)
        PROVE  MovesOn(r, LogOf(st), r2, LogOf(st2))
    <2>1. ASSUME NEW n \in Revision, RecordsIn(p, a, n) \/ TrimsIn(p, a, n)
          PROVE  MovesOn(r, LogOf(st), r2, LogOf(st2))
      BY <2>1, RecordMoves, TrimMoves DEF MovesOn
    <2>2. CASE st2 = With(st, BackupSecret, Credential)
      BY <1>1, <2>2, BackupWriteReleases DEF MovesOn, LogOf
    <2>3. QED
      BY <1>1, <1>2, <1>3, <1>5, <2>1, <2>2, MachineWrites
  <1>6. CASE Cluster
    BY <1>1, <1>2, <1>3, <1>4, <1>6, ClusterWrites
  <1>7. CASE UNCHANGED vars
    BY <1>2, <1>7 DEF vars
  <1>8. QED
    BY <1>5, <1>6, <1>7 DEF Next

LEMMA OneApp ==
  ASSUME TypeInv, [Next]_vars
  PROVE  \/ UNCHANGED <<ns, store>>
         \/ \E a \in App : \A b \in App \ {a} : ns'[b] = ns[b] /\ store'[b] = store[b]
  <1>1. /\ store \in [App -> [Object -> Content]]
        /\ ns \in [App -> {"absent", "active", "terminating"}]
    BY DEF TypeInv, TypeOK
  <1>2. CASE UNCHANGED vars
    BY <1>2 DEF vars
  <1>3. CASE Cluster
    BY <1>1, <1>3 DEF Cluster, ConfigureBackup, Finalize, CreateClaim
  <1>4. ASSUME NEW p \in Proc, Start(p) \/ Step(p)
        PROVE  \/ UNCHANGED <<ns, store>>
               \/ \E a \in App : \A b \in App \ {a} : ns'[b] = ns[b] /\ store'[b] = store[b]
    <2>1. CASE Start(p)
      BY <2>1, StartJob
    <2>2. CASE Step(p)
      <3>1. job[p].app \in App
        BY <1>1, <2>2, JobFacts, StepJob
      <3>2. \/ UNCHANGED store
            \/ \E o, v : store' = [store EXCEPT ![job[p].app][o] = v]
        <4>1. CASE ApplyObject(p)
          BY <4>1 DEF ApplyObject
        <4>2. CASE PruneDelete(p)
          BY <4>2 DEF PruneDelete
        <4>3. CASE CreateRelease(p)
          BY <4>3 DEF CreateRelease
        <4>4. CASE TrimRelease(p)
          BY <4>4 DEF TrimRelease
        <4>5. CASE CopyBackup(p)
          BY <4>5 DEF CopyBackup
        <4>6. CASE \/ ListIngresses(p) \/ ListProxies(p) \/ ApplyNamespace(p) \/ PruneList(p)
                   \/ ReadReleases(p) \/ EndTrim(p) \/ ListClaims(p) \/ DeleteNamespace(p)
                   \/ Return(p) \/ Abort(p)
          BY <4>6 DEF ListIngresses, ListProxies, ApplyNamespace, PruneList, ReadReleases, EndTrim,
                      ListClaims, DeleteNamespace, Return, Abort
        <4>7. QED
          BY <2>2, <4>1, <4>2, <4>3, <4>4, <4>5, <4>6 DEF Step
      <3>3. \A b \in App \ {job[p].app} : store'[b] = store[b]
        BY <1>1, <3>2
      <3>4. \A b \in App \ {job[p].app} : ns'[b] = ns[b]
        BY <1>1, <1>4, MachinePhases
      <3>5. QED
        BY <3>1, <3>3, <3>4
    <2>3. QED
      BY <1>4, <2>1, <2>2
  <1>5. QED
    BY <1>2, <1>3, <1>4 DEF Next

\* The mapping of Deploy.
RunningOf == [a \in App |-> Running(a)]
LogsOf    == [a \in App |-> [n \in Revision |-> store[a][Release(n)]]]

\* A step of one app's history, while the others keep theirs, is a step of
\* ReleaseHistory.
LEMMA MapStep ==
  ASSUME NEW a \in App,
         RunningOf' \in [App -> Manifest \cup {None}],
         \A b \in App \ {a} : RunningOf'[b] = RunningOf[b] /\ LogsOf'[b] = LogsOf[b],
         MovesOn(RunningOf[a], LogsOf[a], RunningOf'[a], LogsOf'[a])
  PROVE  History!Next
  <1>1. /\ RunningOf' = [RunningOf EXCEPT ![a] = RunningOf'[a]]
        /\ LogsOf' = [LogsOf EXCEPT ![a] = LogsOf'[a]]
    <2>1. RunningOf' = [b \in App |-> RunningOf'[b]] /\ RunningOf = [b \in App |-> RunningOf[b]]
      BY DEF RunningOf
    <2>2. LogsOf' = [b \in App |-> LogsOf'[b]] /\ LogsOf = [b \in App |-> LogsOf[b]]
      BY DEF LogsOf
    <2> HIDE DEF RunningOf, LogsOf
    <2>3. QED
      BY <2>1, <2>2
  <1>2. History!Revision = Revision
    BY DEF History!Revision, Revision
  <1>3. History!Recorded(a) = {i \in Revision : LogsOf[a][i] # None}
    BY <1>2 DEF History!Recorded, LogsOf
  <1>4. CASE LogsOf'[a] = LogsOf[a]
    <2>1. LogsOf' = LogsOf /\ RunningOf'[a] \in Manifest \cup {None}
      BY <1>1, <1>4 DEF LogsOf
    <2>2. History!Change(a)
      BY <1>1, <2>1 DEF History!Change, RunningOf, LogsOf
    <2>3. QED
      BY <2>2 DEF History!Next
  <1>5. CASE RecordsNow(RunningOf[a], LogsOf[a], RunningOf'[a], LogsOf'[a])
    <2>1. RunningOf' = RunningOf
      BY <1>1, <1>5 DEF RecordsNow, RunningOf
    <2>2. PICK n \in Revision :
            /\ \A k \in {i \in Revision : LogsOf[a][i] # None} : k < n
            /\ n = 1 \/ n - 1 \in {i \in Revision : LogsOf[a][i] # None}
            /\ LogsOf'[a] = [LogsOf[a] EXCEPT ![n] = RunningOf[a]]
      BY <1>5 DEF RecordsNow
    <2>3. LogsOf' = [LogsOf EXCEPT ![a][n] = RunningOf[a]]
      BY <1>1, <2>2
    <2>4. /\ \A k \in History!Recorded(a) : k < n
          /\ n = 1 \/ n - 1 \in History!Recorded(a)
      BY <1>3, <2>2
    <2>5. RunningOf[a] # None
      BY <1>5 DEF RecordsNow
    <2>6. History!Record(a)
      BY <1>2, <2>1, <2>3, <2>4, <2>5 DEF History!Record, RunningOf, LogsOf
    <2>7. QED
      BY <2>6 DEF History!Next
  <1>6. CASE ForgetsNow(RunningOf[a], LogsOf[a], RunningOf'[a], LogsOf'[a])
    <2>1. RunningOf' = RunningOf
      BY <1>1, <1>6 DEF ForgetsNow, RunningOf
    <2>2. PICK n \in {i \in Revision : LogsOf[a][i] # None} :
            /\ \A k \in {i \in Revision : LogsOf[a][i] # None} : n <= k
            /\ Cardinality({i \in Revision : LogsOf[a][i] # None}) > KeepReleases
            /\ LogsOf'[a] = [LogsOf[a] EXCEPT ![n] = None]
      BY <1>6 DEF ForgetsNow
    <2>3. LogsOf' = [LogsOf EXCEPT ![a][n] = None]
      BY <1>1, <2>2
    <2>4. /\ n \in History!Recorded(a)
          /\ \A k \in History!Recorded(a) : n <= k
          /\ Cardinality(History!Recorded(a)) > KeepReleases
      BY <1>3, <2>2
    <2>5. \E i \in History!Recorded(a) :
            /\ \A k \in History!Recorded(a) : i <= k
            /\ Cardinality(History!Recorded(a)) > KeepReleases
            /\ LogsOf' = [LogsOf EXCEPT ![a][i] = None]
      BY <2>3, <2>4
    <2>6. \A S : History!Cardinality(S) = Cardinality(S)
      BY DEF History!Cardinality, Cardinality
    <2>7. History!Forget(a)
      BY <2>1, <2>5, <2>6 DEF History!Forget, RunningOf, LogsOf
    <2>8. QED
      BY <2>7 DEF History!Next
  <1>7. CASE RemovesNow(RunningOf'[a], LogsOf'[a])
    <2>1. LogsOf'[a] = History!NoLog
      BY <1>2, <1>7 DEF RemovesNow, History!NoLog
    <2>2. History!Remove(a)
      BY <1>1, <1>7, <2>1 DEF History!Remove, RemovesNow, RunningOf, LogsOf
    <2>3. QED
      BY <2>2 DEF History!Next
  <1>8. QED
    BY <1>4, <1>5, <1>6, <1>7 DEF MovesOn

LEMMA HistoryStep == HInv /\ [Next]_vars => [History!Next]_(History!vars)
  <1> SUFFICES ASSUME HInv, [Next]_vars PROVE [History!Next]_(History!vars)
    OBVIOUS
  <1>1. TypeInv /\ store \in [App -> [Object -> Content]]
    BY DEF HInv, IInv, TypeInv, TypeOK
  <1>2. ASSUME NEW b \in App
        PROVE  /\ RunningOf[b] = Running(b) /\ RunningOf'[b] = Running(b)'
               /\ LogsOf[b] = LogOf(store[b]) /\ LogsOf'[b] = LogOf(store'[b])
    BY DEF RunningOf, LogsOf, LogOf
  <1>3. ASSUME NEW b \in App, ns'[b] = ns[b], store'[b] = store[b]
        PROVE  RunningOf'[b] = RunningOf[b] /\ LogsOf'[b] = LogsOf[b]
    <2>1. IsRunning(ns[b], store[b], RunningOf[b]) /\ IsRunning(ns[b], store[b], RunningOf'[b])
      BY <1>2, <1>3, RunningNow, RunningNext
    <2>2. QED
      BY <1>2, <1>3, <2>1, RunningOne
  <1>4. RunningOf' \in [App -> Manifest \cup {None}]
    <2>1. \A b \in App : Running(b)' \in Manifest \cup {None}
      BY RunningNext DEF IsRunning
    <2>2. QED
      BY <2>1 DEF RunningOf
  <1>5. CASE UNCHANGED <<ns, store>>
    <2>1. \A b \in App : RunningOf'[b] = RunningOf[b] /\ LogsOf'[b] = LogsOf[b]
      BY <1>3, <1>5
    <2>2. RunningOf' = RunningOf /\ LogsOf' = LogsOf
      BY <2>1 DEF RunningOf, LogsOf
    <2>3. QED
      BY <2>2 DEF History!vars, RunningOf, LogsOf
  <1>6. ASSUME NEW a \in App, \A b \in App \ {a} : ns'[b] = ns[b] /\ store'[b] = store[b]
        PROVE  History!Next
    <2>1. \A b \in App \ {a} : RunningOf'[b] = RunningOf[b] /\ LogsOf'[b] = LogsOf[b]
      BY <1>3, <1>6
    <2>2. /\ IsRunning(ns[a], store[a], RunningOf[a])
          /\ IsRunning(ns'[a], store'[a], RunningOf'[a])
      BY <1>2, RunningNow, RunningNext
    <2>3. MovesOn(RunningOf[a], LogsOf[a], RunningOf'[a], LogsOf'[a])
      BY <1>2, <2>2, AppMoves
    <2>4. QED
      BY <1>4, <2>1, <2>3, MapStep
  <1>7. QED
    BY <1>1, <1>5, <1>6, OneApp

LEMMA HistoryInit == Init => History!Init
  <1> SUFFICES ASSUME Init PROVE History!Init
    OBVIOUS
  <1>1. \A a \in App : Running(a) = None
    BY DEF Running, Runs, Init
  <1>2. \A a \in App, n \in Revision : store[a][Release(n)] = None
    BY ObjectKinds DEF Init, Empty
  <1>3. History!NoLog = [n \in Revision |-> None]
    BY DEF History!NoLog, History!Revision, Revision
  <1>4. QED
    BY <1>1, <1>2, <1>3 DEF History!Init

\* The releases are a faithful log of what ran: a revision records exactly
\* what the cluster ran when it was created, is never rewritten, and is
\* forgotten only as the oldest of more than KeepReleases or with the app.
THEOREM HistoryRefined == ASSUME Exclusive PROVE Spec => RefinesHistory
  <1>1. Exclusive
    OBVIOUS
  <1>2. QED
    BY <1>1, InitHInv, NextHInv, HistoryInit, HistoryStep, PTL
    DEF Spec, RefinesHistory, History!Spec

-----------------------------------------------------------------------------
(***************************************************************************)
(* Volumes.  A down that goes on to the namespace has found no claim, and  *)
(* its prune has left nothing a controller could make one for.             *)
(***************************************************************************)

ClaimsIn(st) == {o \in Object : st[o] # None /\ IsClaim(o)}

Unclaimed(j, st) == (j.pc = "deleteNamespace" /\ j.cmd = "down") => ClaimsIn(st) = {}

\* The inductive invariant.
VInv == IInv /\ \A p \in Proc : Unclaimed(job[p], store[job[p].app])

LEMMA ClaimsRead == \A a \in App : Claims(a) = ClaimsIn(store[a])
  BY DEF Claims, ClaimsIn, Present

LEMMA OwnUnclaimed ==
  ASSUME TypeInv, NEW p \in Proc, Start(p) \/ Step(p)
  PROVE  Unclaimed(job'[p], store'[job'[p].app])
  <1> DEFINE k == job'[p]
  <1>1. SUFFICES ASSUME k.pc = "deleteNamespace", k.cmd = "down" PROVE ClaimsIn(store'[k.app]) = {}
    BY DEF Unclaimed
  <1>2. ListClaims(p) /\ k.app = job[p].app
    BY <1>1, StartJob, StepJob, IdleNothing
  <1>3. job[p].pc = "listClaims" /\ UNCHANGED store /\ job \in [Proc -> Job] /\ job[p].app \in App
    BY <1>2, JobFacts DEF ListClaims, TypeInv, TypeOK
  <1>4. Claims(job[p].app) = {}
    <2>1. CASE Goto(p, "done")
      <3>1. k.pc = "done"
        BY <1>3, <2>1 DEF Goto
      <3>2. QED
        BY <1>1, <3>1
    <2>2. QED
      BY <1>2, <2>1 DEF ListClaims
  <1>5. QED
    BY <1>2, <1>3, <1>4, ClaimsRead

\* Nothing is left in the namespace that a prune has emptied and that holds
\* no claim.
LEMMA NothingLeft ==
  ASSUME VInv, NEW p \in Proc, job[p].pc = "deleteNamespace", job[p].cmd = "down"
  PROVE  AppObject \cap Present(job[p].app) = {}
  <1> DEFINE j == job[p]
             a == job[p].app
  <1>1. TypeInv /\ a \in App /\ j.man = None /\ j.doomed = {} /\ Progress(j, ns[a], store[a])
    BY JobFacts DEF VInv, IInv, JobOK, DoomedOK, Deploys
  <1>2. \A i \in 1..Len(PrunableGVRs) : Clean(j, store[a], PrunableGVRs[i])
    BY <1>1 DEF Progress, Swept
  <1>3. Live(a) = {}
    BY <1>1, <1>2, SweptLive DEF Applied
  <1>4. ClaimsIn(store[a]) = {}
    BY DEF VInv, Unclaimed
  <1>5. ASSUME NEW o \in AppObject \cap Present(a) PROVE FALSE
    <2>1. ~IsClaim(o)
      BY <1>4, <1>5, ObjectKinds DEF ClaimsIn, Present
    <2>2. o \in Live(a)
      BY <1>5, <2>1, SweepAssumption, ObjectKinds DEF Live
    <2>3. QED
      BY <1>3, <2>2
  <1>6. QED
    BY <1>5

LEMMA NextVInv == Exclusive /\ VInv /\ [Next]_vars => VInv'
  <1> SUFFICES ASSUME Exclusive, VInv, [Next]_vars PROVE VInv'
    OBVIOUS
  <1>1. IInv /\ IInv' /\ TypeInv
    BY NextIInv DEF VInv, IInv
  <1>2. ASSUME NEW p \in Proc PROVE Unclaimed(job'[p], store'[job'[p].app])
    <2> DEFINE j == job[p]
               a == job[p].app
    <2>1. CASE Start(p) \/ Step(p)
      BY <1>1, <2>1, OwnUnclaimed
    <2>2. CASE ~(Start(p) \/ Step(p))
      <3>1. job'[p] = j
        BY <1>1, <2>2, OwnJob
      <3>2. SUFFICES ASSUME j.pc = "deleteNamespace", j.cmd = "down" PROVE ClaimsIn(store'[a]) = {}
        BY <3>1 DEF Unclaimed
      <3>3. a \in App /\ a \in WorksOn[p] /\ ClaimsIn(store[a]) = {}
        BY <1>1, <3>2, JobFacts DEF VInv, Unclaimed, JobOK
      <3>4. CASE UNCHANGED vars
        BY <3>3, <3>4 DEF vars
      <3>5. CASE Cluster
        <4>1. CASE ConfigureBackup
          BY <3>3, <4>1 DEF ConfigureBackup
        <4>2. ASSUME NEW b \in App, Finalize(b) PROVE ClaimsIn(store'[a]) = {}
          <5>1. store'[a] = store[a] \/ store'[a] = Empty
            BY <1>1, <3>3, <4>2 DEF Finalize, TypeInv, TypeOK
          <5>2. ClaimsIn(Empty) = {}
            BY DEF ClaimsIn, Empty
          <5>3. QED
            BY <3>3, <5>1, <5>2
        <4>3. ASSUME NEW b \in App, CreateClaim(b) PROVE ClaimsIn(store'[a]) = {}
          <5>1. b # a
            BY <3>2, <4>3, NothingLeft DEF CreateClaim
          <5>2. store'[a] = store[a]
            BY <1>1, <3>3, <4>3, <5>1 DEF CreateClaim, TypeInv, TypeOK
          <5>3. QED
            BY <3>3, <5>2
        <4>4. QED
          BY <3>5, <4>1, <4>2, <4>3 DEF Cluster
      <3>6. ASSUME NEW q \in Proc \ {p}, Start(q) \/ Step(q)
            PROVE  ClaimsIn(store'[a]) = {}
        <4>1. a \in App \ WorksOn[q]
          BY <3>3 DEF Exclusive
        <4>2. QED
          BY <1>1, <3>3, <3>6, <4>1, Elsewhere
      <3>7. QED
        BY <2>2, <3>4, <3>5, <3>6 DEF Next
    <2>3. QED
      BY <2>1, <2>2
  <1>3. QED
    BY <1>1, <1>2 DEF VInv

LEMMA InitVInv == Init => VInv
  <1> SUFFICES ASSUME Init PROVE VInv
    OBVIOUS
  <1>1. \A p \in Proc : job[p].pc = "idle"
    BY IdleNothing DEF Init
  <1>2. QED
    BY <1>1, InitIInv DEF VInv, Unclaimed

VolumesKept(a) ==
  (Claims(a) # {} /\ ns[a] = "active" /\ ns'[a] # "active") =>
    \E p \in Proc : job[p].app = a /\ job[p].cmd = "down --volumes"

LEMMA NextVolumesKept == VInv /\ [Next]_vars => [\A a \in App : VolumesKept(a)]_vars
  <1> SUFFICES ASSUME VInv, Next, NEW a \in App,
                      Claims(a) # {}, ns[a] = "active", ns'[a] # "active"
               PROVE  \E p \in Proc : job[p].app = a /\ job[p].cmd = "down --volumes"
    BY DEF VolumesKept
  <1>1. TypeInv
    BY DEF VInv, IInv
  <1>2. ~Cluster
    BY <1>1, ClusterWrites
  <1>3. PICK p \in Proc : Start(p) \/ Step(p)
    BY <1>2 DEF Next
  <1>4. job[p].app = a /\ job[p].pc = "deleteNamespace"
    BY <1>1, <1>3, MachinePhases
  <1>5. job[p].cmd \in {"down", "down --volumes"}
    BY <1>1, <1>4, JobFacts DEF JobOK
  <1>6. job[p].cmd # "down"
    BY <1>4, ClaimsRead DEF VInv, Unclaimed
  <1>7. QED
    BY <1>4, <1>5, <1>6

\* A namespace that holds a claim is deleted by down --volumes alone: no claim
\* appears between a plain down's look at the claims and its delete.
THEOREM VolumesKeptByDown == ASSUME Exclusive PROVE Spec => VolumesSurvive
  <1>1. Exclusive
    OBVIOUS
  <1>2. QED
    BY <1>1, InitVInv, NextVInv, NextVolumesKept, PTL DEF Spec, VolumesSurvive, VolumesKept

-----------------------------------------------------------------------------
(***************************************************************************)
(* Hosts.  The check reads the whole cluster and applies afterwards, so it *)
(* holds for one machine; and it reads the Ingresses of a typed render     *)
(* only, so it holds for what jekyo up deploys, and for a rollback if no   *)
(* render has an Ingress.                                                  *)
(***************************************************************************)

OneMachine == \A p, q \in Proc : p = q

\* hosts.go sees every host that is about to be routed.
Seen ==
  \/ "rollback" \notin Commands
  \/ \A m \in Manifest : \A o \in ObjectsOf(m) : o.gvr # "ingresses"

-----------------------------------------------------------------------------
(***************************************************************************)
(* The hosts an app's objects st route, and what a step does to them.      *)
(***************************************************************************)

Routing == {"ingresses", "httpproxies"}

RoutedBy(st, h) ==
  \E o \in AppObject : st[o] # None /\ o.gvr \in Routing /\ h \in Routes[st[o]][o]

RoutedVia(st, gvr, h) ==
  \E o \in AppObject : st[o] # None /\ o.gvr = gvr /\ h \in Routes[st[o]][o]

LEMMA ServedRead ==
  \A a \in App : \A gvr, h : h \in Served(a, gvr) <=> RoutedVia(store[a], gvr, h)
  BY ObjectKinds DEF Served, Present, RoutedVia

LEMMA HostsRead ==
  \A a \in App : \A h : h \in HostsOf(a) <=> RoutedBy(store[a], h)
  BY ServedRead DEF HostsOf, RoutedBy, RoutedVia, Routing

LEMMA RouteHostsRead ==
  ASSUME NEW m \in Manifest
  PROVE  /\ \A h : h \in RouteHosts(m, TRUE) <=>
                     \E o \in ObjectsOf(m) : o.gvr \in Routing /\ h \in Routes[m][o]
         /\ \A h, typed : h \in RouteHosts(m, typed) => h \in RouteHosts(m, TRUE)
         /\ (\A o \in ObjectsOf(m) : o.gvr # "ingresses") =>
              RouteHosts(m, FALSE) = RouteHosts(m, TRUE)
  BY DEF RouteHosts, Routing

\* Only an apply routes a host, and only one of its manifest's.
LEMMA MachineRoutes ==
  ASSUME TypeInv, NEW p \in Proc, Start(p) \/ Step(p), NEW a \in App, NEW h,
         RoutedBy(store'[a], h), ~RoutedBy(store[a], h)
  PROVE  job[p].pc = "apply" /\ job[p].app = a /\ h \in RouteHosts(job[p].man, TRUE)
  <1> DEFINE j == job[p]
  <1>1. /\ store \in [App -> [Object -> Content]] /\ AppObject \subseteq Object
        /\ j \in Job /\ JobOK(p, j) /\ (j.pc # "idle" => j.app \in App)
    BY JobFacts, ObjectKinds DEF TypeInv, TypeOK
  <1>2. PICK o \in AppObject : store'[a][o] # None /\ o.gvr \in Routing /\ h \in Routes[store'[a][o]][o]
    BY DEF RoutedBy
  <1>3. store'[a][o] # store[a][o]
    BY <1>2 DEF RoutedBy
  <1>4. CASE ApplyObject(p)
    <2> DEFINE x == Render[j.man][j.idx + 1]
    <2>1. j.pc = "apply" /\ store' = [store EXCEPT ![j.app][x] = j.man]
      BY <1>4 DEF ApplyObject
    <2>2. j.man \in Manifest /\ j.idx + 1 \in 1..Len(Render[j.man])
      <3>1. j.man \in Manifest /\ j.idx \in Nat /\ j.idx < Len(Render[j.man])
        BY <1>1, <2>1 DEF JobOK, Job
      <3>2. Len(Render[j.man]) \in Nat
        BY <3>1, RenderFacts
      <3>3. QED
        BY <3>1, <3>2
    <2>3. x \in ObjectsOf(j.man)
      BY <2>2, RenderFacts
    <2> HIDE DEF x
    <2>4. j.app = a /\ x = o /\ store'[a][o] = j.man
      BY <1>1, <1>3, <2>1
    <2>5. QED
      BY <1>2, <2>1, <2>2, <2>3, <2>4, RouteHostsRead
  <1>5. CASE PruneDelete(p)
    <2>1. \E x : store' = [store EXCEPT ![j.app][x] = None]
      BY <1>5 DEF PruneDelete
    <2>2. QED
      BY <1>1, <1>2, <1>3, <2>1
  <1>6. CASE CreateRelease(p) \/ TrimRelease(p)
    <2>1. \E n \in Revision : \E v : store' = [store EXCEPT ![j.app][Release(n)] = v]
      BY <1>1, <1>6 DEF CreateRelease, TrimRelease, Job
    <2>2. QED
      BY <1>1, <1>3, <2>1, ObjectKinds
  <1>7. CASE CopyBackup(p)
    BY <1>1, <1>3, <1>7, ObjectKinds DEF CopyBackup
  <1>8. CASE store' = store
    BY <1>3, <1>8
  <1>9. QED
    BY <1>4, <1>5, <1>6, <1>7, <1>8
    DEF Start, Up, Rollback, Down, DownVolumes,
        Step, ListIngresses, ListProxies, ApplyNamespace, PruneList, ReadReleases, EndTrim,
        ListClaims, DeleteNamespace, Return, Abort

\* The rest of the cluster routes nothing: a claim has no hosts.
LEMMA ClusterRoutes ==
  ASSUME TypeInv, Cluster, NEW a \in App, NEW h
  PROVE  /\ RoutedBy(store'[a], h) => RoutedBy(store[a], h)
         /\ RoutedVia(store'[a], "ingresses", h) => RoutedVia(store[a], "ingresses", h)
  <1>1. store \in [App -> [Object -> Content]] /\ AppObject \subseteq Object
    BY ObjectKinds DEF TypeInv, TypeOK
  <1>2. SUFFICES ASSUME NEW o \in AppObject, store'[a][o] # None, o.gvr \in Routing
                 PROVE  store'[a][o] = store[a][o]
    BY DEF RoutedBy, RoutedVia, Routing
  <1>3. CASE ConfigureBackup
    BY <1>3 DEF ConfigureBackup
  <1>4. ASSUME NEW b \in App, Finalize(b) PROVE store'[a][o] = store[a][o]
    BY <1>1, <1>2, <1>4 DEF Finalize, Empty
  <1>5. ASSUME NEW b \in App, CreateClaim(b) PROVE store'[a][o] = store[a][o]
    <2>1. PICK x \in AppObject : \E c \in ClaimTemplates[x] : store' = [store EXCEPT ![b][c] = store[b][x]]
      BY <1>5 DEF CreateClaim
    <2>2. PICK c \in ClaimTemplates[x] : store' = [store EXCEPT ![b][c] = store[b][x]]
      BY <2>1
    <2>3. IsClaim(c)
      <3>1. ClaimTemplates[x] \in SUBSET {y \in AppObject : IsClaim(y)}
        BY AppAssumption
      <3>2. QED
        BY <2>2, <3>1
    <2>4. c # o
      BY <1>2, <2>3 DEF IsClaim, Routing
    <2>5. QED
      BY <1>1, <2>2, <2>4
  <1>6. QED
    BY <1>3, <1>4, <1>5 DEF Cluster

-----------------------------------------------------------------------------
(***************************************************************************)
(* The inductive invariant: what a command has read so far covers what the *)
(* others route, and once it is past the check nobody else routes a host   *)
(* of its manifest.                                                        *)
(***************************************************************************)

Others(j, sts, h) == h \in ServerHosts \/ \E b \in App \ {j.app} : RoutedBy(sts[b], h)

HostsChecked(j, sts) ==
  /\ j.pc \in Before => RouteHosts(j.man, j.cmd = "up") = RouteHosts(j.man, TRUE)
  /\ j.pc = "listProxies" =>
       /\ ServerHosts \subseteq j.owned
       /\ \A b \in App \ {j.app} : \A h : RoutedVia(sts[b], "ingresses", h) => h \in j.owned
  /\ j.pc \in {"namespace", "apply"} => \A h \in RouteHosts(j.man, TRUE) : ~Others(j, sts, h)

\* No host is routed by two apps, or by an app and the server.
Apart(sts) ==
  \A a \in App : \A h : RoutedBy(sts[a], h) =>
    h \notin ServerHosts /\ \A b \in App \ {a} : ~RoutedBy(sts[b], h)

XInv == TypeInv /\ Apart(store) /\ \A p \in Proc : HostsChecked(job[p], store)

LEMMA XInvExclusive == XInv => HostsExclusive
  BY HostsRead DEF XInv, Apart, HostsExclusive

LEMMA MachineApart ==
  ASSUME XInv, NEW p \in Proc, Start(p) \/ Step(p)
  PROVE  Apart(store')
  <1>1. TypeInv /\ Apart(store)
    BY DEF XInv
  <1>2. ASSUME NEW a \in App, NEW h, RoutedBy(store'[a], h), ~RoutedBy(store[a], h)
        PROVE  /\ job[p].app = a /\ h \notin ServerHosts
               /\ \A b \in App \ {a} : ~RoutedBy(store[b], h)
    <2>1. job[p].pc = "apply" /\ job[p].app = a /\ h \in RouteHosts(job[p].man, TRUE)
      BY <1>1, <1>2, MachineRoutes
    <2>2. QED
      BY <2>1 DEF XInv, HostsChecked, Others
  <1>3. SUFFICES ASSUME NEW a \in App, NEW h, RoutedBy(store'[a], h)
                 PROVE  h \notin ServerHosts /\ \A b \in App \ {a} : ~RoutedBy(store'[b], h)
    BY DEF Apart
  <1>4. h \notin ServerHosts
    BY <1>1, <1>2, <1>3 DEF Apart
  <1>5. ASSUME NEW b \in App \ {a}, RoutedBy(store'[b], h) PROVE FALSE
    <2>1. CASE RoutedBy(store[a], h) /\ RoutedBy(store[b], h)
      BY <1>1, <2>1 DEF Apart
    <2>2. CASE ~RoutedBy(store[a], h)
      BY <1>2, <1>3, <1>5, <2>2
    <2>3. CASE ~RoutedBy(store[b], h)
      BY <1>2, <1>3, <1>5, <2>3
    <2>4. QED
      BY <2>1, <2>2, <2>3
  <1>6. QED
    BY <1>4, <1>5

\* What the check needs of the calls before it.
LEMMA StartChecked ==
  ASSUME XInv, Seen, NEW p \in Proc, Start(p)
  PROVE  HostsChecked(job'[p], store')
  <1> DEFINE k == job'[p]
  <1>1. TypeInv /\ job \in [Proc -> Job]
    BY DEF XInv, TypeInv, TypeOK
  <1>2. ASSUME NEW a \in App, NEW m \in Manifest, NEW cmd \in {"up", "rollback"}, cmd \in Commands,
               NEW copy, k = Deploying(cmd, a, m, copy)
        PROVE  HostsChecked(k, store')
    <2>1. RouteHosts(m, cmd = "up") = RouteHosts(m, TRUE)
      <3>1. CASE cmd = "up"
        BY <3>1
      <3>2. CASE cmd = "rollback"
        <4>1. \A o \in ObjectsOf(m) : o.gvr # "ingresses"
          BY <1>2, <3>2 DEF Seen
        <4>2. QED
          BY <3>2, <4>1, RouteHostsRead
      <3>3. QED
        BY <3>1, <3>2
    <2>2. /\ k.pc = IF RouteHosts(m, cmd = "up") = {} THEN "namespace" ELSE "listIngresses"
          /\ k.cmd = cmd /\ k.man = m
      BY <1>2 DEF Deploying, Idle
    <2> HIDE DEF k
    <2>3. QED
      BY <2>1, <2>2 DEF HostsChecked
  <1>3. PICK a \in App : \/ \E m \in Manifest : Up(p, a, m)
                         \/ \E n \in Revision : Rollback(p, a, n)
                         \/ Down(p, a)
                         \/ DownVolumes(p, a)
    BY DEF Start
  <1>4. ASSUME NEW m \in Manifest, Up(p, a, m) PROVE HostsChecked(k, store')
    <2>1. "up" \in Commands /\ k = Deploying("up", a, m, m \in Backed /\ target)
      BY <1>1, <1>4 DEF Up, Starts
    <2>2. QED
      BY <1>2, <2>1
  <1>5. ASSUME NEW n \in Revision, Rollback(p, a, n) PROVE HostsChecked(k, store')
    <2>1. "rollback" \in Commands /\ k = Deploying("rollback", a, store[a][Release(n)], FALSE)
      BY <1>1, <1>5 DEF Rollback, Starts
    <2>2. store[a][Release(n)] \in Manifest
      BY <1>1, <1>5, ObjectKinds DEF Rollback, Releases, TypeInv, TypeOK, Content
    <2>3. QED
      BY <1>2, <2>1, <2>2
  <1>6. CASE Down(p, a) \/ DownVolumes(p, a)
    <2>1. k.pc \in {"pruneList", "deleteNamespace"}
      BY <1>1, <1>6 DEF Down, DownVolumes, Idle
    <2>2. QED
      BY <2>1 DEF HostsChecked, Before
  <1>7. QED
    BY <1>3, <1>4, <1>5, <1>6

\* The other apps route no more than before.
LEMMA OthersKept ==
  ASSUME TypeInv, NEW p \in Proc, Step(p), job'[p].app = job[p].app, NEW h, ~Others(job[p], store, h)
  PROVE  ~Others(job'[p], store', h)
  BY MachineRoutes DEF Others

LEMMA StepChecked ==
  ASSUME XInv, NEW p \in Proc, Step(p)
  PROVE  HostsChecked(job'[p], store')
  <1> DEFINE j == job[p]
             k == job'[p]
  <1>1. TypeInv /\ HostsChecked(j, store) /\ job \in [Proc -> Job] /\ JobOK(p, j)
    BY JobFacts DEF XInv, TypeInv, TypeOK
  <1>2. CASE k = Idle
    BY <1>2, IdleNothing DEF HostsChecked, Before
  <1>3. CASE k # Idle
    <2>1. k.app = j.app /\ k.cmd = j.cmd /\ k.man = j.man
      BY <1>1, <1>3, StepJob
    <2>2. k.pc \in Before => RouteHosts(k.man, k.cmd = "up") = RouteHosts(k.man, TRUE)
      BY <1>1, <1>3, <2>1, StepJob DEF HostsChecked
    <2>3. ASSUME k.pc = "listProxies"
          PROVE  /\ ServerHosts \subseteq k.owned
                 /\ \A b \in App \ {k.app} : \A h : RoutedVia(store'[b], "ingresses", h) => h \in k.owned
      <3>1. ListIngresses(p)
        BY <1>1, <1>3, <2>3, StepJob
      <3>2. /\ UNCHANGED store
            /\ k.owned = ServerHosts \cup UNION {Served(b, "ingresses") : b \in App \ {j.app}}
        BY <1>1, <3>1 DEF ListIngresses, Job
      <3>3. \A b \in App : \A h : RoutedVia(store[b], "ingresses", h) => h \in Served(b, "ingresses")
        BY ServedRead
      <3>4. QED
        BY <2>1, <3>2, <3>3
    <2>4. ASSUME k.pc \in {"namespace", "apply"}, NEW h \in RouteHosts(k.man, TRUE)
          PROVE  ~Others(k, store', h)
      <3>1. CASE k.pc = "apply"
        <4>1. j.pc \in {"namespace", "apply"}
          BY <1>1, <1>3, <3>1, StepJob DEF ApplyNamespace, ApplyObject
        <4>2. ~Others(j, store, h)
          BY <1>1, <2>1, <2>4, <4>1 DEF HostsChecked
        <4>3. QED
          BY <1>1, <2>1, <4>2, OthersKept
      <3>2. CASE k.pc = "namespace"
        <4>1. ListProxies(p)
          BY <1>1, <1>3, <3>2, StepJob
        <4>2. j.pc = "listProxies" /\ UNCHANGED store /\ RouteHosts(j.man, j.cmd = "up") = RouteHosts(j.man, TRUE)
          BY <1>1, <4>1 DEF ListProxies, HostsChecked, Before
        <4> DEFINE owned == j.owned \cup UNION {Served(b, "httpproxies") : b \in App \ {j.app}}
        <4>3. RouteHosts(j.man, j.cmd = "up") \cap owned = {}
          BY <1>1, <1>3, <4>1 DEF ListProxies
        <4>4. h \notin owned
          BY <2>1, <2>4, <4>2, <4>3
        <4>5. h \notin ServerHosts /\ \A b \in App \ {j.app} : ~RoutedVia(store[b], "ingresses", h)
          BY <1>1, <4>2, <4>4 DEF HostsChecked
        <4>6. \A b \in App \ {j.app} : ~RoutedVia(store[b], "httpproxies", h)
          BY <4>4, ServedRead
        <4>7. ~Others(j, store, h)
          BY <4>5, <4>6 DEF Others, RoutedBy, RoutedVia, Routing
        <4>8. QED
          BY <1>1, <2>1, <4>7, OthersKept
      <3>3. QED
        BY <2>4, <3>1, <3>2
    <2>5. QED
      BY <2>2, <2>3, <2>4 DEF HostsChecked
  <1>4. QED
    BY <1>2, <1>3

LEMMA NextXInv == OneMachine /\ Seen /\ XInv /\ [Next]_vars => XInv'
  <1> SUFFICES ASSUME OneMachine, Seen, XInv, [Next]_vars PROVE XInv'
    OBVIOUS
  <1>1. TypeInv /\ TypeInv'
    BY NextTyped DEF XInv
  <1>2. CASE UNCHANGED vars
    BY <1>1, <1>2 DEF vars, XInv
  <1>3. CASE Cluster
    <2>1. job' = job
      BY <1>1, <1>3 DEF Cluster, ConfigureBackup, Finalize, CreateClaim
    <2>2. Apart(store')
      BY <1>1, <1>3, ClusterRoutes DEF XInv, Apart
    <2>3. ASSUME NEW p \in Proc PROVE HostsChecked(job[p], store')
      <3>1. HostsChecked(job[p], store)
        BY DEF XInv
      <3>2. \A h : ~Others(job[p], store, h) => ~Others(job[p], store', h)
        BY <1>1, <1>3, ClusterRoutes DEF Others
      <3>3. QED
        BY <1>1, <1>3, <3>1, <3>2, ClusterRoutes DEF HostsChecked
    <2>4. QED
      BY <1>1, <2>1, <2>2, <2>3 DEF XInv
  <1>4. ASSUME NEW p \in Proc, Start(p) \/ Step(p) PROVE XInv'
    <2>1. HostsChecked(job'[p], store')
      BY <1>4, StartChecked, StepChecked
    <2>2. \A q \in Proc : q = p
      BY DEF OneMachine
    <2>3. \A q \in Proc : HostsChecked(job'[q], store')
      BY <2>1, <2>2
    <2>4. Apart(store')
      BY <1>4, MachineApart
    <2>5. QED
      BY <1>1, <2>3, <2>4 DEF XInv
  <1>5. QED
    BY <1>2, <1>3, <1>4 DEF Next

LEMMA InitXInv == Init => XInv
  <1> SUFFICES ASSUME Init PROVE XInv
    OBVIOUS
  <1>1. \A a \in App : \A h : ~RoutedBy(store[a], h)
    BY ObjectKinds DEF Init, RoutedBy, Empty
  <1>2. \A p \in Proc : job[p].pc = "idle"
    BY IdleNothing DEF Init
  <1>3. QED
    BY <1>1, <1>2, InitTyped DEF XInv, Apart, HostsChecked, Before

\* On a cluster deployed from one machine no host is ever routed by two apps,
\* or by an app and the server, however the commands end; if rollbacks are
\* run too, as long as no render has an Ingress.
THEOREM HostsApart == ASSUME OneMachine, Seen PROVE Spec => []HostsExclusive
  <1>1. OneMachine /\ Seen
    OBVIOUS
  <1>2. QED
    BY <1>1, InitXInv, NextXInv, XInvExclusive, PTL DEF Spec
=============================================================================

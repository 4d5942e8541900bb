---------------------------- MODULE DeployProofs ----------------------------
(***************************************************************************)
(* Theorems about Deploy, for any apps, machines, manifests and bounds.    *)
(* The invariants are stated of one job record (and the phase and store of *)
(* its app), so that a step of one machine is a statement about one new    *)
(* record and the others keep what they had.                               *)
(***************************************************************************)
EXTENDS Deploy, TLAPS

-----------------------------------------------------------------------------
(***************************************************************************)
(* Type correctness.  On its own it is not inductive: a rollback deploys   *)
(* what a release holds, and what is applied is the job's manifest, so the *)
(* job's fields have to be tied to the call the command makes next.        *)
(***************************************************************************)

Deploys(j) == j.cmd \in {"up", "rollback"}

\* The calls of deploy.Apply before and after its prune.
Before == {"listIngresses", "listProxies", "namespace"}
After  == {"readReleases", "createRelease", "trim", "copyBackup"}

\* The fields of machine p's job fit the call it makes next.
JobOK(p, j) ==
  /\ j.pc # "idle" => j.app \in WorksOn[p] /\ j.app \in App /\ j.cmd # "none"
  /\ j.pc = "idle" => j = Idle
  /\ Deploys(j) => j.man \in Manifest
  /\ ~Deploys(j) => j.man = None
  /\ j.pc \in Before \cup {"apply"} \cup After => Deploys(j)
  /\ j.pc \in {"pruneList", "pruneDelete"} => Deploys(j) \/ j.cmd = "down"
  /\ j.pc = "listClaims" => j.cmd = "down"
  /\ j.pc = "deleteNamespace" => j.cmd \in {"down", "down --volumes"}
  /\ j.gvr \in 1..Len(PrunableGVRs)
  /\ j.pc = "apply" => j.idx < Len(Render[j.man])
  /\ j.pc \in {"pruneList", "pruneDelete", "done"} \cup After =>
       (Deploys(j) => j.idx = Len(Render[j.man]))
  /\ j.pc \in Before => j.idx = 0

\* What is about to be deleted is an object of the swept resource, neither
\* jekyo's own state nor applied by this command.
DoomedOK(j) ==
  /\ j.pc = "pruneDelete" \/ j.doomed = {}
  /\ \A o \in j.doomed :
       o \in AppObject /\ o.gvr = PrunableGVRs[j.gvr] /\ o \notin Applied(j)

GoodJob(p, j) == j \in Job /\ JobOK(p, j) /\ DoomedOK(j)

TypeInv == TypeOK /\ \A p \in Proc : GoodJob(p, job[p])

\* The kinds of object are disjoint.
LEMMA ObjectKinds ==
  /\ \A n \in Revision : Release(n) \in Object /\ Release(n) \notin AppObject
                         /\ Release(n) # BackupSecret /\ ~IsClaim(Release(n))
                         /\ Spared(Release(n)) /\ IsRelease(Release(n))
  /\ \A m, n \in Revision : Release(m) = Release(n) => m = n
  /\ BackupSecret \in Object /\ BackupSecret \notin AppObject /\ ~IsClaim(BackupSecret)
  /\ AppObject \subseteq Object
  /\ \A o \in AppObject : ~IsRelease(o) /\ ~Spared(o)
  /\ \A o \in Object : ~Spared(o) => o \in AppObject
  <1> DEFINE Rec == [gvr : STRING, name : STRING, rev : {0}]
  <1>1. \A o \in AppObject : o \in Rec /\ o.rev = 0
    BY NamesAssumption
  <1>2. \A n \in Revision : n \in Nat /\ n > 0
    BY NamesAssumption DEF Revision
  <1>3. \A n \in Revision : /\ Release(n).gvr = "secrets" /\ Release(n).rev = n
                            /\ Release(n).name = "jekyo-release"
    BY DEF Release
  <1>4. BackupSecret.rev = 0 /\ BackupSecret.gvr = "secrets"
    BY DEF BackupSecret
  <1>5. \A n \in Revision : Release(n) \notin AppObject /\ Release(n) # BackupSecret
    BY <1>1, <1>2, <1>3, <1>4
  <1>6. \A m, n \in Revision : Release(m) = Release(n) => m = n
    BY <1>3
  <1>7. \A n \in Revision : ~IsClaim(Release(n)) /\ Spared(Release(n)) /\ IsRelease(Release(n))
    BY <1>2, <1>3 DEF IsClaim, Spared, IsRelease
  <1>8. ~IsClaim(BackupSecret) /\ BackupSecret \notin AppObject
    BY <1>4, NamesAssumption DEF IsClaim
  <1>9. \A o \in AppObject : ~IsRelease(o) /\ ~Spared(o)
    BY <1>1, NamesAssumption DEF IsRelease, Spared
  <1>10. \A o \in Object : o \in AppObject \/ Spared(o)
    BY <1>7, <1>4 DEF Object, Spared
  <1>11. QED
    BY <1>5, <1>6, <1>7, <1>8, <1>9, <1>10 DEF Object

\* What a manifest renders, in the words the proofs need.
LEMMA RenderFacts ==
  ASSUME NEW m \in Manifest
  PROVE  /\ Len(Render[m]) \in Nat \ {0}
         /\ \A i \in 1..Len(Render[m]) : Render[m][i] \in AppObject
         /\ ObjectsOf(m) = {Render[m][i] : i \in 1..Len(Render[m])}
         /\ ObjectsOf(m) \subseteq AppObject
  <1>1. Render[m] \in Seq(AppObject) /\ Len(Render[m]) > 0
    BY RenderAssumption
  <1>2. DOMAIN Render[m] = 1..Len(Render[m]) /\ Len(Render[m]) \in Nat
    BY <1>1
  <1>3. \A i \in 1..Len(Render[m]) : Render[m][i] \in AppObject
    BY <1>1
  <1>4. QED
    BY <1>1, <1>2, <1>3 DEF ObjectsOf, Range

LEMMA GVRCount == Len(PrunableGVRs) \in Nat \ {0}
  BY SweepAssumption

LEMMA IdleGood == ASSUME NEW p \in Proc PROVE GoodJob(p, Idle)
  <1>1. Idle \in Job
    BY SweepAssumption DEF Idle, Job, PC
  <1>2. QED
    BY <1>1, SweepAssumption DEF GoodJob, JobOK, DoomedOK, Idle, Deploys, Before, After

\* A step that changes one job, and leaves the cluster typed.
LEMMA OneJob ==
  ASSUME TypeInv, NEW q \in Proc, NEW j, job' = [job EXCEPT ![q] = j], GoodJob(q, j)
  PROVE  job' \in [Proc -> Job] /\ \A p \in Proc : GoodJob(p, job'[p])
  BY DEF TypeInv, TypeOK, GoodJob

\* A step that writes one object of one app, a credential only where one
\* belongs, leaves the store typed.
StoreOK(st) ==
  /\ st \in [App -> [Object -> Content]]
  /\ \A a \in App : /\ \A o \in AppObject : st[a][o] # Credential
                    /\ \A n \in Revision : st[a][Release(n)] # Credential

LEMMA OneObject ==
  ASSUME StoreOK(store), NEW a \in App, NEW o \in Object, NEW v \in Content,
         v # Credential \/ o = BackupSecret,
         store' = [store EXCEPT ![a][o] = v]
  PROVE  StoreOK(store')
  <1>1. store' \in [App -> [Object -> Content]]
    BY DEF StoreOK
  <1>2. ASSUME NEW b \in App, NEW x \in Object, x # BackupSecret, store[b][x] # Credential
        PROVE  store'[b][x] # Credential
    BY <1>2 DEF StoreOK
  <1>3. QED
    BY <1>1, <1>2, ObjectKinds DEF StoreOK

LEMMA TypeOKParts ==
  TypeOK <=> /\ ns \in [App -> {"absent", "active", "terminating"}]
             /\ StoreOK(store)
             /\ target \in BOOLEAN
             /\ job \in [Proc -> Job]
  BY DEF TypeOK, StoreOK

\* The next call of a prune, whichever resource it has dealt with.
LEMMA AfterSweepGood ==
  ASSUME NEW p \in Proc, NEW j, GoodJob(p, j), j.pc \in {"pruneList", "pruneDelete"}
  PROVE  GoodJob(p, AfterSweep(j))
  <1> DEFINE k == AfterSweep(j)
  <1>0. JobOK(p, j) /\ j \in Job
    BY DEF GoodJob
  <1>1. Len(PrunableGVRs) \in Nat /\ j.gvr \in 1..Len(PrunableGVRs) /\ j \in Job
    BY <1>0, GVRCount DEF JobOK
  <1>2. CASE j.gvr < Len(PrunableGVRs)
    <2> DEFINE g == j.gvr + 1
    <2>1. k = [j EXCEPT !.pc = "pruneList", !.gvr = g, !.doomed = {}]
      BY <1>2 DEF AfterSweep
    <2> HIDE DEF k
    <2>g. g \in 1..Len(PrunableGVRs) /\ g \in Nat
      BY <1>1, <1>2
    <2> HIDE DEF g
    <2>2. k \in Job /\ k.cmd = j.cmd /\ k.app = j.app /\ k.man = j.man /\ k.idx = j.idx
          /\ k.doomed = {} /\ k.gvr \in 1..Len(PrunableGVRs) /\ k.pc = "pruneList"
      BY <1>1, <2>1, <2>g DEF Job, PC
    <2>3. JobOK(p, k) /\ DoomedOK(k)
      BY <2>2 DEF GoodJob, JobOK, DoomedOK, Deploys, Before, After
    <2>4. QED
      BY <2>2, <2>3 DEF GoodJob, k
  <1>3. CASE ~(j.gvr < Len(PrunableGVRs))
    <2> DEFINE then == IF j.cmd = "down" THEN "listClaims" ELSE "readReleases"
    <2>1. k = [j EXCEPT !.pc = then, !.doomed = {}]
      BY <1>3 DEF AfterSweep
    <2>2. k \in Job /\ k.cmd = j.cmd /\ k.app = j.app /\ k.man = j.man /\ k.idx = j.idx
          /\ k.doomed = {} /\ k.gvr = j.gvr /\ k.pc = then
      BY <1>1, <2>1 DEF Job, PC
    <2>3. JobOK(p, k) /\ DoomedOK(k)
      BY <2>2 DEF GoodJob, JobOK, DoomedOK, Deploys, Before, After
    <2>4. QED
      BY <2>2, <2>3 DEF GoodJob
  <1>4. QED
    BY <1>2, <1>3

\* A deployment starts with nothing applied.
LEMMA DeployingGood ==
  ASSUME NEW p \in Proc, NEW a \in App, a \in WorksOn[p], NEW m \in Manifest,
         NEW copy \in BOOLEAN, NEW cmd \in {"up", "rollback"}
  PROVE  GoodJob(p, Deploying(cmd, a, m, copy))
  <1> DEFINE k == Deploying(cmd, a, m, copy)
  <1>1. k \in Job
    BY SweepAssumption DEF Deploying, Idle, Job, PC
  <1>2. /\ k.cmd = cmd /\ k.app = a /\ k.man = m /\ k.idx = 0 /\ k.gvr = 1 /\ k.doomed = {}
        /\ k.pc \in {"namespace", "listIngresses"}
    BY DEF Deploying, Idle
  <1> HIDE DEF k
  <1>3. JobOK(p, k)
    <2>1. k.gvr \in 1..Len(PrunableGVRs)
      BY <1>2, GVRCount
    <2>2. k.man \in Manifest /\ k.app \in WorksOn[p] /\ k.app \in App /\ Deploys(k) /\ k.cmd # "none"
      BY <1>2 DEF Deploys
    <2>3. k.pc \in {"namespace", "listIngresses"} /\ k.idx = 0
      BY <1>2
    <2>4. QED
      BY <2>1, <2>2, <2>3 DEF JobOK, Before, After
  <1>4. DoomedOK(k)
    BY <1>2 DEF DoomedOK
  <1>5. QED
    BY <1>1, <1>3, <1>4 DEF GoodJob, k

LEMMA StartTyped ==
  ASSUME TypeInv, NEW p \in Proc, Start(p)
  PROVE  TypeInv'
  <1>1. PICK a \in App : \/ \E m \in Manifest : Up(p, a, m)
                         \/ \E n \in Revision : Rollback(p, a, n)
                         \/ Down(p, a)
                         \/ DownVolumes(p, a)
    BY DEF Start
  <1>2. a \in WorksOn[p] /\ UNCHANGED <<ns, store, target>>
    BY <1>1 DEF Up, Rollback, Down, DownVolumes, Starts
  <1>3. PICK j : job' = [job EXCEPT ![p] = j] /\ GoodJob(p, j)
    <2>1. CASE \E m \in Manifest : Up(p, a, m)
      <3>1. PICK m \in Manifest : Up(p, a, m)
        BY <2>1
      <3>2. (m \in Backed /\ target) \in BOOLEAN
        OBVIOUS
      <3>3. QED
        BY <1>2, <3>1, <3>2, DeployingGood DEF Up
    <2>2. CASE \E n \in Revision : Rollback(p, a, n)
      <3>1. PICK n \in Revision : Rollback(p, a, n)
        BY <2>2
      <3>2. store[a][Release(n)] \in Manifest
        BY <3>1, ObjectKinds DEF Rollback, Releases, TypeInv, TypeOK, Content
      <3>3. QED
        BY <1>2, <3>1, <3>2, DeployingGood DEF Rollback
    <2>3. CASE Down(p, a)
      <3> DEFINE j == [Idle EXCEPT !.pc = "pruneList", !.cmd = "down", !.app = a]
      <3>1. GoodJob(p, j)
        <4>1. j \in Job
          BY DEF Idle, Job, PC
        <4>2. JobOK(p, j) /\ DoomedOK(j)
          BY <1>2, SweepAssumption DEF Idle, JobOK, DoomedOK, Deploys, Before, After
        <4>3. QED
          BY <4>1, <4>2 DEF GoodJob
      <3>2. QED
        BY <2>3, <3>1 DEF Down
    <2>4. CASE DownVolumes(p, a)
      <3> DEFINE j == [Idle EXCEPT !.pc = "deleteNamespace", !.cmd = "down --volumes", !.app = a]
      <3>1. GoodJob(p, j)
        <4>1. j \in Job
          BY DEF Idle, Job, PC
        <4>2. JobOK(p, j) /\ DoomedOK(j)
          BY <1>2, SweepAssumption DEF Idle, JobOK, DoomedOK, Deploys, Before, After
        <4>3. QED
          BY <4>1, <4>2 DEF GoodJob
      <3>2. QED
        BY <2>4, <3>1 DEF DownVolumes
    <2>5. QED
      BY <1>1, <2>1, <2>2, <2>3, <2>4
  <1>4. QED
    BY <1>2, <1>3, OneJob DEF TypeInv, TypeOK

\* A command's own step keeps the types, one case per call.
LEMMA StepTyped ==
  ASSUME TypeInv, NEW p \in Proc, Step(p)
  PROVE  TypeInv'
  <1> DEFINE j == job[p]
  <1>1. /\ j \in Job /\ JobOK(p, j) /\ DoomedOK(j) /\ GoodJob(p, j)
        /\ ns \in [App -> {"absent", "active", "terminating"}]
        /\ StoreOK(store) /\ target \in BOOLEAN /\ job \in [Proc -> Job]
    BY TypeOKParts DEF TypeInv, GoodJob
  <1>job. ASSUME NEW k, job' = [job EXCEPT ![p] = k], GoodJob(p, k)
          PROVE  job' \in [Proc -> Job] /\ \A q \in Proc : GoodJob(q, job'[q])
    BY <1>job, OneJob
  <1>same. ASSUME UNCHANGED <<ns, store, target>>, NEW k,
                  job' = [job EXCEPT ![p] = k], GoodJob(p, k)
           PROVE  TypeInv'
    BY <1>1, <1>same, <1>job DEF TypeInv, TypeOK, StoreOK
  <1>app. j.pc # "idle" => j.app \in App
    BY <1>1 DEF JobOK
  <1>write. ASSUME UNCHANGED <<ns, target>>, NEW k, job' = [job EXCEPT ![p] = k], GoodJob(p, k),
                   NEW o \in Object, NEW v \in Content, v # Credential \/ o = BackupSecret,
                   j.pc # "idle", store' = [store EXCEPT ![j.app][o] = v]
            PROVE  TypeInv'
    <2>1. StoreOK(store')
      BY <1>1, <1>app, <1>write, OneObject
    <2>2. QED
      BY <1>1, <1>write, <1>job, <2>1 DEF TypeInv, TypeOK, StoreOK
  <1>2. CASE ListIngresses(p)
    <2> DEFINE owned == ServerHosts \cup UNION {Served(b, "ingresses") : b \in App \ {j.app}}
    <2>1. owned \in SUBSET Host
      <3>1. \A b \in App : Served(b, "ingresses") \subseteq Host
        <4>1. \A b \in App : \A o \in AppObject \cap Present(b) : store[b][o] \in Manifest
          BY <1>1, ObjectKinds DEF StoreOK, Present, Content
        <4>2. QED
          BY <4>1, RenderAssumption DEF Served
      <3>2. QED
        BY <3>1, RenderAssumption
    <2> DEFINE k == [j EXCEPT !.pc = "listProxies", !.owned = owned]
    <2>2. j.pc = "listIngresses" /\ job' = [job EXCEPT ![p] = k] /\ UNCHANGED <<ns, store, target>>
      BY <1>2 DEF ListIngresses
    <2> HIDE DEF owned
    <2>3. GoodJob(p, k)
      BY <1>1, <2>1, <2>2 DEF Job, PC, GoodJob, JobOK, DoomedOK, Deploys, Before, After, Applied
    <2>4. QED
      BY <2>2, <2>3, <1>same
  <1>3. CASE ListProxies(p)
    <2> DEFINE k == [j EXCEPT !.pc = "namespace", !.owned = {}]
    <2>1. /\ j.pc = "listProxies" /\ UNCHANGED <<ns, store, target>>
          /\ job' = [job EXCEPT ![p] = k] \/ job' = [job EXCEPT ![p] = Idle]
      BY <1>3 DEF ListProxies
    <2>2. GoodJob(p, k)
      BY <1>1, <2>1 DEF Job, PC, GoodJob, JobOK, DoomedOK, Deploys, Before, After, Applied
    <2>3. QED
      BY <2>1, <2>2, IdleGood, <1>same
  <1>4. CASE ApplyNamespace(p)
    <2> DEFINE k == [j EXCEPT !.pc = "apply"]
    <2>1. /\ j.pc = "namespace" /\ UNCHANGED <<store, target>> /\ job' = [job EXCEPT ![p] = k]
          /\ ns' = [ns EXCEPT ![j.app] = IF @ = "absent" THEN "active" ELSE @]
      BY <1>4 DEF ApplyNamespace, Goto
    <2>2. j.man \in Manifest /\ j.idx < Len(Render[j.man])
      BY <1>1, <2>1, RenderFacts DEF JobOK, Before
    <2>3. GoodJob(p, k)
      BY <1>1, <2>1, <2>2 DEF Job, PC, GoodJob, JobOK, DoomedOK, Deploys, Before, After, Applied
    <2>4. ns' \in [App -> {"absent", "active", "terminating"}]
      BY <1>1, <2>1
    <2>5. QED
      BY <1>1, <1>job, <2>1, <2>3, <2>4 DEF TypeInv, TypeOK, StoreOK
  <1>5. CASE ApplyObject(p)
    <2> DEFINE i  == j.idx + 1
               o  == Render[j.man][i]
               pc == IF i = Len(Render[j.man]) THEN "pruneList" ELSE j.pc
               k  == [j EXCEPT !.idx = i, !.pc = pc]
    <2>1. /\ j.pc = "apply" /\ UNCHANGED <<ns, target>> /\ job' = [job EXCEPT ![p] = k]
          /\ store' = [store EXCEPT ![j.app][o] = j.man]
      BY <1>5 DEF ApplyObject
    <2>2. Deploys(j) /\ j.man \in Manifest /\ j.idx < Len(Render[j.man]) /\ j.idx \in Nat
      BY <1>1, <2>1 DEF JobOK, Job
    <2>3. i \in 1..Len(Render[j.man]) /\ o \in AppObject /\ i \in Nat
      BY <2>2, RenderFacts
    <2>4. pc \in {"apply", "pruneList"} /\ (pc = "apply" => i < Len(Render[j.man]))
          /\ (pc = "pruneList" => i = Len(Render[j.man]))
      BY <2>1, <2>3, <2>2, RenderFacts
    <2> HIDE DEF i, pc, o
    <2>5. GoodJob(p, k)
      BY <1>1, <2>1, <2>2, <2>3, <2>4
      DEF Job, PC, GoodJob, JobOK, DoomedOK, Deploys, Before, After
    <2>6. o \in Object /\ j.man \in Content /\ j.man # Credential
      BY <2>2, <2>3, ObjectKinds, NamesAssumption DEF Content
    <2>7. QED
      BY <2>1, <2>5, <2>6, <1>write
  <1>6. CASE PruneList(p)
    <2> DEFINE k == [j EXCEPT !.pc = "pruneDelete", !.doomed = Stale(p)]
    <2>1. /\ j.pc = "pruneList" /\ UNCHANGED <<ns, store, target>>
          /\ \/ job' = [job EXCEPT ![p] = k]
             \/ job' = [job EXCEPT ![p] = AfterSweep(j)]
      BY <1>6 DEF PruneList
    <2>2. \A o \in Stale(p) : /\ o \in AppObject /\ o.gvr = PrunableGVRs[j.gvr]
                              /\ o \notin Applied(j)
      BY ObjectKinds DEF Stale, Present
    <2>3. GoodJob(p, k)
      <3>1. k \in Job /\ Stale(p) \in SUBSET Object
        BY <1>1, <2>2, ObjectKinds DEF Job, PC
      <3>2. JobOK(p, k)
        BY <1>1, <2>1 DEF Job, JobOK, Deploys, Before, After
      <3>3. /\ k.doomed = Stale(p) /\ k.pc = "pruneDelete" /\ k.gvr = j.gvr
            /\ k.man = j.man /\ k.idx = j.idx
        BY <1>1 DEF Job
      <3>4. DoomedOK(k)
        BY <2>2, <3>3 DEF DoomedOK, Applied
      <3>5. QED
        BY <3>1, <3>2, <3>4 DEF GoodJob
    <2>4. QED
      BY <1>1, <2>1, <2>3, AfterSweepGood, <1>same
  <1>7. CASE PruneDelete(p)
    <2>0. PICK o \in j.doomed :
            /\ store' = [store EXCEPT ![j.app][o] = None]
            /\ job' = [job EXCEPT ![p] = IF j.doomed = {o} THEN AfterSweep(j)
                                         ELSE [j EXCEPT !.doomed = j.doomed \ {o}]]
      BY <1>7 DEF PruneDelete
    <2>1. /\ store' = [store EXCEPT ![j.app][o] = None]
          /\ \/ job' = [job EXCEPT ![p] = [j EXCEPT !.doomed = j.doomed \ {o}]]
             \/ job' = [job EXCEPT ![p] = AfterSweep(j)]
      BY <2>0
    <2> DEFINE k == [j EXCEPT !.doomed = j.doomed \ {o}]
    <2>2. j.pc = "pruneDelete" /\ UNCHANGED <<ns, target>>
      BY <1>7 DEF PruneDelete
    <2>3. GoodJob(p, k)
      <3>1. k \in Job
        BY <1>1 DEF Job
      <3>2. JobOK(p, k)
        BY <1>1, <2>2 DEF Job, JobOK, Deploys, Before, After
      <3>3. /\ k.doomed = j.doomed \ {o} /\ k.pc = "pruneDelete" /\ k.gvr = j.gvr
            /\ Applied(k) = Applied(j)
        BY <1>1, <2>2, ZenonT(60) DEF Job, Applied
      <3>4. DoomedOK(k)
        BY <1>1, <3>3 DEF DoomedOK
      <3>5. QED
        BY <3>1, <3>2, <3>4 DEF GoodJob
    <2>4. o \in Object /\ None \in Content /\ None # Credential
      BY <1>1, NamesAssumption DEF Job, Content
    <2>5. QED
      BY <1>1, <2>1, <2>2, <2>3, <2>4, AfterSweepGood, <1>write
  <1>8. CASE ReadReleases(p)
    <2> DEFINE k == [j EXCEPT !.pc = "createRelease", !.revs = Releases(j.app)]
    <2>1. j.pc = "readReleases" /\ UNCHANGED <<ns, store, target>> /\ job' = [job EXCEPT ![p] = k]
      BY <1>8 DEF ReadReleases
    <2>2. Releases(j.app) \in SUBSET Revision
      BY DEF Releases
    <2>3. GoodJob(p, k)
      BY <1>1, <2>1, <2>2 DEF Job, PC, GoodJob, JobOK, DoomedOK, Deploys, Before, After, Applied
    <2>4. QED
      BY <2>1, <2>3, <1>same
  <1>9. CASE CreateRelease(p)
    <2> DEFINE k == [j EXCEPT !.pc = "trim"]
    <2>1. PICK n \in Revision : store' = [store EXCEPT ![j.app][Release(n)] = j.man]
      BY <1>9 DEF CreateRelease
    <2>2. j.pc = "createRelease" /\ UNCHANGED <<ns, target>> /\ job' = [job EXCEPT ![p] = k]
      BY <1>9 DEF CreateRelease, Goto
    <2>3. GoodJob(p, k)
      BY <1>1, <2>2 DEF Job, PC, GoodJob, JobOK, DoomedOK, Deploys, Before, After, Applied
    <2>4. Release(n) \in Object /\ j.man \in Content /\ j.man # Credential
      BY <1>1, <2>2, ObjectKinds, NamesAssumption DEF JobOK, After, Content
    <2>5. QED
      BY <2>1, <2>2, <2>3, <2>4, <1>write
  <1>10. CASE TrimRelease(p)
    <2>1. PICK n \in j.revs :
            /\ store' = [store EXCEPT ![j.app][Release(n)] = None]
            /\ job' = [job EXCEPT ![p] = [j EXCEPT !.revs = j.revs \ {n}]]
      BY <1>10 DEF TrimRelease
    <2> DEFINE k == [j EXCEPT !.revs = j.revs \ {n}]
    <2>2. j.pc = "trim" /\ UNCHANGED <<ns, target>>
      BY <1>10 DEF TrimRelease
    <2>3. GoodJob(p, k)
      BY <1>1, <2>2 DEF Job, PC, GoodJob, JobOK, DoomedOK, Deploys, Before, After, Applied
    <2>4. Release(n) \in Object /\ None \in Content /\ None # Credential
      BY <1>1, ObjectKinds, NamesAssumption DEF Job, Content
    <2>5. QED
      BY <2>1, <2>2, <2>3, <2>4, <1>write
  <1>11. CASE EndTrim(p)
    <2> DEFINE pc == IF j.copy THEN "copyBackup" ELSE "done"
               k  == [j EXCEPT !.pc = pc, !.revs = {}]
    <2>1. j.pc = "trim" /\ UNCHANGED <<ns, store, target>> /\ job' = [job EXCEPT ![p] = k]
      BY <1>11 DEF EndTrim
    <2>2. pc \in {"copyBackup", "done"}
      OBVIOUS
    <2> HIDE DEF pc
    <2>3. GoodJob(p, k)
      BY <1>1, <2>1, <2>2 DEF Job, PC, GoodJob, JobOK, DoomedOK, Deploys, Before, After, Applied
    <2>4. QED
      BY <2>1, <2>3, <1>same
  <1>12. CASE CopyBackup(p)
    <2> DEFINE k == [j EXCEPT !.pc = "done"]
    <2>1. /\ j.pc = "copyBackup" /\ UNCHANGED <<ns, target>> /\ job' = [job EXCEPT ![p] = k]
          /\ store' = [store EXCEPT ![j.app][BackupSecret] = Credential]
      BY <1>12 DEF CopyBackup, Goto
    <2>2. GoodJob(p, k)
      BY <1>1, <2>1 DEF Job, PC, GoodJob, JobOK, DoomedOK, Deploys, Before, After, Applied
    <2>3. BackupSecret \in Object /\ Credential \in Content
      BY ObjectKinds DEF Content
    <2>4. QED
      BY <2>1, <2>2, <2>3, <1>write
  <1>13. CASE ListClaims(p)
    <2>1. PICK pc \in {"deleteNamespace", "done"} : job' = [job EXCEPT ![p] = [j EXCEPT !.pc = pc]]
      BY <1>13 DEF ListClaims, Goto
    <2> DEFINE k == [j EXCEPT !.pc = pc]
    <2>2. j.pc = "listClaims" /\ UNCHANGED <<ns, store, target>>
      BY <1>13 DEF ListClaims
    <2>3. GoodJob(p, k)
      BY <1>1, <2>2 DEF Job, PC, GoodJob, JobOK, DoomedOK, Deploys, Before, After, Applied
    <2>4. QED
      BY <2>1, <2>2, <2>3, <1>same
  <1>14. CASE DeleteNamespace(p)
    <2> DEFINE k == [j EXCEPT !.pc = "done"]
    <2>1. /\ j.pc = "deleteNamespace" /\ UNCHANGED <<store, target>> /\ job' = [job EXCEPT ![p] = k]
          /\ ns' = [ns EXCEPT ![j.app] = IF @ = "absent" THEN @ ELSE "terminating"]
      BY <1>14 DEF DeleteNamespace, Goto
    <2>2. GoodJob(p, k)
      BY <1>1, <2>1 DEF Job, PC, GoodJob, JobOK, DoomedOK, Deploys, Before, After, Applied
    <2>3. ns' \in [App -> {"absent", "active", "terminating"}]
      BY <1>1, <2>1
    <2>4. QED
      BY <1>1, <1>job, <2>1, <2>2, <2>3 DEF TypeInv, TypeOK, StoreOK
  <1>15. CASE Return(p) \/ Abort(p)
    BY <1>15, <1>same, IdleGood DEF Return, Abort
  <1>16. QED
    BY <1>2, <1>3, <1>4, <1>5, <1>6, <1>7, <1>8, <1>9, <1>10, <1>11, <1>12, <1>13, <1>14, <1>15
    DEF Step

LEMMA EmptyTyped == Empty \in [Object -> Content] /\ \A o \in Object : Empty[o] # Credential
  BY NamesAssumption DEF Empty, Content

\* So does whatever the rest of the cluster does.
LEMMA ClusterTyped ==
  ASSUME TypeInv, Cluster
  PROVE  TypeInv'
  <1>1. StoreOK(store) /\ ns \in [App -> {"absent", "active", "terminating"}]
    BY TypeOKParts DEF TypeInv
  <1>2. CASE ConfigureBackup
    BY <1>2 DEF ConfigureBackup, TypeInv, TypeOK
  <1>3. CASE \E a \in App : Finalize(a)
    <2>1. PICK a \in App : Finalize(a)
      BY <1>3
    <2>3. StoreOK(store')
      BY <1>1, <2>1, EmptyTyped, ObjectKinds DEF StoreOK, Finalize
    <2>4. QED
      BY <1>1, <2>1, <2>3 DEF Finalize, TypeInv, TypeOK, StoreOK
  <1>4. CASE \E a \in App : CreateClaim(a)
    <2>1. PICK a \in App : CreateClaim(a)
      BY <1>4
    <2>o. PICK o \in AppObject \cap Present(a) : \E c \in ClaimTemplates[o] :
            store' = [store EXCEPT ![a][c] = store[a][o]]
      BY <2>1 DEF CreateClaim
    <2>2. PICK c \in ClaimTemplates[o] : store' = [store EXCEPT ![a][c] = store[a][o]]
      BY <2>o
    <2>c. c \in AppObject
      <3>1. ClaimTemplates[o] \subseteq {x \in AppObject : IsClaim(x)}
        BY AppAssumption
      <3>2. QED
        BY <3>1
    <2>3. c \in Object /\ store[a][o] \in Content /\ store[a][o] # Credential
      BY <1>1, <2>c, ObjectKinds DEF StoreOK
    <2>4. StoreOK(store')
      BY <1>1, <2>2, <2>3, OneObject
    <2>5. QED
      BY <1>1, <2>1, <2>4 DEF CreateClaim, TypeInv, TypeOK, StoreOK
  <1>5. QED
    BY <1>2, <1>3, <1>4 DEF Cluster

LEMMA InitTyped == Init => TypeInv
  <1>0. Init => StoreOK(store)
    BY EmptyTyped, ObjectKinds DEF Init, StoreOK
  <1>1. Init => /\ ns \in [App -> {"absent", "active", "terminating"}]
                /\ StoreOK(store) /\ target \in BOOLEAN
                /\ \A p \in Proc : job[p] = Idle
                /\ job \in [Proc -> {Idle}]
    BY <1>0 DEF Init
  <1>2. QED
    BY <1>1, IdleGood, TypeOKParts DEF TypeInv, GoodJob

LEMMA NextTyped == TypeInv /\ [Next]_vars => TypeInv'
  <1>1. TypeInv /\ UNCHANGED vars => TypeInv'
    BY DEF TypeInv, TypeOK, vars
  <1>2. QED
    BY <1>1, StartTyped, StepTyped, ClusterTyped DEF Next

\* Every variable keeps its type, and every job the fields its next call
\* needs, with any number of machines deploying the same apps.
THEOREM TypeCorrect == Spec => []TypeInv
  BY InitTyped, NextTyped, PTL DEF Spec

THEOREM TypeSafe == Spec => []TypeOK
  <1>1. TypeInv => TypeOK
    BY DEF TypeInv
  <1>2. QED
    BY <1>1, TypeCorrect, PTL

-----------------------------------------------------------------------------
(***************************************************************************)
(* Convergence.  What a command j has achieved so far, in a namespace in   *)
(* the given phase with the objects st, if nobody else deploys its app.    *)
(***************************************************************************)

\* Unless the namespace is going, every object applied is there as applied.
Intact(j, phase, st) ==
  (Deploys(j) /\ phase = "active") => \A o \in Applied(j) : st[o] = j.man

\* Objects of a resource the command has listed are applied, doomed or gone.
Clean(j, st, gvr) ==
  \A o \in AppObject : (o.gvr = gvr /\ st[o] # None) => o \in Applied(j) \cup j.doomed

\* The resources are swept one by one, all of them before anything else.
Swept(j, st) ==
  /\ j.pc \in Before \cup {"apply"} => j.gvr = 1
  /\ j.pc \in {"pruneList", "pruneDelete"} =>
       \A i \in 1..(j.gvr - 1) : Clean(j, st, PrunableGVRs[i])
  /\ j.pc = "pruneDelete" => Clean(j, st, PrunableGVRs[j.gvr])
  /\ (j.pc \in After \cup {"listClaims", "deleteNamespace", "done"} /\ j.cmd # "down --volumes") =>
       \A i \in 1..Len(PrunableGVRs) : Clean(j, st, PrunableGVRs[i])

ReleasesIn(st) == {n \in Revision : st[Release(n)] # None}

\* The releases read are still the app's releases when the next is created;
\* once it is, it is the newest and is not trimmed.
Recorded(j, phase, st) ==
  /\ (j.pc = "createRelease" /\ phase = "active") => j.revs = ReleasesIn(st)
  /\ (j.pc \in {"trim", "copyBackup", "done"} /\ Deploys(j)) =>
       /\ phase = "active"
       /\ \E n \in ReleasesIn(st) : /\ st[Release(n)] = j.man
                                    /\ \A k \in ReleasesIn(st) : k <= n
                                    /\ n \notin j.revs

Progress(j, phase, st) == Intact(j, phase, st) /\ Swept(j, st) /\ Recorded(j, phase, st)

\* The inductive invariant.
IInv ==
  /\ TypeInv
  /\ \A p \in Proc : job[p].pc # "idle" => Progress(job[p], ns[job[p].app], store[job[p].app])

\* Machines that deploy different apps do not meet: a step of q leaves alone
\* the jobs of the others and every app q does not deploy.
LEMMA Elsewhere ==
  ASSUME TypeInv, NEW q \in Proc, Start(q) \/ Step(q)
  PROVE  /\ \A p \in Proc \ {q} : job'[p] = job[p]
         /\ \A a \in App \ WorksOn[q] : ns'[a] = ns[a] /\ store'[a] = store[a]
  <1>1. /\ job \in [Proc -> Job]
        /\ store \in [App -> [Object -> Content]]
        /\ ns \in [App -> {"absent", "active", "terminating"}]
    BY DEF TypeInv, TypeOK
  <1>2. job[q].pc # "idle" => job[q].app \in WorksOn[q]
    BY DEF TypeInv, GoodJob, JobOK
  <1>3. \A p \in Proc \ {q} : job'[p] = job[p]
    <2>1. PICK j : job' = [job EXCEPT ![q] = j]
      <3>1. CASE Start(q)
        BY <3>1 DEF Start, Up, Rollback, Down, DownVolumes
      <3>2. CASE Step(q)
        BY <3>2 DEF Step, ListIngresses, ListProxies, ApplyNamespace, ApplyObject, PruneList,
                    PruneDelete, ReadReleases, CreateRelease, TrimRelease, EndTrim, CopyBackup,
                    ListClaims, DeleteNamespace, Return, Abort, Goto
      <3>3. QED
        BY <3>1, <3>2
    <2>2. QED
      BY <1>1, <2>1
  <1>4. \/ UNCHANGED store
        \/ job[q].pc # "idle" /\ \E o, v : store' = [store EXCEPT ![job[q].app][o] = v]
    <2>1. CASE Start(q)
      BY <2>1 DEF Start, Up, Rollback, Down, DownVolumes
    <2>2. CASE ApplyObject(q)
      BY <2>2 DEF ApplyObject
    <2>3. CASE PruneDelete(q)
      BY <2>3 DEF PruneDelete
    <2>4. CASE CreateRelease(q)
      BY <2>4 DEF CreateRelease
    <2>5. CASE TrimRelease(q)
      BY <2>5 DEF TrimRelease
    <2>6. CASE CopyBackup(q)
      BY <2>6 DEF CopyBackup
    <2>7. CASE \/ ListIngresses(q) \/ ListProxies(q) \/ ApplyNamespace(q) \/ PruneList(q)
               \/ ReadReleases(q) \/ EndTrim(q) \/ ListClaims(q) \/ DeleteNamespace(q)
               \/ Return(q) \/ Abort(q)
      BY <2>7 DEF ListIngresses, ListProxies, ApplyNamespace, PruneList, ReadReleases, EndTrim,
                  ListClaims, DeleteNamespace, Return, Abort
    <2>8. QED
      BY <2>1, <2>2, <2>3, <2>4, <2>5, <2>6, <2>7 DEF Step
  <1>5. \/ UNCHANGED ns
        \/ job[q].pc # "idle" /\ \E v : ns' = [ns EXCEPT ![job[q].app] = v]
    <2>1. CASE Start(q)
      BY <2>1 DEF Start, Up, Rollback, Down, DownVolumes
    <2>2. CASE ApplyNamespace(q) \/ DeleteNamespace(q)
      BY <2>2 DEF ApplyNamespace, DeleteNamespace
    <2>3. CASE \/ ListIngresses(q) \/ ListProxies(q) \/ ApplyObject(q) \/ PruneList(q)
               \/ PruneDelete(q) \/ ReadReleases(q) \/ CreateRelease(q) \/ TrimRelease(q)
               \/ EndTrim(q) \/ CopyBackup(q) \/ ListClaims(q) \/ Return(q) \/ Abort(q)
      BY <2>3 DEF ListIngresses, ListProxies, ApplyObject, PruneList, PruneDelete, ReadReleases,
                  CreateRelease, TrimRelease, EndTrim, CopyBackup, ListClaims, Return, Abort
    <2>4. QED
      BY <2>1, <2>2, <2>3 DEF Step
  <1>6. \A a \in App \ WorksOn[q] : store'[a] = store[a]
    BY <1>1, <1>2, <1>4
  <1>7. \A a \in App \ WorksOn[q] : ns'[a] = ns[a]
    BY <1>1, <1>2, <1>5
  <1>8. QED
    BY <1>3, <1>6, <1>7

LEMMA NothingYet == 1..0 = {} /\ 1..(1 - 1) = {}
  OBVIOUS

\* Before its first object a command has achieved nothing that could be lost.
LEMMA EarlyProgress ==
  ASSUME NEW j \in Job, NEW phase, NEW st, j.idx = 0, j.gvr = 1,
         j.pc \in Before \cup {"apply", "pruneList", "deleteNamespace"},
         j.pc = "deleteNamespace" => j.cmd = "down --volumes"
  PROVE  Progress(j, phase, st)
  <1>0. 1..j.idx = {} /\ 1..(j.gvr - 1) = {}
    BY NothingYet
  <1>1. Applied(j) = {}
    BY <1>0 DEF Applied
  <1>2. Intact(j, phase, st)
    BY <1>1 DEF Intact
  <1>3. Swept(j, st)
    BY <1>0 DEF Swept, Before, After
  <1>4. Recorded(j, phase, st)
    BY DEF Recorded, Before
  <1>5. QED
    BY <1>2, <1>3, <1>4 DEF Progress

LEMMA AppliedObjects ==
  ASSUME NEW p \in Proc, NEW j, GoodJob(p, j), Deploys(j)
  PROVE  Applied(j) \subseteq AppObject
  <1>1. j.man \in Manifest /\ j.idx \in Nat
    BY DEF GoodJob, JobOK, Job
  <1>2. Len(Render[j.man]) \in Nat \ {0}
    BY <1>1, RenderFacts
  <1>3. j.idx = 0 \/ j.idx < Len(Render[j.man]) \/ j.idx = Len(Render[j.man])
    <2>0. Idle.cmd = "none"
      BY DEF Idle
    <2>1. j.pc # "idle"
      BY <2>0 DEF GoodJob, JobOK, Deploys
    <2>2. QED
      BY <2>1 DEF GoodJob, JobOK, Job, PC, Deploys, Before, After
  <1>4. j.idx <= Len(Render[j.man])
    BY <1>1, <1>2, <1>3
  <1>5. QED
    BY <1>1, <1>4, RenderFacts DEF Applied

\* A write of an object that no render holds disturbs neither what is applied
\* nor what is swept.
LEMMA OtherWrite ==
  ASSUME NEW p \in Proc, NEW j, GoodJob(p, j), NEW k, NEW phase, NEW st \in [Object -> Content],
         NEW o \in Object \ AppObject, NEW v,
         k.cmd = j.cmd, k.man = j.man, k.idx = j.idx, k.doomed = j.doomed
  PROVE  LET st2 == [st EXCEPT ![o] = v]
         IN /\ Applied(k) = Applied(j)
            /\ Intact(j, phase, st) => Intact(k, phase, st2)
            /\ \A g : Clean(j, st, g) => Clean(k, st2, g)
  <1> DEFINE st2 == [st EXCEPT ![o] = v]
  <1>1. Applied(k) = Applied(j)
    BY DEF Applied
  <1>2. Deploys(j) => Applied(j) \subseteq AppObject
    BY AppliedObjects
  <1>3. \A x \in AppObject : st2[x] = st[x]
    BY ObjectKinds
  <1>4. Intact(j, phase, st) => Intact(k, phase, st2)
    BY <1>1, <1>2, <1>3 DEF Intact, Deploys
  <1>5. \A g : Clean(j, st, g) => Clean(k, st2, g)
    BY <1>1, <1>3 DEF Clean
  <1>6. QED
    BY <1>1, <1>4, <1>5

\* Applying the next object keeps what was applied before it.
LEMMA ApplyProgress ==
  ASSUME NEW p \in Proc, NEW j, GoodJob(p, j), j.pc = "apply",
         NEW phase, NEW st \in [Object -> Content], Progress(j, phase, st),
         NEW k, k \in Job, k.cmd = j.cmd, k.man = j.man, k.idx = j.idx + 1, k.gvr = j.gvr,
         k.pc \in {"apply", "pruneList"}
  PROVE  Progress(k, phase, [st EXCEPT ![Render[j.man][j.idx + 1]] = j.man])
  <1> DEFINE i == j.idx + 1
             o == Render[j.man][i]
             st2 == [st EXCEPT ![o] = j.man]
  <1>1. j \in Job /\ JobOK(p, j)
    BY DEF GoodJob
  <1>2. j.man \in Manifest /\ j.idx \in Nat /\ j.idx < Len(Render[j.man])
    BY <1>1 DEF JobOK, Job
  <1>3. i \in 1..Len(Render[j.man]) /\ o \in Object
    BY <1>2, RenderFacts, ObjectKinds
  <1>4. \A x \in Applied(k) : x \in Applied(j) \/ x = o
    <2>1. \A n \in 1..i : n \in 1..j.idx \/ n = i
      BY <1>2
    <2>2. k.man = j.man /\ k.idx = i /\ j.man # None
      BY <1>2, NamesAssumption
    <2> HIDE DEF i
    <2>3. QED
      BY <2>1, <2>2 DEF Applied
  <1>5. Intact(k, phase, st2)
    <2>1. SUFFICES ASSUME Deploys(k), phase = "active", NEW x \in Applied(k)
                   PROVE  st2[x] = j.man
      BY DEF Intact
    <2>2. x \in Applied(j) \/ x = o
      BY <1>4
    <2>3. x = o => st2[x] = j.man
      BY <1>3
    <2>4. x \in Applied(j) => st[x] = j.man
      BY <2>1 DEF Progress, Intact, Deploys
    <2>5. x \in Applied(j) => x \in Object
      <3>1. \A n \in 1..j.idx : n \in 1..Len(Render[j.man])
        BY <1>2, RenderFacts
      <3>2. QED
        BY <1>2, <3>1, RenderFacts, ObjectKinds DEF Applied
    <2>6. QED
      BY <2>2, <2>3, <2>4, <2>5
  <1>6. Swept(k, st2)
    <2>1. k.gvr = 1
      BY DEF Progress, Swept
    <2>2. 1..(k.gvr - 1) = {}
      BY <2>1, NothingYet
    <2>3. QED
      BY <2>1, <2>2 DEF Swept, Before, After
  <1>7. Recorded(k, phase, st2)
    BY DEF Recorded
  <1>8. QED
    BY <1>5, <1>6, <1>7 DEF Progress

\* When one resource has been dealt with, the sweep is as far as its index
\* says, and at the last resource all of them are clean.
LEMMA AfterSweepProgress ==
  ASSUME NEW p \in Proc, NEW j, GoodJob(p, j), j.pc \in {"pruneList", "pruneDelete"},
         NEW phase, NEW st, Intact(j, phase, st),
         \A i \in 1..j.gvr : \A o \in AppObject :
           (o.gvr = PrunableGVRs[i] /\ st[o] # None) => o \in Applied(j)
  PROVE  Progress(AfterSweep(j), phase, st)
  <1> DEFINE k == AfterSweep(j)
  <1>1. j \in Job /\ JobOK(p, j) /\ j.gvr \in 1..Len(PrunableGVRs) /\ Len(PrunableGVRs) \in Nat
    BY GVRCount DEF GoodJob, JobOK
  <1>2. k.cmd = j.cmd /\ k.man = j.man /\ k.idx = j.idx
    BY <1>1 DEF AfterSweep, Job
  <1>3. Intact(k, phase, st) /\ Applied(k) = Applied(j)
    BY <1>2 DEF Intact, Applied, Deploys
  <1>4. CASE j.gvr < Len(PrunableGVRs)
    <2>1. k.pc = "pruneList" /\ k.gvr = j.gvr + 1
      BY <1>1, <1>4 DEF AfterSweep, Job
    <2> HIDE DEF k
    <2>2. \A i \in 1..(k.gvr - 1) : i \in 1..j.gvr
      BY <1>1, <2>1
    <2>3. Swept(k, st)
      BY <1>3, <2>1, <2>2 DEF Swept, Clean, Before, After
    <2>4. Recorded(k, phase, st)
      BY <2>1 DEF Recorded
    <2>5. QED
      BY <1>3, <2>3, <2>4 DEF Progress, k
  <1>5. CASE ~(j.gvr < Len(PrunableGVRs))
    <2>1. k.pc \in {"listClaims", "readReleases"} /\ k.gvr = j.gvr
      BY <1>1, <1>5 DEF AfterSweep, Job
    <2> HIDE DEF k
    <2>2. \A i \in 1..Len(PrunableGVRs) : i \in 1..j.gvr
      BY <1>1, <1>5
    <2>3. Swept(k, st)
      BY <1>3, <2>1, <2>2 DEF Swept, Clean, Before, After
    <2>4. Recorded(k, phase, st)
      BY <2>1 DEF Recorded
    <2>5. QED
      BY <1>3, <2>3, <2>4 DEF Progress, k
  <1>6. QED
    BY <1>4, <1>5

LEMMA SweepIndex ==
  \A n \in 1..Len(PrunableGVRs) :
    n \in Nat \ {0} /\ \A i \in 1..(n - 1) : i \in 1..Len(PrunableGVRs)
  BY GVRCount

LEMMA IdleOnce == Idle.pc = "idle"
  BY DEF Idle

\* A command's own step keeps its progress, one case per call.
LEMMA StepProgress ==
  ASSUME IInv, NEW p \in Proc, Step(p)
  PROVE  job'[p].pc # "idle" =>
           Progress(job'[p], ns'[job'[p].app], store'[job'[p].app])
  <1> DEFINE j == job[p]
             a == j.app
             k == job'[p]
  <1>1. /\ j \in Job /\ JobOK(p, j) /\ DoomedOK(j) /\ GoodJob(p, j)
        /\ ns \in [App -> {"absent", "active", "terminating"}]
        /\ store \in [App -> [Object -> Content]] /\ job \in [Proc -> Job]
    BY TypeOKParts DEF IInv, TypeInv, GoodJob, StoreOK
  <1>2. j.pc # "idle"
    BY <1>1, IdleOnce DEF Step, ListIngresses, ListProxies, ApplyNamespace, ApplyObject,
         PruneList, PruneDelete, ReadReleases, CreateRelease, TrimRelease, EndTrim, CopyBackup,
         ListClaims, DeleteNamespace, Return, Abort
  <1>3. a \in App /\ a \in WorksOn[p]
    BY <1>1, <1>2 DEF JobOK
  <1>4. Progress(j, ns[a], store[a])
    BY <1>2 DEF IInv
  <1>5. store[a] \in [Object -> Content]
    BY <1>1, <1>3
  <1>gvr. j.pc \in Before \cup {"apply"} => j.gvr = 1
    BY <1>4 DEF Progress, Swept
  <1>6. CASE ListIngresses(p)
    <2>1. j.pc = "listIngresses" /\ k.pc = "listProxies" /\ k.idx = j.idx /\ k.gvr = j.gvr
      BY <1>1, <1>6 DEF ListIngresses, Job
    <2>2. k \in Job
      BY <1>6, StepTyped DEF IInv, TypeInv, TypeOK, Step
    <2>3. j.idx = 0 /\ j.gvr = 1
      BY <1>1, <1>gvr, <2>1 DEF JobOK, Before
    <2>4. QED
      BY <2>1, <2>2, <2>3, EarlyProgress DEF Before
  <1>7. CASE ListProxies(p)
    <2>1. j.pc = "listProxies" /\ (k = Idle \/ (k.pc = "namespace" /\ k.idx = j.idx /\ k.gvr = j.gvr))
      <3>1. \/ job' = [job EXCEPT ![p].pc = "namespace", ![p].owned = {}]
            \/ job' = [job EXCEPT ![p] = Idle]
        BY <1>7 DEF ListProxies
      <3>2. j.pc = "listProxies"
        BY <1>7 DEF ListProxies
      <3>3. CASE job' = [job EXCEPT ![p].pc = "namespace", ![p].owned = {}]
        BY <1>1, <3>2, <3>3 DEF Job
      <3>4. CASE job' = [job EXCEPT ![p] = Idle]
        BY <1>1, <3>2, <3>4
      <3>5. QED
        BY <3>1, <3>3, <3>4
    <2>2. k \in Job
      BY <1>7, StepTyped DEF IInv, TypeInv, TypeOK, Step
    <2>3. j.idx = 0 /\ j.gvr = 1
      BY <1>1, <1>gvr, <2>1 DEF JobOK, Before
    <2>4. QED
      BY <2>1, <2>2, <2>3, EarlyProgress, IdleOnce DEF Before
  <1>8. CASE ApplyNamespace(p)
    <2>1. j.pc = "namespace" /\ k.pc = "apply" /\ k.idx = j.idx /\ k.gvr = j.gvr
      BY <1>1, <1>8 DEF ApplyNamespace, Goto, Job
    <2>2. k \in Job
      BY <1>8, StepTyped DEF IInv, TypeInv, TypeOK, Step
    <2>3. j.idx = 0 /\ j.gvr = 1
      BY <1>1, <1>gvr, <2>1 DEF JobOK, Before
    <2>4. QED
      BY <2>1, <2>2, <2>3, EarlyProgress DEF Before
  <1>9. CASE ApplyObject(p)
    <2> DEFINE i == j.idx + 1
               o == Render[j.man][i]
    <2>1. /\ j.pc = "apply" /\ UNCHANGED ns /\ store' = [store EXCEPT ![a][o] = j.man]
          /\ k.cmd = j.cmd /\ k.man = j.man /\ k.idx = i /\ k.gvr = j.gvr /\ k.app = a
          /\ k.pc \in {"apply", "pruneList"}
      BY <1>1, <1>9 DEF ApplyObject, Job
    <2>2. k \in Job
      BY <1>9, StepTyped DEF IInv, TypeInv, TypeOK, Step
    <2>3. store'[a] = [store[a] EXCEPT ![o] = j.man]
      BY <1>1, <1>3, <2>1
    <2>4. Progress(k, ns[a], [store[a] EXCEPT ![o] = j.man])
      BY <1>1, <1>4, <1>5, <2>1, <2>2, ApplyProgress
    <2>5. QED
      BY <2>1, <2>3, <2>4
  <1>10. CASE PruneList(p)
    <2>1. j.pc = "pruneList" /\ UNCHANGED <<ns, store>> /\ j.doomed = {}
      BY <1>1, <1>10 DEF PruneList, DoomedOK
    <2>2. \A o \in AppObject : (o.gvr = PrunableGVRs[j.gvr] /\ store[a][o] # None) =>
            o \in Applied(j) \/ o \in Stale(p)
      BY ObjectKinds DEF Stale, Present
    <2>3. \A i \in 1..(j.gvr - 1) : \A o \in AppObject :
            (o.gvr = PrunableGVRs[i] /\ store[a][o] # None) => o \in Applied(j)
      BY <1>4, <2>1 DEF Progress, Swept, Clean
    <2>4. j.gvr \in Nat \ {0}
      BY <1>1, SweepIndex DEF JobOK
    <2>5. CASE Stale(p) = {}
      <3>1. \A i \in 1..j.gvr : i \in 1..(j.gvr - 1) \/ i = j.gvr
        BY <2>4
      <3>2. \A i \in 1..j.gvr : \A o \in AppObject :
              (o.gvr = PrunableGVRs[i] /\ store[a][o] # None) => o \in Applied(j)
        BY <2>2, <2>3, <2>5, <3>1
      <3>3. k = AfterSweep(j)
        BY <1>1, <1>10, <2>5 DEF PruneList
      <3>4. k.app = a
        BY <1>1, <3>3 DEF AfterSweep, Job
      <3>5. Progress(AfterSweep(j), ns[a], store[a])
        BY <1>1, <1>4, <2>1, <3>2, AfterSweepProgress DEF Progress
      <3>6. QED
        BY <2>1, <3>3, <3>4, <3>5
    <2>6. CASE Stale(p) # {}
      <3>1. k = [j EXCEPT !.pc = "pruneDelete", !.doomed = Stale(p)]
        BY <1>1, <1>10, <2>6 DEF PruneList
      <3>2. /\ k.pc = "pruneDelete" /\ k.doomed = Stale(p) /\ k.gvr = j.gvr /\ k.app = a
            /\ k.cmd = j.cmd /\ k.man = j.man /\ k.idx = j.idx
        BY <1>1, <3>1 DEF Job
      <3> HIDE DEF k
      <3>3. Applied(k) = Applied(j)
        BY <3>2 DEF Applied
      <3>4. Intact(k, ns[a], store[a])
        BY <1>4, <3>2, <3>3 DEF Progress, Intact, Deploys
      <3>5. Swept(k, store[a])
        BY <2>2, <2>3, <3>2, <3>3 DEF Swept, Clean, Before, After
      <3>6. Recorded(k, ns[a], store[a])
        BY <3>2 DEF Recorded
      <3>7. Progress(k, ns'[k.app], store'[k.app])
        BY <2>1, <3>2, <3>4, <3>5, <3>6 DEF Progress
      <3>8. QED
        BY <3>7 DEF k
    <2>7. QED
      BY <2>5, <2>6
  <1>11. CASE PruneDelete(p)
    <2>1. PICK o \in j.doomed :
            /\ store' = [store EXCEPT ![a][o] = None]
            /\ job' = [job EXCEPT ![p] = IF j.doomed = {o} THEN AfterSweep(j)
                                         ELSE [j EXCEPT !.doomed = @ \ {o}]]
      BY <1>11 DEF PruneDelete
    <2> DEFINE st == [store[a] EXCEPT ![o] = None]
    <2>2. j.pc = "pruneDelete" /\ UNCHANGED ns /\ store'[a] = st
      BY <1>1, <1>3, <1>11, <2>1 DEF PruneDelete
    <2>3. o \in AppObject /\ o \in Object /\ o \notin Applied(j)
      BY <1>1, ObjectKinds DEF DoomedOK
    <2>4. st[o] = None /\ \A x \in Object : x # o => st[x] = store[a][x]
      BY <1>5, <2>3
    <2>5. Intact(j, ns[a], st)
      <3>1. SUFFICES ASSUME Deploys(j), ns[a] = "active", NEW x \in Applied(j) PROVE st[x] = j.man
        BY DEF Intact
      <3>2. store[a][x] = j.man /\ j.man \in Manifest /\ x # o
        BY <1>1, <1>4, <2>3, <3>1 DEF Progress, Intact, JobOK
      <3>3. x \in Object
        <4>1. j.idx = Len(Render[j.man])
          BY <1>1, <2>2, <3>1 DEF JobOK
        <4>2. QED
          BY <3>1, <3>2, <4>1, RenderFacts, ObjectKinds DEF Applied
      <3>4. QED
        BY <2>4, <3>2, <3>3
    <2> HIDE DEF st
    <2>6. j.gvr \in Nat \ {0}
      BY <1>1, SweepIndex DEF JobOK
    <2>7. \A i \in 1..(j.gvr - 1) : Clean(j, store[a], PrunableGVRs[i])
      BY <1>4, <2>2 DEF Progress, Swept
    <2>8. Clean(j, store[a], PrunableGVRs[j.gvr])
      BY <1>4, <2>2 DEF Progress, Swept
    <2>9. \A g : Clean(j, store[a], g) =>
            \A x \in AppObject : (x.gvr = g /\ st[x] # None) => x \in Applied(j) \cup (j.doomed \ {o})
      BY <2>4, ObjectKinds DEF Clean
    <2>10. CASE j.doomed = {o}
      <3>1. \A i \in 1..j.gvr : i \in 1..(j.gvr - 1) \/ i = j.gvr
        BY <2>6
      <3>2. \A i \in 1..j.gvr : \A x \in AppObject :
              (x.gvr = PrunableGVRs[i] /\ st[x] # None) => x \in Applied(j)
        BY <2>7, <2>8, <2>9, <2>10, <3>1
      <3>3. k = AfterSweep(j)
        BY <1>1, <2>1, <2>10
      <3>4. k.app = a
        BY <1>1, <3>3 DEF AfterSweep, Job
      <3>5. Progress(AfterSweep(j), ns[a], st)
        BY <1>1, <2>2, <2>5, <3>2, AfterSweepProgress
      <3>6. QED
        BY <2>2, <3>3, <3>4, <3>5
    <2>11. CASE j.doomed # {o}
      <3>1. k = [j EXCEPT !.doomed = @ \ {o}]
        BY <1>1, <2>1, <2>11
      <3>2. /\ k.pc = "pruneDelete" /\ k.doomed = j.doomed \ {o} /\ k.gvr = j.gvr /\ k.app = a
            /\ k.cmd = j.cmd /\ k.man = j.man /\ k.idx = j.idx
        BY <1>1, <2>2, <3>1 DEF Job
      <3> HIDE DEF k
      <3>3. Applied(k) = Applied(j)
        BY <3>2 DEF Applied
      <3>4. Intact(k, ns[a], st)
        BY <2>5, <3>2, <3>3 DEF Intact, Deploys
      <3>5. \A g : Clean(j, store[a], g) => Clean(k, st, g)
        BY <2>9, <3>2, <3>3 DEF Clean
      <3>6. Swept(k, st)
        BY <2>7, <2>8, <3>2, <3>5 DEF Swept, Before, After
      <3>7. Recorded(k, ns[a], st)
        BY <3>2 DEF Recorded
      <3>8. Progress(k, ns'[k.app], store'[k.app])
        BY <2>2, <3>2, <3>4, <3>6, <3>7 DEF Progress
      <3>9. QED
        BY <3>8 DEF k
    <2>12. QED
      BY <2>10, <2>11
  <1>12. CASE ReadReleases(p)
    <2>1. /\ j.pc = "readReleases" /\ k.pc = "createRelease" /\ UNCHANGED <<ns, store>>
          /\ k.revs = ReleasesIn(store[a])
          /\ k.cmd = j.cmd /\ k.man = j.man /\ k.idx = j.idx /\ k.app = a /\ k.doomed = j.doomed
      BY <1>1, <1>12 DEF ReadReleases, Releases, ReleasesIn, Job
    <2> HIDE DEF k
    <2>2. Intact(k, ns[a], store[a])
      BY <1>4, <2>1 DEF Progress, Intact, Applied, Deploys
    <2>3. Swept(k, store[a])
      BY <1>4, <2>1 DEF Progress, Swept, Clean, Applied, Before, After
    <2>4. Recorded(k, ns[a], store[a])
      BY <2>1 DEF Recorded
    <2>5. Progress(k, ns'[k.app], store'[k.app])
      BY <2>1, <2>2, <2>3, <2>4 DEF Progress
    <2>6. QED
      BY <2>5 DEF k
  <1>13. CASE CreateRelease(p)
    <2>1. PICK n \in Revision :
            /\ IsNext(n, j.revs) /\ ns[a] = "active" /\ n \notin Releases(a)
            /\ store' = [store EXCEPT ![a][Release(n)] = j.man]
      BY <1>13 DEF CreateRelease
    <2> DEFINE st == [store[a] EXCEPT ![Release(n)] = j.man]
    <2>2. /\ j.pc = "createRelease" /\ k.pc = "trim" /\ UNCHANGED ns /\ store'[a] = st
          /\ k.cmd = j.cmd /\ k.man = j.man /\ k.idx = j.idx /\ k.app = a
          /\ k.doomed = j.doomed /\ k.revs = j.revs
      BY <1>1, <1>3, <1>13, <2>1 DEF CreateRelease, Goto, Job
    <2> HIDE DEF k
    <2>3. Release(n) \in Object \ AppObject
      BY ObjectKinds
    <2>4. /\ Intact(j, ns[a], store[a]) => Intact(k, ns[a], st)
          /\ \A g : Clean(j, store[a], g) => Clean(k, st, g)
      BY <1>1, <1>5, <2>2, <2>3, OtherWrite
    <2>5. Swept(k, st)
      BY <1>4, <2>2, <2>4 DEF Progress, Swept, Before, After
    <2>6. Recorded(k, ns[a], st)
      <3>1. j.revs = ReleasesIn(store[a]) /\ n \notin j.revs
        BY <1>4, <2>1, <2>2 DEF Progress, Recorded, Releases, ReleasesIn
      <3>2. j.man \in Manifest /\ j.man # None
        BY <1>1, <2>2, NamesAssumption DEF JobOK, After
      <3>3. st[Release(n)] = j.man /\ n \in ReleasesIn(st)
        BY <1>5, <2>3, <3>2 DEF ReleasesIn
      <3>4. \A r \in ReleasesIn(st) : r \in j.revs \/ r = n
        BY <1>5, <2>3, <3>1, ObjectKinds DEF ReleasesIn
      <3>5. \A r \in ReleasesIn(st) : r <= n
        <4>1. \A r \in j.revs : r \in Nat /\ r <= n
          <5>0. j.revs \subseteq Revision
            BY <1>1 DEF Job
          <5>1. j.revs \subseteq Nat
            BY <5>0 DEF Revision
          <5>2. QED
            BY <2>1, <5>1 DEF IsNext
        <4>2. n \in Nat
          BY DEF Revision
        <4>3. QED
          BY <3>4, <4>1, <4>2
      <3> HIDE DEF st
      <3>6. QED
        BY <2>1, <2>2, <3>1, <3>3, <3>5 DEF Recorded
    <2>7. Progress(k, ns'[k.app], store'[k.app])
      BY <1>4, <2>2, <2>4, <2>5, <2>6 DEF Progress
    <2>8. QED
      BY <2>7 DEF k
  <1>14. CASE TrimRelease(p)
    <2>1. PICK n \in j.revs : /\ store' = [store EXCEPT ![a][Release(n)] = None]
                              /\ job' = [job EXCEPT ![p].revs = @ \ {n}]
      BY <1>14 DEF TrimRelease
    <2> DEFINE st == [store[a] EXCEPT ![Release(n)] = None]
    <2>2. /\ j.pc = "trim" /\ k.pc = "trim" /\ UNCHANGED ns /\ store'[a] = st
          /\ k.cmd = j.cmd /\ k.man = j.man /\ k.idx = j.idx /\ k.app = a
          /\ k.doomed = j.doomed /\ k.revs = j.revs \ {n}
      BY <1>1, <1>3, <1>14, <2>1 DEF TrimRelease, Job
    <2> HIDE DEF k
    <2>3. n \in Revision /\ Release(n) \in Object \ AppObject
      BY <1>1, ObjectKinds DEF Job
    <2>4. /\ Intact(j, ns[a], store[a]) => Intact(k, ns[a], st)
          /\ \A g : Clean(j, store[a], g) => Clean(k, st, g)
      BY <1>1, <1>5, <2>2, <2>3, OtherWrite
    <2>5. Swept(k, st)
      BY <1>4, <2>2, <2>4 DEF Progress, Swept, Before, After
    <2>6. Recorded(k, ns[a], st)
      <3>1. PICK r \in ReleasesIn(store[a]) :
              /\ store[a][Release(r)] = j.man
              /\ \A q \in ReleasesIn(store[a]) : q <= r
              /\ r \notin j.revs
        BY <1>1, <1>4, <2>2 DEF Progress, Recorded, JobOK, After
      <3>2. r \in Revision /\ Release(r) # Release(n)
        BY <2>1, <2>3, <3>1, ObjectKinds DEF ReleasesIn
      <3>3. st[Release(r)] = j.man /\ r \in ReleasesIn(st)
        BY <1>5, <2>3, <3>1, <3>2, ObjectKinds DEF ReleasesIn
      <3>4. ReleasesIn(st) \subseteq ReleasesIn(store[a])
        BY <1>5, <2>3, ObjectKinds DEF ReleasesIn
      <3>5. ns[a] = "active"
        BY <1>1, <1>4, <2>2 DEF Progress, Recorded, JobOK, After
      <3> HIDE DEF st
      <3>6. QED
        BY <2>2, <3>1, <3>3, <3>4, <3>5 DEF Recorded
    <2>7. Progress(k, ns'[k.app], store'[k.app])
      BY <1>4, <2>2, <2>4, <2>5, <2>6 DEF Progress
    <2>8. QED
      BY <2>7 DEF k
  <1>15. CASE EndTrim(p)
    <2>1. /\ j.pc = "trim" /\ k.pc \in {"copyBackup", "done"} /\ UNCHANGED <<ns, store>>
          /\ k.revs = {} /\ k.doomed = j.doomed
          /\ k.cmd = j.cmd /\ k.man = j.man /\ k.idx = j.idx /\ k.app = a
      BY <1>1, <1>15 DEF EndTrim, Job
    <2> HIDE DEF k
    <2>2. Intact(k, ns[a], store[a])
      BY <1>4, <2>1 DEF Progress, Intact, Applied, Deploys
    <2>3. Swept(k, store[a])
      BY <1>4, <2>1 DEF Progress, Swept, Clean, Applied, Before, After
    <2>4. Recorded(k, ns[a], store[a])
      BY <1>4, <2>1 DEF Progress, Recorded, Deploys
    <2>5. Progress(k, ns'[k.app], store'[k.app])
      BY <2>1, <2>2, <2>3, <2>4 DEF Progress
    <2>6. QED
      BY <2>5 DEF k
  <1>16. CASE CopyBackup(p)
    <2> DEFINE st == [store[a] EXCEPT ![BackupSecret] = Credential]
    <2>1. /\ j.pc = "copyBackup" /\ k.pc = "done" /\ UNCHANGED ns /\ store'[a] = st
          /\ k.cmd = j.cmd /\ k.man = j.man /\ k.idx = j.idx /\ k.app = a
          /\ k.doomed = j.doomed /\ k.revs = j.revs
      BY <1>1, <1>3, <1>16 DEF CopyBackup, Goto, Job
    <2> HIDE DEF k
    <2>2. /\ Intact(j, ns[a], store[a]) => Intact(k, ns[a], st)
          /\ \A g : Clean(j, store[a], g) => Clean(k, st, g)
      BY <1>1, <1>5, <2>1, ObjectKinds, OtherWrite
    <2>3. Swept(k, st)
      BY <1>4, <2>1, <2>2 DEF Progress, Swept, Before, After
    <2>4. Recorded(k, ns[a], st)
      <3>1. \A n \in Revision : st[Release(n)] = store[a][Release(n)]
        BY <1>5, ObjectKinds
      <3>2. ReleasesIn(st) = ReleasesIn(store[a])
        BY <3>1 DEF ReleasesIn
      <3> HIDE DEF st
      <3>3. \A n \in ReleasesIn(st) : st[Release(n)] = store[a][Release(n)]
        BY <3>1 DEF ReleasesIn
      <3>4. QED
        BY <1>4, <2>1, <3>2, <3>3 DEF Progress, Recorded, Deploys
    <2>5. Progress(k, ns'[k.app], store'[k.app])
      BY <1>4, <2>1, <2>2, <2>3, <2>4 DEF Progress
    <2>6. QED
      BY <2>5 DEF k
  <1>17. CASE ListClaims(p)
    <2>1. /\ j.pc = "listClaims" /\ k.pc \in {"deleteNamespace", "done"} /\ UNCHANGED <<ns, store>>
          /\ k.cmd = j.cmd /\ k.man = j.man /\ k.idx = j.idx /\ k.app = a /\ k.doomed = j.doomed
      <3>1. PICK pc \in {"deleteNamespace", "done"} : job' = [job EXCEPT ![p].pc = pc]
        BY <1>17 DEF ListClaims, Goto
      <3>2. j.pc = "listClaims" /\ UNCHANGED <<ns, store>>
        BY <1>17 DEF ListClaims
      <3>3. QED
        BY <1>1, <3>1, <3>2 DEF Job
    <2> HIDE DEF k
    <2>2. k.cmd = "down"
      BY <1>1, <2>1 DEF JobOK
    <2>3. Intact(k, ns[a], store[a]) /\ Recorded(k, ns[a], store[a])
      BY <2>1, <2>2 DEF Intact, Recorded, Deploys
    <2>4. Swept(k, store[a])
      BY <1>4, <2>1, <2>2 DEF Progress, Swept, Clean, Applied, Before, After
    <2>5. Progress(k, ns'[k.app], store'[k.app])
      BY <2>1, <2>3, <2>4 DEF Progress
    <2>6. QED
      BY <2>5 DEF k
  <1>18. CASE DeleteNamespace(p)
    <2>1. /\ j.pc = "deleteNamespace" /\ k.pc = "done" /\ UNCHANGED store
          /\ k.cmd = j.cmd /\ k.man = j.man /\ k.idx = j.idx /\ k.app = a /\ k.doomed = j.doomed
      BY <1>1, <1>18 DEF DeleteNamespace, Goto, Job
    <2> HIDE DEF k
    <2>2. k.cmd \in {"down", "down --volumes"}
      BY <1>1, <2>1 DEF JobOK
    <2>3. Intact(k, ns'[a], store[a]) /\ Recorded(k, ns'[a], store[a])
      BY <2>1, <2>2 DEF Intact, Recorded, Deploys
    <2>4. Swept(k, store[a])
      BY <1>4, <2>1, <2>2 DEF Progress, Swept, Clean, Applied, Before, After
    <2>5. Progress(k, ns'[k.app], store'[k.app])
      BY <2>1, <2>3, <2>4 DEF Progress
    <2>6. QED
      BY <2>5 DEF k
  <1>19. CASE Return(p) \/ Abort(p)
    BY <1>1, <1>19, IdleOnce DEF Return, Abort
  <1>20. QED
    BY <1>6, <1>7, <1>8, <1>9, <1>10, <1>11, <1>12, <1>13, <1>14, <1>15, <1>16, <1>17, <1>18, <1>19
    DEF Step

\* A command that starts has applied and swept nothing.
LEMMA StartProgress ==
  ASSUME IInv, NEW p \in Proc, Start(p)
  PROVE  Progress(job'[p], ns'[job'[p].app], store'[job'[p].app])
  <1> DEFINE k == job'[p]
  <1>1. k \in Job /\ job \in [Proc -> Job]
    BY StartTyped DEF IInv, TypeInv, TypeOK
  <1>2. /\ k.idx = 0 /\ k.gvr = 1
        /\ k.pc \in Before \cup {"pruneList", "deleteNamespace"}
        /\ k.pc = "deleteNamespace" => k.cmd = "down --volumes"
    <2>1. PICK a \in App : \/ \E m \in Manifest : Up(p, a, m)
                           \/ \E n \in Revision : Rollback(p, a, n)
                           \/ Down(p, a)
                           \/ DownVolumes(p, a)
      BY DEF Start
    <2>2. CASE \E m \in Manifest : Up(p, a, m)
      BY <1>1, <2>2 DEF Up, Deploying, Idle, Before
    <2>3. CASE \E n \in Revision : Rollback(p, a, n)
      BY <1>1, <2>3 DEF Rollback, Deploying, Idle, Before
    <2>4. CASE Down(p, a)
      BY <1>1, <2>4 DEF Down, Idle
    <2>5. CASE DownVolumes(p, a)
      BY <1>1, <2>5 DEF DownVolumes, Idle
    <2>6. QED
      BY <2>1, <2>2, <2>3, <2>4, <2>5
  <1>3. QED
    BY <1>1, <1>2, EarlyProgress

\* The controllers take away nothing a running command has achieved: they
\* empty only a namespace that is going, and add only claims, which no prune
\* sweeps.
LEMMA ClusterProgress ==
  ASSUME IInv, NEW p \in Proc, Cluster, job[p].pc # "idle"
  PROVE  Progress(job[p], ns'[job[p].app], store'[job[p].app])
  <1> DEFINE j == job[p]
             a == j.app
  <1>1. /\ j \in Job /\ JobOK(p, j) /\ GoodJob(p, j)
        /\ ns \in [App -> {"absent", "active", "terminating"}]
        /\ store \in [App -> [Object -> Content]]
    BY TypeOKParts DEF IInv, TypeInv, GoodJob, StoreOK
  <1>2. a \in App /\ store[a] \in [Object -> Content]
    BY <1>1 DEF JobOK
  <1>3. Progress(j, ns[a], store[a])
    BY DEF IInv
  <1>4. CASE ns'[a] = ns[a] /\ store'[a] = store[a]
    BY <1>3, <1>4
  <1>5. CASE Finalize(a)
    <2>1. ns[a] = "terminating" /\ ns'[a] = "absent" /\ store'[a] = Empty
      BY <1>1, <1>2, <1>5 DEF Finalize
    <2>2. Intact(j, ns'[a], store'[a]) /\ Recorded(j, ns'[a], store'[a])
      BY <1>3, <2>1 DEF Progress, Intact, Recorded
    <2>3. \A g : Clean(j, Empty, g)
      BY ObjectKinds DEF Clean, Empty
    <2>4. Swept(j, store'[a])
      BY <1>3, <2>1, <2>3 DEF Progress, Swept
    <2>5. QED
      BY <2>2, <2>4 DEF Progress
  <1>6. CASE CreateClaim(a)
    <2>o. PICK o \in AppObject \cap Present(a) : \E c \in ClaimTemplates[o] \ Present(a) :
            store' = [store EXCEPT ![a][c] = store[a][o]]
      BY <1>6 DEF CreateClaim
    <2>1. PICK c \in ClaimTemplates[o] \ Present(a) : store' = [store EXCEPT ![a][c] = store[a][o]]
      BY <2>o
    <2> DEFINE st == [store[a] EXCEPT ![c] = store[a][o]]
    <2>2. c \in AppObject /\ IsClaim(c) /\ c \in Object
      <3>1. ClaimTemplates[o] \in SUBSET {x \in AppObject : IsClaim(x)}
        BY AppAssumption
      <3>2. QED
        BY <3>1, ObjectKinds
    <2>3. ns[a] = "active" /\ ns'[a] = ns[a] /\ store'[a] = st /\ store[a][c] = None
      BY <1>1, <1>2, <1>6, <2>1, <2>2 DEF CreateClaim, Present
    <2>4. \A x \in Object : x # c => st[x] = store[a][x]
      BY <1>2, <2>2
    <2> HIDE DEF st
    <2>5. Intact(j, ns'[a], st)
      <3>1. SUFFICES ASSUME Deploys(j), NEW x \in Applied(j) PROVE st[x] = j.man
        BY DEF Intact
      <3>2. store[a][x] = j.man /\ j.man \in Manifest /\ x # c
        BY <1>1, <1>3, <2>3, <3>1, NamesAssumption DEF Progress, Intact, JobOK
      <3>3. x \in Object
        <4>1. Applied(j) \subseteq AppObject
          BY <1>1, <3>1, AppliedObjects
        <4>2. QED
          BY <3>1, <4>1, ObjectKinds
      <3>4. QED
        BY <2>4, <3>2, <3>3
    <2>6. \A i \in 1..Len(PrunableGVRs) : Clean(j, store[a], PrunableGVRs[i]) => Clean(j, st, PrunableGVRs[i])
      <3>1. \A i \in 1..Len(PrunableGVRs) : c.gvr # PrunableGVRs[i]
        BY <2>2, SweepAssumption DEF IsClaim, Range
      <3>2. QED
        BY <2>2, <2>4, <3>1, ObjectKinds DEF Clean
    <2>7. Swept(j, st)
      <3>1. j.gvr \in 1..Len(PrunableGVRs)
        BY <1>1 DEF JobOK
      <3>2. QED
        BY <1>3, <2>6, <3>1, SweepIndex DEF Progress, Swept
    <2>8. Recorded(j, ns'[a], st)
      <3>1. \A n \in Revision : st[Release(n)] = store[a][Release(n)]
        BY <2>2, <2>4, ObjectKinds
      <3>2. ReleasesIn(st) = ReleasesIn(store[a])
        BY <3>1 DEF ReleasesIn
      <3>3. \A n \in ReleasesIn(st) : st[Release(n)] = store[a][Release(n)]
        BY <3>1 DEF ReleasesIn
      <3>4. QED
        BY <1>3, <2>3, <3>2, <3>3 DEF Progress, Recorded
    <2>9. QED
      BY <2>3, <2>5, <2>7, <2>8 DEF Progress
  <1>7. ASSUME NEW b \in App, b # a, Finalize(b) \/ CreateClaim(b)
        PROVE  ns'[a] = ns[a] /\ store'[a] = store[a]
    BY <1>1, <1>2, <1>7 DEF Finalize, CreateClaim
  <1>8. CASE ConfigureBackup
    BY <1>4, <1>8 DEF ConfigureBackup
  <1>9. QED
    BY <1>4, <1>5, <1>6, <1>7, <1>8 DEF Cluster

LEMMA InitIInv == Init => IInv
  BY InitTyped, IdleOnce DEF Init, IInv

LEMMA NextIInv == Exclusive /\ IInv /\ [Next]_vars => IInv'
  <1> SUFFICES ASSUME Exclusive, IInv, [Next]_vars PROVE IInv'
    OBVIOUS
  <1>1. TypeInv /\ TypeInv'
    BY NextTyped DEF IInv
  <1>2. ASSUME NEW p \in Proc, job'[p].pc # "idle"
        PROVE  Progress(job'[p], ns'[job'[p].app], store'[job'[p].app])
    <2>1. CASE UNCHANGED vars
      BY <1>2, <2>1 DEF vars, IInv
    <2>2. CASE Cluster
      <3>1. job' = job
        BY <2>2 DEF Cluster, ConfigureBackup, Finalize, CreateClaim
      <3>2. QED
        BY <1>2, <2>2, <3>1, ClusterProgress
    <2>3. CASE Start(p) \/ Step(p)
      BY <1>2, <2>3, StartProgress, StepProgress
    <2>4. ASSUME NEW q \in Proc \ {p}, Start(q) \/ Step(q)
          PROVE  Progress(job'[p], ns'[job'[p].app], store'[job'[p].app])
      <3>1. job'[p] = job[p]
        BY <1>1, <2>4, Elsewhere
      <3>2. job[p].app \in WorksOn[p] /\ job[p].app \in App
        BY <1>1, <1>2, <3>1 DEF TypeInv, GoodJob, JobOK
      <3>3. job[p].app \in App \ WorksOn[q]
        BY <3>2 DEF Exclusive
      <3>4. ns'[job[p].app] = ns[job[p].app] /\ store'[job[p].app] = store[job[p].app]
        BY <1>1, <2>4, <3>3, Elsewhere
      <3>5. Progress(job[p], ns[job[p].app], store[job[p].app])
        BY <1>2, <3>1 DEF IInv
      <3>6. QED
        BY <3>1, <3>4, <3>5
    <2>5. QED
      BY <2>1, <2>2, <2>3, <2>4 DEF Next
  <1>3. QED
    BY <1>1, <1>2 DEF IInv

\* What the invariant says at the end of a sweep.
LEMMA SweptLive ==
  ASSUME TypeInv, NEW a \in App, NEW j, \A i \in 1..Len(PrunableGVRs) : Clean(j, store[a], PrunableGVRs[i]),
         j.doomed = {}
  PROVE  Live(a) \subseteq Applied(j)
  <1>1. SUFFICES ASSUME NEW o \in Live(a) PROVE o \in Applied(j)
    OBVIOUS
  <1>2. o \in AppObject /\ store[a][o] # None /\ o.gvr \in Range(PrunableGVRs)
    BY ObjectKinds DEF Live, Present
  <1>3. PICK i \in 1..Len(PrunableGVRs) : o.gvr = PrunableGVRs[i]
    BY <1>2, SweepAssumption DEF Range
  <1>4. QED
    BY <1>2, <1>3 DEF Clean

LEMMA IInvConverges == IInv => UpConverges /\ DownConverges
  <1> SUFFICES ASSUME IInv PROVE UpConverges /\ DownConverges
    OBVIOUS
  <1>1. TypeInv
    BY DEF IInv
  <1>2. ASSUME NEW p \in Proc, job[p].pc \in {"trim", "copyBackup", "done"},
               job[p].cmd # "down --volumes"
        PROVE  /\ job[p].app \in App
               /\ Progress(job[p], ns[job[p].app], store[job[p].app])
               /\ Live(job[p].app) \subseteq Applied(job[p])
    <2>1. GoodJob(p, job[p]) /\ job[p].app \in App /\ job[p].doomed = {}
      BY <1>1, <1>2 DEF TypeInv, GoodJob, JobOK, DoomedOK
    <2>2. Progress(job[p], ns[job[p].app], store[job[p].app])
      BY <1>2 DEF IInv
    <2>3. \A i \in 1..Len(PrunableGVRs) : Clean(job[p], store[job[p].app], PrunableGVRs[i])
      BY <1>2, <2>2 DEF Progress, Swept, After
    <2>4. QED
      BY <1>1, <2>1, <2>2, <2>3, SweptLive
  <1>3. DownConverges
    <2>1. SUFFICES ASSUME NEW p \in Proc, job[p].pc = "done", job[p].cmd = "down"
                   PROVE  Live(job[p].app) = {}
      BY DEF DownConverges
    <2>2. job[p].man = None
      BY <1>1, <2>1 DEF TypeInv, GoodJob, JobOK, Deploys
    <2>3. Applied(job[p]) = {}
      BY <2>2 DEF Applied
    <2>4. QED
      BY <1>2, <2>1, <2>3
  <1>4. UpConverges
    <2>1. SUFFICES ASSUME NEW p \in Proc, job[p].pc \in {"trim", "copyBackup", "done"},
                          job[p].cmd \in {"up", "rollback"}
                   PROVE  LET a == job[p].app
                          IN /\ Runs(a, job[p].man)
                             /\ \E n \in Releases(a) : /\ store[a][Release(n)] = job[p].man
                                                       /\ \A k \in Releases(a) : k <= n
      BY DEF UpConverges
    <2> DEFINE j == job[p]
               a == j.app
    <2>2. /\ a \in App /\ Live(a) \subseteq Applied(j) /\ Progress(j, ns[a], store[a])
      BY <1>2, <2>1
    <2>3. j.man \in Manifest /\ j.idx = Len(Render[j.man]) /\ Deploys(j)
      BY <1>1, <2>1 DEF TypeInv, GoodJob, JobOK, Deploys, After
    <2>4. Applied(j) = ObjectsOf(j.man)
      BY <2>3, RenderFacts, NamesAssumption DEF Applied
    <2>5. ns[a] = "active" /\ \E n \in Releases(a) : /\ store[a][Release(n)] = j.man
                                                     /\ \A k \in Releases(a) : k <= n
      BY <2>1, <2>2, <2>3 DEF Progress, Recorded, ReleasesIn, Releases
    <2>6. \A o \in ObjectsOf(j.man) : store[a][o] = j.man
      BY <2>2, <2>3, <2>4, <2>5 DEF Progress, Intact
    <2>7. QED
      BY <2>2, <2>4, <2>5, <2>6 DEF Runs
  <1>5. QED
    BY <1>3, <1>4

\* If no app is deployed from two machines, every up and rollback that gets
\* as far as recording its release has converged, whatever earlier commands
\* that ended anywhere have left behind.
THEOREM UpConvergence == ASSUME Exclusive PROVE Spec => []UpConverges
  BY InitIInv, NextIInv, IInvConverges, PTL DEF Spec

\* Under the same assumption a plain down that reports success has left
\* nothing running.
THEOREM DownConvergence == ASSUME Exclusive PROVE Spec => []DownConverges
  BY InitIInv, NextIInv, IInvConverges, PTL DEF Spec
=============================================================================

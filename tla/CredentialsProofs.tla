-------------------------- MODULE CredentialsProofs --------------------------
(***************************************************************************)
(* Proofs about Credentials, for any machines, registries, logins and      *)
(* passwords: types, what a sync leaves on both sides, that nobody's login *)
(* is lost to a command that has synced, and that the VPN passwords        *)
(* machines know keep working where one machine installs.                  *)
(***************************************************************************)
EXTENDS Credentials, TLAPS

\* An install has its password before it deploys it.
Made == \A m \in Machine : job[m].pc \in {"k3s", "manifests"} => job[m].m.vpn \in Password

TypeInv == TypeOK /\ Made

\* A command's step keeps the type of its own job and its machine's context.
LEMMA MergeType ==
  ASSUME NEW c \in Context, NEW s \in Secret
  PROVE  Merged(c, s) \in Context /\ Lacks(c, s) \in BOOLEAN
  BY DEF Merged, MergedVPN, MergedLogins, Lacks, Context, Secret, Logins

LEMMA StoredType ==
  ASSUME NEW c \in Context
  PROVE  Stored(c) \in Secret
  BY DEF Stored, Context, Secret

LEMMA AfterSyncType ==
  ASSUME NEW j \in Job
  PROVE  AfterSync(j) \in Job /\ AfterSync(j).m = j.m
  BY ZenonT(60) DEF AfterSync, Job, PC

LEMMA IdleType == Idle \in Job /\ Idle.m.vpn = NoVPN
  BY DEF Idle, Job, PC, Context, Logins, NoLogins

LEMMA InitType == Init => TypeOK
  <1>1. [vpn |-> None, logins |-> NoLogins] \in Secret
    BY DEF Secret, Logins, NoLogins
  <1>2. QED
    BY <1>1, IdleType DEF Init, TypeOK

LEMMA StartType ==
  ASSUME TypeOK, NEW m \in Machine, Start(m)
  PROVE  TypeOK'
  <1>1. contexts \in [Machine -> Context \cup {None}] /\ secret \in Secret
        /\ job \in [Machine -> Job]
    BY DEF TypeOK
  <1>2. ASSUME NEW j \in Job, Become(m, j), UNCHANGED <<k3s, admin, secret, contexts>>
        PROVE  TypeOK'
    BY <1>1, <1>2 DEF TypeOK, Become
  <1>3. contexts[m] # None => contexts[m] \in Context
    BY <1>1
  <1>4. CASE Sync(m)
    BY <1>2, <1>3, <1>4, IdleType DEF Sync, Starts, Idle, Job, PC
  <1>5. CASE ContextAdd(m)
    <2>1. PICK read \in {secret.vpn, None} :
            Become(m, [Idle EXCEPT !.pc = "saveAdd", !.cmd = "add",
                                   !.m.vpn = IF admin = None THEN NoVPN ELSE read])
      BY <1>5 DEF ContextAdd
    <2>2. "add" \in Commands
      BY <1>5 DEF ContextAdd, Starts
    <2>3. read \in Password \cup {None}
      BY <1>1 DEF Secret
    <2>4. [Idle EXCEPT !.pc = "saveAdd", !.cmd = "add",
                       !.m.vpn = IF admin = None THEN NoVPN ELSE read] \in Job
      BY <2>2, <2>3 DEF Idle, Job, PC, Context, Logins, NoLogins
    <2>5. QED
      BY <1>2, <1>5, <2>1, <2>4 DEF ContextAdd
  <1>6. ASSUME NEW h \in Host, RegistryLogout(m, h)
        PROVE  TypeOK'
    BY <1>2, <1>3, <1>6, IdleType DEF RegistryLogout, Starts, Idle, Job, PC
  <1>7. ASSUME NEW h \in Host, NEW l \in Login, RegistryLogin(m, h, l)
        PROVE  TypeOK'
    BY <1>2, <1>3, <1>7, IdleType DEF RegistryLogin, Starts, Idle, Job, PC
  <1>8. ASSUME NEW cmd \in Commands, Install(m, cmd)
        PROVE  TypeOK'
    <2> DEFINE c == IF contexts[m] = None THEN [Idle.m EXCEPT !.vpn = None]
                    ELSE [contexts[m] EXCEPT !.vpn = IF @ = NoVPN THEN None ELSE @]
    <2>1. c \in Context
      BY <1>3 DEF Idle, Context, Logins, NoLogins
    <2>2. [Idle EXCEPT !.pc = "readServer", !.cmd = cmd, !.m = c] \in Job
      BY <2>1 DEF Idle, Job, PC
    <2>3. QED
      BY <1>2, <1>8, <2>2 DEF Install
  <1>9. QED
    BY <1>4, <1>5, <1>6, <1>7, <1>8 DEF Start

LEMMA StepType ==
  ASSUME TypeOK, Made, NEW m \in Machine, Step(m)
  PROVE  TypeOK'
  <1>1. /\ contexts \in [Machine -> Context \cup {None}] /\ secret \in Secret
        /\ job \in [Machine -> Job] /\ k3s \in BOOLEAN /\ admin \in Password \cup {None}
    BY DEF TypeOK
  <1>2. job[m] \in Job /\ job[m].m \in Context
    BY <1>1 DEF Job
  <1>3. ASSUME NEW j \in Job, Become(m, j), UNCHANGED <<k3s, admin, secret, contexts>>
        PROVE  TypeOK'
    BY <1>1, <1>3 DEF TypeOK, Become
  <1>4. ASSUME NEW j \in Job, Become(m, j), UNCHANGED <<k3s, admin, secret>>,
               contexts' = [contexts EXCEPT ![m] = job[m].m]
        PROVE  TypeOK'
    BY <1>1, <1>2, <1>4 DEF TypeOK, Become
  <1>5. CASE ReadSecret(m)
    <2> DEFINE merged == [job[m] EXCEPT !.m = Merged(job[m].m, secret),
                                        !.push = Lacks(job[m].m, secret), !.synced = TRUE]
    <2>1. merged \in Job
      BY <1>1, <1>2, MergeType DEF Job
    <2>2. AfterSync(merged) \in Job
      BY <2>1, AfterSyncType
    <2>3. [merged EXCEPT !.pc = "save"] \in Job /\ [merged EXCEPT !.pc = "get"] \in Job
      BY <2>1 DEF Job, PC
    <2>4. QED
      BY <1>3, <1>5, <2>2, <2>3 DEF ReadSecret
  <1>6. CASE SaveMerged(m)
    <2>1. [job[m] EXCEPT !.pc = "get"] \in Job
      BY <1>2 DEF Job, PC
    <2>2. QED
      BY <1>2, <1>4, <1>6, <2>1, AfterSyncType DEF SaveMerged
  <1>7. CASE GetSecret(m)
    <2>1. [job[m] EXCEPT !.fresh = TRUE, !.pc = IF @ = "get" THEN "put" ELSE "pushPut"] \in Job
      BY <1>2 DEF Job, PC
    <2>2. QED
      BY <1>3, <1>7, <2>1 DEF GetSecret
  <1>8. CASE PutSecret(m)
    <2>1. Stored(job[m].m) \in Secret
      BY <1>2, StoredType
    <2>2. [job[m] EXCEPT !.pc = "done", !.fresh = FALSE] \in Job /\ AfterSync(job[m]) \in Job
      BY <1>2, AfterSyncType DEF Job, PC
    <2>3. \A n \in Machine : [job[n] EXCEPT !.synced = FALSE, !.fresh = FALSE] \in Job
      BY <1>1 DEF Job
    <2>4. job' \in [Machine -> Job]
      BY <1>8, <2>2, <2>3 DEF PutSecret
    <2>5. QED
      BY <1>1, <1>8, <2>1, <2>4 DEF PutSecret, TypeOK
  <1>9. CASE SyncFails(m)
    <2> DEFINE warned == [job[m] EXCEPT !.warned = TRUE]
    <2>1. warned \in Job
      BY <1>2 DEF Job
    <2>2. AfterSync(warned) \in Job /\ [warned EXCEPT !.pc = "done", !.fresh = FALSE] \in Job
      BY <2>1, AfterSyncType DEF Job, PC
    <2>3. QED
      BY <1>3, <1>9, <2>2 DEF SyncFails
  <1>10. CASE ChangeLogins(m)
    <2>1. [job[m] EXCEPT !.pc = "saveChange", !.m.logins[job[m].host] = job[m].login] \in Job
      BY <1>2 DEF Job, PC, Context, Logins
    <2>2. QED
      BY <1>3, <1>10, <2>1, IdleType DEF ChangeLogins
  <1>11. CASE SaveChange(m)
    <2>1. [job[m] EXCEPT !.pc = "pushGet"] \in Job
      BY <1>2 DEF Job, PC
    <2>2. QED
      BY <1>4, <1>11, <2>1 DEF SaveChange
  <1>12. CASE ReadServer(m)
    <2>1. PICK pw \in Password : Become(m, [job[m] EXCEPT !.pc = "k3s", !.m.vpn = pw])
      BY <1>12 DEF ReadServer
    <2>2. [job[m] EXCEPT !.pc = "k3s", !.m.vpn = pw] \in Job
      BY <1>2 DEF Job, PC, Context
    <2>3. QED
      BY <1>3, <1>12, <2>1, <2>2 DEF ReadServer
  <1>13. CASE InstallK3s(m)
    <2>1. [job[m] EXCEPT !.pc = "manifests"] \in Job
      BY <1>2 DEF Job, PC
    <2>2. QED
      BY <1>1, <1>13, <2>1 DEF InstallK3s, Become, TypeOK
  <1>14. CASE WriteManifests(m)
    <2>1. [job[m] EXCEPT !.pc = "saveInstall",
                         !.m.vpn = IF job[m].cmd = "install" THEN @ ELSE NoVPN] \in Job
      BY <1>2 DEF Job, PC, Context
    <2>2. job' \in [Machine -> Job]
      BY <1>1, <1>14, <2>1 DEF WriteManifests, Become
    <2>3. admin' \in Password \cup {None}
      <3>1. CASE job[m].cmd # "install"
        BY <1>1, <1>14, <3>1 DEF WriteManifests
      <3>2. CASE job[m].cmd = "install"
        BY <1>1, <1>14, <3>2 DEF WriteManifests, Made
      <3>3. QED
        BY <3>1, <3>2
    <2>4. QED
      BY <1>1, <1>14, <2>2, <2>3 DEF WriteManifests, TypeOK
  <1>15. CASE SaveContext(m)
    <2>1. [job[m] EXCEPT !.pc = "read"] \in Job
      BY <1>2 DEF Job, PC
    <2>2. QED
      BY <1>4, <1>15, <2>1 DEF SaveContext
  <1>16. CASE Return(m) \/ Abort(m)
    BY <1>3, <1>16, IdleType DEF Return, Abort
  <1>17. QED
    BY <1>5, <1>6, <1>7, <1>8, <1>9, <1>10, <1>11, <1>12, <1>13, <1>14, <1>15, <1>16 DEF Step

LEMMA StartMade ==
  ASSUME TypeInv, NEW m \in Machine, Start(m)
  PROVE  Made'
  <1>1. job \in [Machine -> Job]
    BY DEF TypeInv, TypeOK
  <1>2. ASSUME NEW j, Become(m, j), j.pc \notin {"k3s", "manifests"}
        PROVE  Made'
    BY <1>1, <1>2 DEF TypeInv, Made, Become
  <1>3. QED
    BY <1>2 DEF Start, Sync, ContextAdd, RegistryLogout, RegistryLogin, Install, Idle

LEMMA StepMade ==
  ASSUME TypeInv, NEW m \in Machine, Step(m)
  PROVE  Made'
  <1>1. job \in [Machine -> Job] /\ job[m] \in Job /\ job[m].m \in Context
    BY DEF TypeInv, TypeOK, Job
  <1>2. ASSUME NEW j, Become(m, j), j.pc \in {"k3s", "manifests"} => j.m.vpn \in Password
        PROVE  Made'
    BY <1>1, <1>2 DEF TypeInv, Made, Become
  <1>3. \A j \in Job : AfterSync(j).pc \in {"change", "done"}
    BY DEF AfterSync, Job
  <1>4. CASE ReadSecret(m)
    <2> DEFINE merged == [job[m] EXCEPT !.m = Merged(job[m].m, secret),
                                        !.push = Lacks(job[m].m, secret), !.synced = TRUE]
    <2>1. merged \in Job
      BY <1>1, MergeType DEF Job, TypeInv, TypeOK
    <2>2. AfterSync(merged).pc \in {"change", "done"}
      BY <1>3, <2>1
    <2>3. [merged EXCEPT !.pc = "save"].pc = "save" /\ [merged EXCEPT !.pc = "get"].pc = "get"
      BY <2>1 DEF Job
    <2> HIDE DEF merged
    <2>4. \/ Become(m, AfterSync(merged))
          \/ Become(m, [merged EXCEPT !.pc = "save"])
          \/ Become(m, [merged EXCEPT !.pc = "get"])
      BY <1>4 DEF ReadSecret, merged
    <2>5. QED
      BY <1>2, <2>2, <2>3, <2>4
  <1>5. CASE SaveMerged(m)
    BY <1>1, <1>2, <1>3, <1>5 DEF SaveMerged, Job
  <1>6. CASE GetSecret(m)
    BY <1>1, <1>2, <1>6 DEF GetSecret, Job
  <1>7. CASE PutSecret(m)
    <2>1. \A n \in Machine : /\ n # m => job'[n].pc = job[n].pc /\ job'[n].m = job[n].m
                             /\ n = m => job'[n].pc \in {"change", "done"}
      BY <1>1, <1>3, <1>7 DEF PutSecret, Job
    <2>2. QED
      BY <2>1 DEF TypeInv, Made
  <1>8. CASE SyncFails(m)
    <2>1. [job[m] EXCEPT !.warned = TRUE] \in Job
      BY <1>1 DEF Job
    <2>2. QED
      BY <1>2, <1>3, <1>8, <2>1 DEF SyncFails, Job
  <1>9. CASE ChangeLogins(m)
    BY <1>1, <1>2, <1>9 DEF ChangeLogins, Idle, Job
  <1>10. CASE SaveChange(m)
    BY <1>1, <1>2, <1>10 DEF SaveChange, Job
  <1>11. CASE ReadServer(m)
    BY <1>1, <1>2, <1>11 DEF ReadServer, Job, Context
  <1>12. CASE InstallK3s(m)
    BY <1>1, <1>2, <1>12 DEF InstallK3s, Job, TypeInv, Made
  <1>13. CASE WriteManifests(m)
    BY <1>1, <1>2, <1>13 DEF WriteManifests, Job
  <1>14. CASE SaveContext(m)
    BY <1>1, <1>2, <1>14 DEF SaveContext, Job
  <1>15. CASE Return(m) \/ Abort(m)
    BY <1>1, <1>2, <1>15 DEF Return, Abort, Idle
  <1>16. QED
    BY <1>4, <1>5, <1>6, <1>7, <1>8, <1>9, <1>10, <1>11, <1>12, <1>13, <1>14, <1>15 DEF Step

LEMMA TypeStep ==
  ASSUME TypeInv, [Next]_vars
  PROVE  TypeInv'
  <1>1. ASSUME NEW m \in Machine, Start(m)
        PROVE  TypeInv'
    BY <1>1, StartType, StartMade DEF TypeInv
  <1>2. ASSUME NEW m \in Machine, Step(m)
        PROVE  TypeInv'
    BY <1>2, StepType, StepMade DEF TypeInv
  <1>3. ASSUME NEW m \in Machine, ContextRemove(m)
        PROVE  TypeInv'
    BY <1>3 DEF ContextRemove, TypeInv, TypeOK, Made
  <1>4. CASE UNCHANGED vars
    BY <1>4 DEF vars, TypeInv, TypeOK, Made
  <1>5. QED
    BY <1>1, <1>2, <1>3, <1>4 DEF Next

\* Every variable keeps its type, and no install deploys a VPN without a
\* password, with any number of machines (creds.go, server.go).
THEOREM CredentialsTypeSafe == Spec => []TypeOK
  <1>1. Init => TypeInv
    BY InitType DEF Init, TypeInv, Made, Idle
  <1>2. TypeInv /\ [Next]_vars => TypeInv'
    BY TypeStep
  <1>3. TypeInv => TypeOK
    BY DEF TypeInv
  <1>4. QED
    BY <1>1, <1>2, <1>3, PTL DEF Spec

-----------------------------------------------------------------------------
(***************************************************************************)
(* What a sync achieves, for one job j, its machine's context c and the    *)
(* Secret s.                                                               *)
(***************************************************************************)

Agree(c, s) == c.logins = s.logins /\ (c.vpn # NoVPN => c.vpn = s.vpn)

\* Until its Secret is written by others a merged context has every login of
\* the server but the one the command is about to change.
SyncedJob(j, s) ==
  j.synced => \A h \in Host : s.logins[h] # None => (j.m.logins[h] = s.logins[h] \/ j.host = h)

\* The file is what is in memory before the merge and whenever the merge or
\* the change has been saved; the Secret too once there is nothing to push.
CleanJob(j, c, s) ==
  /\ j.pc = "read" => c = j.m
  /\ (j.pc \in {"get", "put", "change", "pushGet", "pushPut", "done"} /\ ~j.warned) => c = j.m
  /\ (j.synced /\ ~j.warned /\ (j.pc \in {"change", "done"} \/ (j.pc = "save" /\ ~j.push))) =>
       Agree(j.m, s)

Good(j, c, s) == SyncedJob(j, s) /\ CleanJob(j, c, s)

\* The inductive invariant.
AInv == TypeInv /\ \A m \in Machine : Good(job[m], contexts[m], secret)

LEMMA MergeAgrees ==
  ASSUME NEW c \in Context, NEW s \in Secret
  PROVE  /\ \A h \in Host : s.logins[h] # None => Merged(c, s).logins[h] = s.logins[h]
         /\ ~Lacks(c, s) => Agree(Merged(c, s), s)
  <1>1. \A h \in Host : s.logins[h] # None => Merged(c, s).logins[h] = s.logins[h]
    BY DEF Merged, MergedLogins
  <1>2. ASSUME ~Lacks(c, s) PROVE Agree(Merged(c, s), s)
    BY <1>2 DEF Lacks, Merged, MergedVPN, Agree
  <1>3. QED
    BY <1>1, <1>2

LEMMA StoredAgrees ==
  ASSUME NEW c \in Context
  PROVE  Stored(c).logins = c.logins /\ Agree(c, Stored(c))
  BY DEF Stored, Agree

LEMMA IdleGood == ASSUME NEW c, NEW s PROVE Good(Idle, c, s)
  BY DEF Idle, Good, SyncedJob, CleanJob

LEMMA AfterSyncFields ==
  ASSUME NEW j \in Job
  PROVE  LET k == AfterSync(j)
         IN  /\ k.pc \in {"change", "done"} /\ k.m = j.m /\ k.host = j.host /\ k.cmd = j.cmd
             /\ k.synced = j.synced /\ k.warned = j.warned
  BY DEF AfterSync, Job

\* A step that changes nothing but m's job and, perhaps, its context.
LEMMA AJob ==
  ASSUME AInv, TypeInv', NEW m \in Machine, NEW j, Become(m, j), UNCHANGED secret,
         NEW c, \/ contexts' = [contexts EXCEPT ![m] = c]
                \/ UNCHANGED contexts /\ c = contexts[m],
         Good(j, c, secret)
  PROVE  AInv'
  <1>1. job \in [Machine -> Job] /\ contexts \in [Machine -> Context \cup {None}]
    BY DEF AInv, TypeInv, TypeOK
  <1>2. job'[m] = j /\ contexts'[m] = c
    BY <1>1 DEF Become
  <1>3. \A n \in Machine \ {m} : job'[n] = job[n] /\ contexts'[n] = contexts[n]
    BY <1>1 DEF Become
  <1>4. ASSUME NEW n \in Machine PROVE Good(job'[n], contexts'[n], secret')
    BY <1>2, <1>3 DEF AInv
  <1>5. QED
    BY <1>4 DEF AInv

LEMMA AStart ==
  ASSUME AInv, TypeInv', NEW m \in Machine, Start(m)
  PROVE  AInv'
  <1>1. ASSUME NEW j, Become(m, j), UNCHANGED <<secret, contexts>>, j.synced = FALSE,
               \/ j.pc = "read" /\ j.m = contexts[m]
               \/ j.pc \in {"saveAdd", "readServer"}
        PROVE  AInv'
    <2>1. Good(j, contexts[m], secret)
      BY <1>1 DEF Good, SyncedJob, CleanJob
    <2>2. QED
      BY <1>1, <2>1, AJob
  <1>2. CASE Sync(m)
    BY <1>1, <1>2 DEF Sync, Idle
  <1>3. CASE ContextAdd(m)
    BY <1>1, <1>3 DEF ContextAdd, Idle
  <1>4. ASSUME NEW h \in Host, RegistryLogout(m, h) PROVE AInv'
    BY <1>1, <1>4 DEF RegistryLogout, Idle
  <1>5. ASSUME NEW h \in Host, NEW l \in Login, RegistryLogin(m, h, l) PROVE AInv'
    BY <1>1, <1>5 DEF RegistryLogin, Idle
  <1>6. ASSUME NEW cmd \in Commands, Install(m, cmd) PROVE AInv'
    BY <1>1, <1>6 DEF Install, Idle
  <1>7. QED
    BY <1>2, <1>3, <1>4, <1>5, <1>6 DEF Start

LEMMA AStep ==
  ASSUME AInv, TypeInv', NEW m \in Machine, Step(m)
  PROVE  AInv'
  <1>1. /\ job \in [Machine -> Job] /\ contexts \in [Machine -> Context \cup {None}]
        /\ secret \in Secret /\ job[m] \in Job /\ job[m].m \in Context
        /\ Good(job[m], contexts[m], secret)
    BY DEF AInv, TypeInv, TypeOK, Job
  <1>2. CASE ReadSecret(m)
    <2> DEFINE merged == [job[m] EXCEPT !.m = Merged(job[m].m, secret),
                                        !.push = Lacks(job[m].m, secret), !.synced = TRUE]
    <2>1. /\ merged \in Job /\ merged.m = Merged(job[m].m, secret) /\ merged.synced = TRUE
          /\ merged.push = Lacks(job[m].m, secret) /\ merged.host = job[m].host
      BY <1>1, MergeType DEF Job
    <2> DEFINE saved == [merged EXCEPT !.pc = "save"]
               pushed == [merged EXCEPT !.pc = "get"]
    <2>2. /\ saved.pc = "save" /\ saved.m = merged.m /\ saved.push = merged.push
          /\ pushed.pc = "get" /\ pushed.m = merged.m
      BY <2>1 DEF Job
    <2>3. \/ Become(m, saved)
          \/ Become(m, pushed) /\ merged.m = job[m].m
          \/ Become(m, AfterSync(merged)) /\ merged.m = job[m].m /\ ~merged.push
      BY <1>2 DEF ReadSecret
    <2>4. AfterSync(merged).pc \in {"change", "done"} /\ AfterSync(merged).m = merged.m
      BY <2>1, AfterSyncFields
    <2> HIDE DEF merged, saved, pushed
    <2>5. PICK j : /\ Become(m, j) /\ j.m = merged.m
                   /\ \/ j.pc = "save" /\ j.push = merged.push
                      \/ j.pc = "get" /\ merged.m = job[m].m
                      \/ j.pc \in {"change", "done"} /\ merged.m = job[m].m /\ ~merged.push
      BY <2>2, <2>3, <2>4
    <2>6. SyncedJob(j, secret)
      BY <1>1, <2>1, <2>5, MergeAgrees DEF SyncedJob
    <2>7. contexts[m] = job[m].m
      BY <1>1, <1>2 DEF ReadSecret, Good, CleanJob
    <2>8. ~merged.push => Agree(merged.m, secret)
      BY <1>1, <2>1, MergeAgrees
    <2>9. CleanJob(j, contexts[m], secret)
      BY <2>5, <2>7, <2>8 DEF CleanJob
    <2>10. QED
      BY <1>2, <2>5, <2>6, <2>9, AJob DEF ReadSecret, Good
  <1>3. CASE SaveMerged(m)
    <2>1. PICK j : /\ Become(m, j) /\ j.m = job[m].m /\ j.host = job[m].host
                   /\ j.synced = job[m].synced /\ j.warned = job[m].warned
                   /\ \/ j.pc = "get"
                      \/ j.pc \in {"change", "done"} /\ ~job[m].push
      BY <1>1, <1>3, AfterSyncFields DEF SaveMerged, Job
    <2>2. Good(j, job[m].m, secret)
      BY <1>1, <1>3, <2>1 DEF SaveMerged, Good, SyncedJob, CleanJob
    <2>3. QED
      BY <1>3, <2>1, <2>2, AJob DEF SaveMerged
  <1>4. CASE GetSecret(m)
    <2> DEFINE j == [job[m] EXCEPT !.fresh = TRUE, !.pc = IF @ = "get" THEN "put" ELSE "pushPut"]
    <2>1. Become(m, j) /\ job[m].pc \in {"get", "pushGet"} /\ UNCHANGED <<secret, contexts>>
      BY <1>4 DEF GetSecret
    <2>2. /\ j.pc \in {"put", "pushPut"} /\ j.m = job[m].m /\ j.host = job[m].host
          /\ j.synced = job[m].synced /\ j.warned = job[m].warned
      BY <1>1 DEF Job
    <2> HIDE DEF j
    <2>3. Good(j, contexts[m], secret)
      BY <1>1, <2>1, <2>2 DEF Good, SyncedJob, CleanJob
    <2>4. QED
      BY <2>1, <2>3, AJob
  <1>5. CASE PutSecret(m)
    <2>1. /\ secret' = Stored(job[m].m) /\ UNCHANGED contexts
          /\ job[m].pc \in {"put", "pushPut"}
      BY <1>5 DEF PutSecret
    <2>2. /\ job'[m].pc \in {"change", "done"} /\ job'[m].m = job[m].m
          /\ job'[m].warned = job[m].warned
      BY <1>1, <1>5, AfterSyncFields DEF PutSecret, Job
    <2>3. ASSUME NEW n \in Machine \ {m}
          PROVE  /\ ~job'[n].synced /\ job'[n].pc = job[n].pc /\ job'[n].m = job[n].m
                 /\ job'[n].warned = job[n].warned
      BY <1>1, <1>5 DEF PutSecret, Job
    <2>4. Good(job'[m], contexts'[m], secret')
      BY <1>1, <2>1, <2>2, StoredAgrees DEF Good, SyncedJob, CleanJob
    <2>5. ASSUME NEW n \in Machine \ {m}
          PROVE  Good(job'[n], contexts'[n], secret')
      <3>1. Good(job[n], contexts[n], secret)
        BY DEF AInv
      <3>2. QED
        BY <2>1, <2>3, <3>1 DEF Good, SyncedJob, CleanJob
    <2>6. QED
      BY <2>4, <2>5 DEF AInv
  <1>6. CASE SyncFails(m)
    <2> DEFINE warned == [job[m] EXCEPT !.warned = TRUE]
               ended == [warned EXCEPT !.pc = "done", !.fresh = FALSE]
    <2>1. /\ warned \in Job /\ warned.m = job[m].m /\ warned.warned = TRUE
          /\ warned.host = job[m].host /\ warned.synced = job[m].synced
      BY <1>1 DEF Job
    <2>2. /\ ended.m = job[m].m /\ ended.pc = "done" /\ ended.warned = TRUE
          /\ ended.host = job[m].host /\ ended.synced = job[m].synced
      BY <2>1 DEF Job
    <2>3. (Become(m, AfterSync(warned)) \/ Become(m, ended)) /\ UNCHANGED <<secret, contexts>>
      BY <1>6 DEF SyncFails
    <2> HIDE DEF warned, ended
    <2>4. PICK j : /\ Become(m, j) /\ j.m = job[m].m /\ j.pc \in {"change", "done"} /\ j.warned = TRUE
                   /\ j.host = job[m].host /\ j.synced = job[m].synced
      BY <2>1, <2>2, <2>3, AfterSyncFields
    <2>5. Good(j, contexts[m], secret)
      BY <1>1, <2>4 DEF Good, SyncedJob, CleanJob
    <2>6. QED
      BY <2>3, <2>4, <2>5, AJob
  <1>7. CASE ChangeLogins(m)
    <2> DEFINE j == [job[m] EXCEPT !.pc = "saveChange", !.m.logins[job[m].host] = job[m].login]
    <2>1. (Become(m, Idle) \/ Become(m, j)) /\ UNCHANGED <<secret, contexts>>
      BY <1>7 DEF ChangeLogins
    <2>2. /\ j.pc = "saveChange" /\ j.host = job[m].host /\ j.synced = job[m].synced
          /\ \A h \in Host : h # job[m].host => j.m.logins[h] = job[m].m.logins[h]
      BY <1>1 DEF Job, Context, Logins
    <2> HIDE DEF j
    <2>3. Good(j, contexts[m], secret)
      BY <1>1, <2>2 DEF Good, SyncedJob, CleanJob
    <2>4. QED
      BY <2>1, <2>3, IdleGood, AJob
  <1>8. CASE SaveChange(m)
    <2> DEFINE j == [job[m] EXCEPT !.pc = "pushGet"]
    <2>1. Become(m, j) /\ contexts' = [contexts EXCEPT ![m] = job[m].m] /\ UNCHANGED secret
      BY <1>8 DEF SaveChange
    <2>2. /\ j.pc = "pushGet" /\ j.m = job[m].m /\ j.host = job[m].host
          /\ j.synced = job[m].synced
      BY <1>1 DEF Job
    <2> HIDE DEF j
    <2>3. Good(j, job[m].m, secret)
      BY <1>1, <2>2 DEF Good, SyncedJob, CleanJob
    <2>4. QED
      BY <2>1, <2>3, AJob
  <1>9. CASE ReadServer(m) \/ InstallK3s(m) \/ WriteManifests(m)
    <2>1. PICK j : /\ Become(m, j) /\ j.m.logins = job[m].m.logins
                   /\ j.host = job[m].host /\ j.synced = job[m].synced
                   /\ j.pc \in {"k3s", "manifests", "saveInstall"}
      <3>1. CASE ReadServer(m)
        <4>1. PICK pw \in Password : Become(m, [job[m] EXCEPT !.pc = "k3s", !.m.vpn = pw])
          BY <3>1 DEF ReadServer
        <4> DEFINE j == [job[m] EXCEPT !.pc = "k3s", !.m.vpn = pw]
        <4>2. /\ j.m.logins = job[m].m.logins /\ j.host = job[m].host
              /\ j.synced = job[m].synced /\ j.pc = "k3s"
          BY <1>1 DEF Job, Context
        <4> HIDE DEF j
        <4>3. Become(m, j)
          BY <4>1 DEF j
        <4>4. QED
          BY <4>2, <4>3
      <3>2. CASE InstallK3s(m)
        BY <1>1, <3>2 DEF InstallK3s, Job
      <3>3. CASE WriteManifests(m)
        <4> DEFINE j == [job[m] EXCEPT !.pc = "saveInstall",
                                       !.m.vpn = IF job[m].cmd = "install" THEN @ ELSE NoVPN]
        <4>1. Become(m, j)
          BY <3>3 DEF WriteManifests
        <4>2. /\ j.m.logins = job[m].m.logins /\ j.host = job[m].host
              /\ j.synced = job[m].synced /\ j.pc = "saveInstall"
          BY <1>1 DEF Job, Context
        <4> HIDE DEF j
        <4>3. QED
          BY <4>1, <4>2
      <3>4. QED
        BY <1>9, <3>1, <3>2, <3>3
    <2>2. Good(j, contexts[m], secret)
      BY <1>1, <2>1 DEF Good, SyncedJob, CleanJob
    <2>3. UNCHANGED <<secret, contexts>>
      BY <1>9 DEF ReadServer, InstallK3s, WriteManifests
    <2>4. QED
      BY <2>1, <2>2, <2>3, AJob
  <1>10. CASE SaveContext(m)
    <2> DEFINE j == [job[m] EXCEPT !.pc = "read"]
    <2>1. Become(m, j) /\ contexts' = [contexts EXCEPT ![m] = job[m].m] /\ UNCHANGED secret
      BY <1>10 DEF SaveContext
    <2>2. j.pc = "read" /\ j.m = job[m].m /\ j.host = job[m].host /\ j.synced = job[m].synced
      BY <1>1 DEF Job
    <2> HIDE DEF j
    <2>3. Good(j, job[m].m, secret)
      BY <1>1, <2>2 DEF Good, SyncedJob, CleanJob
    <2>4. QED
      BY <2>1, <2>3, AJob
  <1>11. CASE Return(m) \/ Abort(m)
    BY <1>11, IdleGood, AJob DEF Return, Abort
  <1>12. QED
    BY <1>2, <1>3, <1>4, <1>5, <1>6, <1>7, <1>8, <1>9, <1>10, <1>11 DEF Step

LEMMA ANext == AInv /\ [Next]_vars => AInv'
  <1> SUFFICES ASSUME AInv, [Next]_vars PROVE AInv'
    OBVIOUS
  <1>1. TypeInv'
    BY TypeStep DEF AInv
  <1>2. ASSUME NEW m \in Machine, Start(m) \/ Step(m) PROVE AInv'
    BY <1>1, <1>2, AStart, AStep
  <1>3. ASSUME NEW m \in Machine, ContextRemove(m) PROVE AInv'
    <2>1. /\ job[m].pc = "idle" /\ contexts' = [contexts EXCEPT ![m] = None] /\ UNCHANGED <<secret, job>>
      BY <1>3 DEF ContextRemove
    <2>2. Become(m, job[m])
      BY <2>1 DEF Become, AInv, TypeInv, TypeOK
    <2>3. Good(job[m], None, secret)
      BY <2>1 DEF AInv, Good, SyncedJob, CleanJob
    <2>4. QED
      BY <1>1, <2>1, <2>2, <2>3, AJob
  <1>4. CASE UNCHANGED vars
    BY <1>1, <1>4 DEF vars, AInv
  <1>5. QED
    BY <1>2, <1>3, <1>4 DEF Next

LEMMA AInit == Init => AInv
  <1> SUFFICES ASSUME Init PROVE AInv
    OBVIOUS
  <1>1. TypeInv
    BY InitType DEF Init, TypeInv, Made, Idle
  <1>2. QED
    BY <1>1, IdleGood DEF Init, AInv

\* A command that ends without a warning and with nobody else writing
\* meanwhile leaves its machine's context and the Secret in agreement,
\* with any number of machines (syncCreds).
THEOREM SyncsAgree == Spec => []CleanCommandsAgree
  <1>1. AInv => CleanCommandsAgree
    BY DEF AInv, Good, CleanJob, Agree, CleanCommandsAgree
  <1>2. QED
    BY <1>1, AInit, ANext, PTL DEF Spec

LoginKept(h) ==
  (secret.logins[h] # None /\ secret'.logins[h] # secret.logins[h]) =>
    \E m \in Machine : PutSecret(m) /\ (job[m].synced => job[m].host = h)

LEMMA ALogins == AInv /\ [Next]_vars => [\A h \in Host : LoginKept(h)]_vars
  <1> SUFFICES ASSUME AInv, Next, NEW h \in Host,
                      secret.logins[h] # None, secret'.logins[h] # secret.logins[h]
               PROVE  \E m \in Machine : PutSecret(m) /\ (job[m].synced => job[m].host = h)
    BY DEF LoginKept
  <1>1. PICK m \in Machine : PutSecret(m)
    BY DEF Next, Start, Sync, ContextAdd, RegistryLogout, RegistryLogin, Install,
           Step, ReadSecret, SaveMerged, GetSecret, SyncFails, ChangeLogins, SaveChange,
           ReadServer, InstallK3s, WriteManifests, SaveContext, Return, Abort, ContextRemove
  <1>2. secret'.logins = job[m].m.logins
    BY <1>1 DEF PutSecret, Stored
  <1>3. job[m].synced => job[m].host = h
    BY <1>2 DEF AInv, Good, SyncedJob
  <1>4. QED
    BY <1>1, <1>3

\* A login the Secret holds is changed by no command about another registry,
\* unless its sync had failed or another machine has written since.
THEOREM LoginsKept == Spec => LoginsChange
  <1>1. QED
    BY AInit, ANext, ALogins, PTL DEF Spec, LoginsChange, LoginKept

-----------------------------------------------------------------------------
(***************************************************************************)
(* One machine, k, installs, always with the VPN, and keeps its context.   *)
(***************************************************************************)

Keeps(k) == Installers \subseteq {k} /\ k \notin Removers /\ "install --no-vpn" \notin Commands

\* A context with a VPN password.
Knows(c) == c # None /\ c.vpn \in Password

\* Until k's context has a password nobody has one but the install that is
\* making it; from then on k's context has it, every password anywhere is that
\* one, and every later install of k takes it from there.
KeptJob(k, m, j, c, pw) ==
  /\ j.pc \in {"readServer", "k3s", "manifests", "saveInstall"} => m = k /\ j.cmd = "install"
  /\ j.pc = "saveInstall" => j.m.vpn \in Password
  /\ (j.m.vpn \in Password /\ ~Knows(c)) => m = k /\ j.pc \in {"k3s", "manifests", "saveInstall"}
  /\ (j.m.vpn \in Password /\ (Knows(c) \/ j.pc = "saveInstall")) => j.m.vpn = pw
  /\ (m = k /\ Knows(c) /\ j.pc # "idle") => j.m.vpn \in Password

KeptContexts(k) ==
  /\ (secret.vpn # None \/ \E m \in Machine : Knows(contexts[m])) => Knows(contexts[k])
  /\ KnownPasswordsWork

KInv(k) ==
  /\ TypeInv
  /\ KeptContexts(k)
  /\ \A m \in Machine : KeptJob(k, m, job[m], contexts[k], admin)

LEMMA KInit ==
  ASSUME NEW k \in Machine, Init
  PROVE  KInv(k)
  <1>1. TypeInv
    BY InitType DEF Init, TypeInv, Made, Idle
  <1>2. KeptContexts(k)
    BY DEF Init, KeptContexts, KnownPasswordsWork, Knows
  <1>3. Idle.pc = "idle" /\ Idle.m.vpn \notin Password
    BY CredentialsAssumption DEF Idle
  <1>4. ASSUME NEW m \in Machine
        PROVE  KeptJob(k, m, job[m], contexts[k], admin)
    BY <1>3 DEF Init, KeptJob
  <1>5. QED
    BY <1>1, <1>2, <1>4 DEF KInv

\* A step that changes nothing but m's job has only that job to account for.
LEMMA KJob ==
  ASSUME NEW k \in Machine, KInv(k), TypeInv', NEW m \in Machine, NEW j, Become(m, j),
         UNCHANGED <<admin, secret, contexts>>, KeptJob(k, m, j, contexts[k], admin)
  PROVE  KInv(k)'
  <1>1. job \in [Machine -> Job]
    BY DEF KInv, TypeInv, TypeOK
  <1>2. KeptContexts(k)'
    BY DEF KInv, KeptContexts, KnownPasswordsWork, Knows
  <1>3. ASSUME NEW n \in Machine
        PROVE  KeptJob(k, n, job'[n], contexts'[k], admin')
    <2>1. CASE n = m
      BY <1>1, <2>1 DEF Become
    <2>2. CASE n # m
      BY <1>1, <2>2 DEF Become, KInv
    <2>3. QED
      BY <2>1, <2>2
  <1>4. QED
    BY <1>2, <1>3 DEF KInv

\* A step that saves m's context in memory, after an install or a sync.
LEMMA KSave ==
  ASSUME NEW k \in Machine, KInv(k), TypeInv', NEW m \in Machine, NEW j, Become(m, j),
         UNCHANGED <<admin, secret>>, contexts' = [contexts EXCEPT ![m] = job[m].m],
         job[m].pc \in {"save", "saveChange", "saveInstall", "saveAdd"},
         j.m = job[m].m,
         j.pc \notin {"readServer", "k3s", "manifests", "saveInstall"}
  PROVE  KInv(k)'
  <1>1. /\ job \in [Machine -> Job] /\ contexts \in [Machine -> Context \cup {None}]
        /\ job[m] \in Job /\ job[m].m \in Context
    BY DEF KInv, TypeInv, TypeOK, Job
  <1>2. job[m].m # None
    BY <1>1, CredentialsAssumption DEF KInv, TypeInv
  <1>3. KeptJob(k, m, job[m], contexts[k], admin)
    BY DEF KInv
  <1>4. job[m].m.vpn \in Password => job[m].m.vpn = admin
    BY <1>3 DEF KeptJob
  <1>5. /\ Knows(contexts[k]) => Knows(contexts'[k])
        /\ Knows(job[m].m) => Knows(contexts'[k])
    BY <1>1, <1>2, <1>3 DEF KeptJob, Knows
  <1>6. KeptContexts(k)'
    <2>1. \A n \in Machine : contexts'[n] = IF n = m THEN job[m].m ELSE contexts[n]
      BY <1>1
    <2>2. KeptContexts(k)
      BY DEF KInv
    <2>3. (secret.vpn # None \/ \E n \in Machine : Knows(contexts'[n])) => Knows(contexts'[k])
      BY <1>5, <2>1, <2>2 DEF KeptContexts
    <2>4. KnownPasswordsWork'
      BY <1>4, <2>1, <2>2 DEF KeptContexts, KnownPasswordsWork
    <2>5. QED
      BY <2>3, <2>4 DEF KeptContexts, Knows
  <1>7. ASSUME NEW n \in Machine
        PROVE  KeptJob(k, n, job'[n], contexts'[k], admin')
    <2>1. KeptJob(k, n, job[n], contexts[k], admin)
      BY DEF KInv
    <2>2. CASE n = m
      <3>1. job'[n] = j
        BY <1>1, <2>2 DEF Become
      <3>2. m = k => contexts'[k] = job[m].m
        BY <1>1
      <3>3. m # k => contexts'[k] = contexts[k]
        BY <1>1
      <3>4. QED
        BY <1>2, <1>3, <1>4, <2>2, <3>1, <3>2, <3>3 DEF KeptJob, Knows
    <2>3. CASE n # m
      <3>1. job'[n] = job[n]
        BY <1>1, <2>3 DEF Become
      <3>2. CASE m # k
        <4>1. contexts'[k] = contexts[k]
          BY <1>1, <3>2
        <4>2. QED
          BY <2>1, <3>1, <4>1
      <3>3. CASE m = k
        BY <1>5, <2>1, <2>3, <3>1, <3>3 DEF KeptJob
      <3>4. QED
        BY <3>2, <3>3
    <2>4. QED
      BY <2>2, <2>3
  <1>8. QED
    BY <1>6, <1>7 DEF KInv

LEMMA KStart ==
  ASSUME NEW k \in Machine, Keeps(k), KInv(k), TypeInv', NEW m \in Machine, Start(m)
  PROVE  KInv(k)'
  <1>1. /\ job \in [Machine -> Job] /\ contexts \in [Machine -> Context \cup {None}]
        /\ secret \in Secret
    BY DEF KInv, TypeInv, TypeOK
  <1>2. job[m].pc = "idle" /\ KeptContexts(k)
    BY DEF KInv, Start, Sync, ContextAdd, RegistryLogout, RegistryLogin, Install, Starts
  <1>3. Idle.m.vpn \notin Password /\ Idle.m = [vpn |-> NoVPN, logins |-> NoLogins]
    BY CredentialsAssumption DEF Idle
  <1>4. ASSUME contexts[m] # None
        PROVE  /\ contexts[m].vpn \in Password => Knows(contexts[k]) /\ contexts[m].vpn = admin
               /\ m = k /\ Knows(contexts[k]) => contexts[m].vpn \in Password
    BY <1>2, <1>4 DEF KeptContexts, KnownPasswordsWork, Knows
  <1>5. ASSUME NEW j, Become(m, j), UNCHANGED <<admin, secret, contexts>>,
               contexts[m] # None, j.pc = "read", j.m = contexts[m]
        PROVE  KInv(k)'
    <2>1. KeptJob(k, m, j, contexts[k], admin)
      BY <1>4, <1>5 DEF KeptJob
    <2>2. QED
      BY <1>5, <2>1, KJob
  <1>6. CASE Sync(m)
    BY <1>5, <1>6 DEF Sync, Idle
  <1>7. ASSUME NEW h \in Host, RegistryLogout(m, h)
        PROVE  KInv(k)'
    BY <1>5, <1>7 DEF RegistryLogout, Idle
  <1>8. ASSUME NEW h \in Host, NEW l \in Login, RegistryLogin(m, h, l)
        PROVE  KInv(k)'
    BY <1>5, <1>8 DEF RegistryLogin, Idle
  <1>9. CASE ContextAdd(m)
    <2>1. PICK read \in {secret.vpn, None} :
            Become(m, [Idle EXCEPT !.pc = "saveAdd", !.cmd = "add",
                                   !.m.vpn = IF admin = None THEN NoVPN ELSE read])
      BY <1>9 DEF ContextAdd
    <2> DEFINE j == [Idle EXCEPT !.pc = "saveAdd", !.cmd = "add",
                                 !.m.vpn = IF admin = None THEN NoVPN ELSE read]
    <2>2. j.pc = "saveAdd" /\ j.m.vpn = IF admin = None THEN NoVPN ELSE read
      BY DEF Idle
    <2>3. j.m.vpn \in Password => secret.vpn # None /\ j.m.vpn = secret.vpn
      BY <2>1, <2>2, CredentialsAssumption
    <2>4. m = k => ~Knows(contexts[k])
      BY <1>9 DEF ContextAdd, Knows
    <2>5. KeptJob(k, m, j, contexts[k], admin)
      BY <1>2, <2>2, <2>3, <2>4 DEF KeptJob, KeptContexts, KnownPasswordsWork
    <2>6. QED
      BY <1>9, <2>1, <2>5, KJob DEF ContextAdd
  <1>10. ASSUME NEW cmd \in Commands, Install(m, cmd)
         PROVE  KInv(k)'
    <2> DEFINE c == IF contexts[m] = None THEN [Idle.m EXCEPT !.vpn = None]
                    ELSE [contexts[m] EXCEPT !.vpn = IF @ = NoVPN THEN None ELSE @]
               j == [Idle EXCEPT !.pc = "readServer", !.cmd = cmd, !.m = c]
    <2>1. m = k /\ cmd = "install" /\ Become(m, j)
      BY <1>10 DEF Install, Keeps
    <2>2. j.pc = "readServer" /\ j.cmd = cmd /\ j.m = c
      BY DEF Idle
    <2>3. /\ c.vpn \in Password => contexts[m] # None /\ c.vpn = contexts[m].vpn
          /\ contexts[m] # None /\ contexts[m].vpn \in Password => c.vpn = contexts[m].vpn
      <3>1. CASE contexts[m] = None
        BY <1>3, <3>1, CredentialsAssumption
      <3>2. CASE contexts[m] # None
        BY <1>1, <3>2, CredentialsAssumption DEF Context
      <3>3. QED
        BY <3>1, <3>2
    <2> HIDE DEF c, j
    <2>4. KeptJob(k, m, j, contexts[k], admin)
      BY <1>4, <2>1, <2>2, <2>3 DEF KeptJob, Knows
    <2>5. QED
      BY <1>10, <2>1, <2>4, KJob DEF Install
  <1>11. QED
    BY <1>6, <1>7, <1>8, <1>9, <1>10 DEF Start

\* A command that goes on with the password it had, not yet to deploy it.
LEMMA KSame ==
  ASSUME NEW k \in Machine, KInv(k), NEW m \in Machine, NEW j, j.m.vpn = job[m].m.vpn,
         job[m].pc \notin {"idle", "k3s", "manifests", "saveInstall"},
         j.pc \notin {"readServer", "k3s", "manifests", "saveInstall"}
  PROVE  KeptJob(k, m, j, contexts[k], admin)
  BY DEF KInv, KeptJob

LEMMA KStep ==
  ASSUME NEW k \in Machine, Keeps(k), KInv(k), TypeInv', NEW m \in Machine, Step(m)
  PROVE  KInv(k)'
  <1>1. /\ job \in [Machine -> Job] /\ contexts \in [Machine -> Context \cup {None}]
        /\ secret \in Secret /\ job[m] \in Job /\ job[m].m \in Context
    BY DEF KInv, TypeInv, TypeOK, Job
  <1>2. KeptJob(k, m, job[m], contexts[k], admin) /\ KeptContexts(k)
    BY DEF KInv
  <1>3. ASSUME NEW j \in Job
        PROVE  AfterSync(j).pc \in {"change", "done"} /\ AfterSync(j).m = j.m
    BY DEF AfterSync, Job
  <1>4. CASE ReadSecret(m)
    <2> DEFINE merged == [job[m] EXCEPT !.m = Merged(job[m].m, secret),
                                        !.push = Lacks(job[m].m, secret), !.synced = TRUE]
    <2>1. merged \in Job /\ merged.m.vpn = MergedVPN(job[m].m, secret)
      BY <1>1, MergeType DEF Job, Merged
    <2>2. AfterSync(merged).pc \in {"change", "done"} /\ AfterSync(merged).m = merged.m
      BY <1>3, <2>1
    <2>3. /\ [merged EXCEPT !.pc = "save"].pc = "save" /\ [merged EXCEPT !.pc = "save"].m = merged.m
          /\ [merged EXCEPT !.pc = "get"].pc = "get" /\ [merged EXCEPT !.pc = "get"].m = merged.m
      BY <2>1 DEF Job
    <2> HIDE DEF merged
    <2>4. \/ Become(m, AfterSync(merged))
          \/ Become(m, [merged EXCEPT !.pc = "save"])
          \/ Become(m, [merged EXCEPT !.pc = "get"])
      BY <1>4 DEF ReadSecret, merged
    <2>5. PICK j : Become(m, j) /\ j.m = merged.m /\ j.pc \in {"change", "done", "save", "get"}
      BY <2>2, <2>3, <2>4
    <2>6. CASE merged.m.vpn = job[m].m.vpn
      <3>1. KeptJob(k, m, j, contexts[k], admin)
        BY <1>4, <2>5, <2>6, KSame DEF ReadSecret
      <3>2. QED
        BY <1>4, <2>5, <3>1, KJob DEF ReadSecret
    <2>7. CASE merged.m.vpn # job[m].m.vpn
      <3>1. secret.vpn # None /\ merged.m.vpn = secret.vpn
        BY <2>1, <2>7 DEF MergedVPN
      <3>2. Knows(contexts[k]) /\ merged.m.vpn = admin /\ merged.m.vpn \in Password
        BY <1>1, <1>2, <3>1 DEF KeptContexts, KnownPasswordsWork, Secret
      <3>3. KeptJob(k, m, j, contexts[k], admin)
        BY <2>5, <3>2 DEF KeptJob
      <3>4. QED
        BY <1>4, <2>5, <3>3, KJob DEF ReadSecret
    <2>8. QED
      BY <2>6, <2>7
  <1>5. CASE SaveMerged(m)
    <2>1. PICK j : Become(m, j) /\ j.m = job[m].m /\ j.pc \in {"change", "done", "get"}
      BY <1>1, <1>3, <1>5 DEF SaveMerged, Job
    <2>2. QED
      BY <1>5, <2>1, KSave DEF SaveMerged
  <1>6. CASE GetSecret(m)
    <2> DEFINE j == [job[m] EXCEPT !.fresh = TRUE, !.pc = IF @ = "get" THEN "put" ELSE "pushPut"]
    <2>a. Become(m, j)
      BY <1>6 DEF GetSecret
    <2>1. Become(m, j) /\ j.m = job[m].m /\ j.pc \in {"put", "pushPut"}
      BY <1>1, <2>a DEF Job
    <2> HIDE DEF j
    <2>2. KeptJob(k, m, j, contexts[k], admin)
      BY <1>6, <2>1, KSame DEF GetSecret
    <2>3. QED
      BY <1>6, <2>1, <2>2, KJob DEF GetSecret
  <1>7. CASE PutSecret(m)
    <2>1. job'[m].m = job[m].m /\ job'[m].pc \in {"change", "done"}
      BY <1>1, <1>3, <1>7 DEF PutSecret, Job
    <2>2. ASSUME NEW n \in Machine, n # m
          PROVE  job'[n].pc = job[n].pc /\ job'[n].m = job[n].m /\ job'[n].cmd = job[n].cmd
      BY <1>1, <1>7, <2>2 DEF PutSecret, Job
    <2>3. ASSUME NEW n \in Machine
          PROVE  KeptJob(k, n, job'[n], contexts'[k], admin')
      <3>1. KeptJob(k, n, job[n], contexts[k], admin)
        BY DEF KInv
      <3>2. contexts' = contexts /\ admin' = admin /\ job[m].pc \in {"put", "pushPut"}
        BY <1>7 DEF PutSecret
      <3>3. CASE n = m
        BY <2>1, <3>2, <3>3, KSame
      <3>4. CASE n # m
        BY <2>2, <3>1, <3>2, <3>4 DEF KeptJob
      <3>5. QED
        BY <3>3, <3>4
    <2>4. secret'.vpn # None => Knows(contexts[k]) /\ secret'.vpn = admin
      <3>1. secret'.vpn = IF job[m].m.vpn = NoVPN THEN None ELSE job[m].m.vpn
        BY <1>7 DEF PutSecret, Stored
      <3>2. secret'.vpn # None => job[m].m.vpn \in Password /\ secret'.vpn = job[m].m.vpn
        BY <1>1, <3>1 DEF Context
      <3>3. QED
        BY <1>2, <1>7, <3>2 DEF KeptJob, PutSecret
    <2>5. KeptContexts(k)'
      BY <1>2, <1>7, <2>4 DEF PutSecret, KeptContexts, KnownPasswordsWork, Knows
    <2>6. QED
      BY <2>3, <2>5 DEF KInv
  <1>8. CASE SyncFails(m)
    <2> DEFINE warned == [job[m] EXCEPT !.warned = TRUE]
    <2> DEFINE ended == [warned EXCEPT !.pc = "done", !.fresh = FALSE]
    <2>1. warned \in Job /\ warned.m = job[m].m
      BY <1>1 DEF Job
    <2>a. Become(m, AfterSync(warned)) \/ Become(m, ended)
      BY <1>8 DEF SyncFails
    <2>b. ended.m = job[m].m /\ ended.pc = "done"
      BY <2>1 DEF Job
    <2>c. AfterSync(warned).m = job[m].m /\ AfterSync(warned).pc \in {"change", "done"}
      BY <1>3, <2>1
    <2> HIDE DEF warned, ended
    <2>2. PICK j : Become(m, j) /\ j.m = job[m].m /\ j.pc \in {"change", "done"}
      BY <2>a, <2>b, <2>c
    <2>3. KeptJob(k, m, j, contexts[k], admin)
      BY <1>8, <2>2, KSame DEF SyncFails
    <2>4. QED
      BY <1>8, <2>2, <2>3, KJob DEF SyncFails
  <1>9. CASE ChangeLogins(m)
    <2>1. CASE Become(m, Idle)
      <3>1. KeptJob(k, m, Idle, contexts[k], admin)
        BY CredentialsAssumption DEF KeptJob, Idle
      <3>2. QED
        BY <1>9, <2>1, <3>1, KJob DEF ChangeLogins
    <2>2. CASE ~Become(m, Idle)
      <3> DEFINE j == [job[m] EXCEPT !.pc = "saveChange", !.m.logins[job[m].host] = job[m].login]
      <3>a. Become(m, j)
        BY <1>9, <2>2 DEF ChangeLogins
      <3>1. Become(m, j) /\ j.m.vpn = job[m].m.vpn /\ j.pc = "saveChange"
        BY <1>1, <3>a DEF Job, Context
      <3> HIDE DEF j
      <3>2. KeptJob(k, m, j, contexts[k], admin)
        BY <1>9, <3>1, KSame DEF ChangeLogins
      <3>3. QED
        BY <1>9, <3>1, <3>2, KJob DEF ChangeLogins
    <2>3. QED
      BY <2>1, <2>2
  <1>10. CASE SaveChange(m)
    <2>1. PICK j : Become(m, j) /\ j.m = job[m].m /\ j.pc = "pushGet"
      BY <1>1, <1>10 DEF SaveChange, Job
    <2>2. QED
      BY <1>10, <2>1, KSave DEF SaveChange
  <1>11. CASE ReadServer(m)
    <2>1. PICK read \in {secret.vpn, None}, pw \in Password :
            /\ (IF read # None THEN read ELSE job[m].m.vpn) # None =>
                  pw = IF read # None THEN read ELSE job[m].m.vpn
            /\ Become(m, [job[m] EXCEPT !.pc = "k3s", !.m.vpn = pw])
      BY <1>11 DEF ReadServer
    <2> DEFINE j == [job[m] EXCEPT !.pc = "k3s", !.m.vpn = pw]
    <2>2. Become(m, j) /\ j.m.vpn = pw /\ j.pc = "k3s" /\ j.cmd = job[m].cmd
      BY <1>1, <2>1 DEF Job, Context
    <2> HIDE DEF j
    <2>3. m = k /\ job[m].cmd = "install"
      BY <1>2, <1>11 DEF ReadServer, KeptJob
    <2>4. ASSUME Knows(contexts[k])
          PROVE  pw = admin
      <3>1. job[m].m.vpn \in Password /\ job[m].m.vpn = admin
        BY <1>2, <1>11, <2>3, <2>4 DEF ReadServer, KeptJob
      <3>2. secret.vpn # None => secret.vpn = admin
        BY <1>2 DEF KeptContexts, KnownPasswordsWork
      <3>3. QED
        BY <2>1, <3>1, <3>2, CredentialsAssumption
    <2>5. KeptJob(k, m, j, contexts[k], admin)
      BY <2>2, <2>3, <2>4 DEF KeptJob
    <2>6. QED
      BY <1>11, <2>2, <2>5, KJob DEF ReadServer
  <1>12. CASE InstallK3s(m)
    <2>1. PICK j : Become(m, j) /\ j.m = job[m].m /\ j.pc = "manifests" /\ j.cmd = job[m].cmd
      BY <1>1, <1>12 DEF InstallK3s, Job
    <2>2. KeptJob(k, m, j, contexts[k], admin)
      BY <1>2, <1>12, <2>1 DEF InstallK3s, KeptJob
    <2>3. QED
      BY <1>12, <2>1, <2>2, KJob DEF InstallK3s
  <1>13. CASE WriteManifests(m)
    <2>1. m = k /\ job[m].cmd = "install" /\ job[m].m.vpn \in Password
      BY <1>2, <1>13 DEF WriteManifests, KeptJob, KInv, TypeInv, Made
    <2>2. admin' = job[m].m.vpn /\ UNCHANGED <<secret, contexts>>
      BY <1>13, <2>1 DEF WriteManifests
    <2> DEFINE j == [job[m] EXCEPT !.pc = "saveInstall",
                                   !.m.vpn = IF job[m].cmd = "install" THEN @ ELSE NoVPN]
    <2>a. Become(m, j)
      BY <1>13 DEF WriteManifests
    <2>3. Become(m, j) /\ j.m.vpn = job[m].m.vpn /\ j.pc = "saveInstall" /\ j.cmd = "install"
      BY <1>1, <2>1, <2>a DEF Job, Context
    <2> HIDE DEF j
    <2>4. Knows(contexts[k]) => admin' = admin
      BY <1>2, <2>1, <2>2 DEF KeptJob
    <2>5. KeptContexts(k)'
      <3>1. (secret.vpn # None \/ \E n \in Machine : Knows(contexts[n])) => admin' = admin
        BY <1>2, <2>4 DEF KeptContexts
      <3>2. QED
        BY <1>2, <2>2, <3>1 DEF KeptContexts, KnownPasswordsWork, Knows
    <2>6. ASSUME NEW n \in Machine
          PROVE  KeptJob(k, n, job'[n], contexts'[k], admin')
      <3>1. KeptJob(k, n, job[n], contexts[k], admin)
        BY DEF KInv
      <3>2. CASE n = m
        BY <1>1, <2>1, <2>2, <2>3, <3>2 DEF Become, KeptJob
      <3>3. CASE n # m
        BY <1>1, <2>1, <2>2, <2>3, <2>4, <3>1, <3>3 DEF Become, KeptJob
      <3>4. QED
        BY <3>2, <3>3
    <2>7. QED
      BY <2>5, <2>6 DEF KInv
  <1>14. CASE SaveContext(m)
    <2>1. PICK j : Become(m, j) /\ j.m = job[m].m /\ j.pc = "read"
      BY <1>1, <1>14 DEF SaveContext, Job
    <2>2. QED
      BY <1>14, <2>1, KSave DEF SaveContext
  <1>15. CASE Return(m) \/ Abort(m)
    <2>1. KeptJob(k, m, Idle, contexts[k], admin)
      BY CredentialsAssumption DEF KeptJob, Idle
    <2>2. QED
      BY <1>15, <2>1, KJob DEF Return, Abort
  <1>16. QED
    BY <1>4, <1>5, <1>6, <1>7, <1>8, <1>9, <1>10, <1>11, <1>12, <1>13, <1>14, <1>15 DEF Step

\* Where one machine installs, always with the VPN, and keeps its context, no
\* password a context or the Secret holds ever stops working, whatever fails
\* and with any number of other machines (newServerInstallCmd, syncCreds).
THEOREM PasswordsKeepWorking ==
  ASSUME NEW k \in Machine, Keeps(k)
  PROVE  Spec => []KnownPasswordsWork
  <1>1. Init => KInv(k)
    BY KInit
  <1>2. KInv(k) /\ [Next]_vars => KInv(k)'
    <2> SUFFICES ASSUME KInv(k), [Next]_vars
                 PROVE  KInv(k)'
      OBVIOUS
    <2>1. TypeInv'
      BY TypeStep DEF KInv
    <2>2. ASSUME NEW m \in Machine, Start(m)
          PROVE  KInv(k)'
      BY <2>1, <2>2, KStart
    <2>3. ASSUME NEW m \in Machine, Step(m)
          PROVE  KInv(k)'
      BY <2>1, <2>3, KStep
    <2>4. ASSUME NEW m \in Machine, ContextRemove(m)
          PROVE  KInv(k)'
      <3>1. m # k /\ contexts' = [contexts EXCEPT ![m] = None] /\ UNCHANGED <<admin, secret, job>>
        BY <2>4 DEF ContextRemove, Keeps
      <3>2. contexts \in [Machine -> Context \cup {None}]
        BY DEF KInv, TypeInv, TypeOK
      <3>3. contexts'[k] = contexts[k] /\ \A n \in Machine : contexts'[n] \in {contexts[n], None}
        BY <3>1, <3>2
      <3>4. KeptContexts(k)'
        BY <3>1, <3>3 DEF KInv, KeptContexts, KnownPasswordsWork, Knows
      <3>5. QED
        BY <2>1, <3>1, <3>3, <3>4 DEF KInv
    <2>5. CASE UNCHANGED vars
      BY <2>1, <2>5 DEF vars, KInv, KeptContexts, KnownPasswordsWork, Knows
    <2>6. QED
      BY <2>2, <2>3, <2>4, <2>5 DEF Next
  <1>3. KInv(k) => KnownPasswordsWork
    BY DEF KInv, KeptContexts
  <1>4. QED
    BY <1>1, <1>2, <1>3, PTL DEF Spec

=============================================================================

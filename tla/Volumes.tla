------------------------------- MODULE Volumes -------------------------------
(***************************************************************************)
(* What happens to the data of one volume: cmd/jekyo/backup.go (config,    *)
(* now, restore) and cmd/jekyo/volume.go (copy), on one app that two       *)
(* servers may both have, call by call, beside the app's pods, the         *)
(* scheduled backup, other commands of up and down, and other machines.    *)
(*                                                                         *)
(* A content of the volume is a number; whatever writes without being      *)
(* alone leaves a content nothing else equals.  The claim and repository   *)
(* a command works on are those of BackupTarget in module Redeploy.        *)
(***************************************************************************)
EXTENDS Naturals, Sequences, FiniteSets, FiniteSetsExt

CONSTANTS
  Server, Machine,
  Workload,      \* what mounts the volume
  Type,          \* Workload -> Deployment, StatefulSet or, of a service with a schedule, CronJob
  Replicas,      \* Server -> Workload -> the count in the manifest; 1 for a CronJob
  Plans,         \* bound: what is deployed at first, and is there a backup of it; what is
                 \* run by whom, in order, and how often something else happens: an
                 \* up, a down, a scheduled backup, a scheduled service
  Slot,          \* bound: Jobs that exist at once, a set of numbers
  MaxFresh,      \* bound: contents and passwords that come up
  MaxKills,      \* bound: commands killed
  None

Commands == {"config", "now", "restore", "copy"}

ASSUME VolumesAssumption ==
  /\ Type \in [Workload -> {"deploy", "sts", "cron"}]
  /\ Replicas \in [Server -> [Workload -> Nat \ {0}]]
  /\ Plans \subseteq [up : SUBSET Server, backup : BOOLEAN, runs : [Machine -> Seq(Commands \X Server)], others : Nat]
  /\ Slot \subseteq Nat /\ IsFiniteSet(Slot)
  /\ MaxFresh \in Nat /\ MaxKills \in Nat

VARIABLES
  want,      \* Server -> Workload -> replicas asked for, None if it is not deployed
  pods,      \* Server -> Workload -> pods that mount the volume, terminating ones too
  volume,    \* Server -> content
  repo,      \* Server -> [password, snapshots]
  secret,    \* the backup target's password, None if there is no target
  copied,    \* Server -> the password in the app's copy of the target
  job,       \* Slot -> a restic Job, None
  cmd,       \* Machine -> the command it runs
  fresh,     \* the next content or password
  others, kills, plan

vars == <<want, pods, volume, repo, secret, copied, job, cmd, fresh, others, kills, plan>>
app  == <<want, pods>>
store == <<repo, secret, copied>>
bounds == <<others, kills, plan>>

Content == 0..MaxFresh

\* content: what a restore writes, what a backup has read.  whole: nobody has
\* written since it began.  doomed: deleted, its pod may go on for a while.
Job == [on : Server, kind : {"backup", "restore"}, pc : {"created", "running", "done", "failed"},
        content : Content, whole : BOOLEAN, scheduled : BOOLEAN, doomed : BOOLEAN]

ASSUME NoneAssumption == None \notin Nat \cup Server \cup Machine \cup Commands \cup Job

PC == {"idle", "list", "listSts", "scale", "wait", "create", "poll", "delete", "restart",
       "source", "dest", "clear", "stream", "sumSource", "sumDest", "get", "put", "returned"}

Command ==
  [pc : PC, kind : Commands \cup {None}, on : Server \cup {None}, to : Server \cup {None},
   content : Content,                      \* the snapshot; copy: what is sent, then the checksum
   listed : [Workload -> Nat \cup {None}], \* scaleMounters: the counts in its listing
   prev : [Workload -> Nat \cup {None}],   \* scaleMounters: the counts to go back to
   todo : SUBSET Workload,                 \* workloads still to be patched
   job : Slot \cup {None},
   password : Content \cup {None}, existed : BOOLEAN,
   ok : BOOLEAN,                           \* it reports success
   whole : BOOLEAN,                        \* nobody else has written to either end of the stream
   \* for the properties: somebody else has touched the app or the volume; a
   \* scheduled service has begun to run since the wait for pods; workloads
   \* that errors have left at zero; what the source has held since the stream
   \* began
   overtaken : BOOLEAN, crossed : BOOLEAN, lost : SUBSET Workload, held : SUBSET Content]

Nothing == [w \in Workload |-> None]
Idle == [pc |-> "idle", kind |-> None, on |-> None, to |-> None, content |-> 0, listed |-> Nothing,
         prev |-> Nothing, todo |-> {}, job |-> None, password |-> None, existed |-> FALSE,
         ok |-> FALSE, whole |-> TRUE, overtaken |-> FALSE, crossed |-> FALSE, lost |-> {}, held |-> {}]

TypeOK ==
  /\ want \in [Server -> [Workload -> Nat \cup {None}]]
  /\ pods \in [Server -> [Workload -> Nat]]
  /\ volume \in [Server -> Content]
  /\ \A s \in Server : repo[s].password \in Content \cup {None} /\ repo[s].snapshots \subseteq Content
  /\ secret \in Content \cup {None} /\ copied \in [Server -> Content \cup {None}]
  /\ job \in [Slot -> Job \cup {None}]
  /\ cmd \in [Machine -> Command]
  /\ \A m \in Machine : cmd[m].pc \in {"poll", "delete"} => cmd[m].job # None /\ job[cmd[m].job] # None
  /\ fresh \in 1..(MaxFresh + 1) /\ others \in Nat /\ kills \in 0..MaxKills
  /\ plan \in [Machine -> Seq(Commands \X Server)]

\* How many pods of w stay: those of a CronJob end by themselves.
Kept(wanted, s, w) == IF wanted[s][w] = None \/ Type[w] = "cron" THEN 0 ELSE wanted[s][w]

\* Either server may have the app running, or taken down with its volume kept.
Init ==
  /\ \E p \in Plans :
       /\ want = [s \in Server |-> IF s \in p.up THEN Replicas[s] ELSE Nothing]
       /\ plan = p.runs /\ others = p.others
       /\ secret = IF p.backup THEN 0 ELSE None
       /\ copied = [s \in Server |-> IF s \in p.up THEN secret ELSE None]
       /\ repo = [s \in Server |-> [password |-> copied[s], snapshots |-> {copied[s]} \ {None}]]
  /\ pods = [s \in Server |-> [w \in Workload |-> Kept(want, s, w)]]
  /\ volume = [s \in Server |-> 0]
  /\ job = [t \in Slot |-> None]
  /\ cmd = [m \in Machine |-> Idle]
  /\ fresh = 1 /\ kills = 0

-----------------------------------------------------------------------------
Deployed(s)  == \E w \in Workload : want[s][w] # None
Running(s)   == {t \in Slot : job[t] # None /\ job[t].on = s /\ job[t].pc = "running"}
PodsOf(s)    == \E w \in Workload : pods[s][w] > 0
Mounting(s)  == PodsOf(s) \/ Running(s) # {}

Fresh == fresh <= MaxFresh /\ fresh' = fresh + 1

\* A write to s by somebody else than the job t and the machine m: whatever is
\* reading or writing the volume just then no longer has it whole.
SpoiltJobs(s, t) ==
  [u \in Slot |-> IF u # t /\ u \in Running(s) THEN [job[u] EXCEPT !.whole = FALSE] ELSE job[u]]
SpoiltCommands(cs, s, x) ==
  [n \in Machine |->
     LET c == cs[n]
     IN  IF c.pc \notin {"stream", "sumSource", "sumDest"} THEN c
         ELSE [c EXCEPT !.whole = @ /\ s \notin {c.on, c.to},
                        !.held = IF c.on = s THEN @ \cup {x} ELSE @]]
\* The restores of other machines than m on s have not been alone.
Overtaken(cs, s, m) ==
  [n \in Machine |->
     IF n # m /\ cs[n].kind = "restore" /\ cs[n].on = s THEN [cs[n] EXCEPT !.overtaken = TRUE] ELSE cs[n]]

-----------------------------------------------------------------------------
(***************************************************************************)
(* The app, the scheduled backup and Kubernetes.                           *)
(***************************************************************************)

\* up applies the counts of the manifest, and copies the target.
Up(s) ==
  /\ others > 0 /\ others' = others - 1
  /\ want' = [want EXCEPT ![s] = Replicas[s]]
  /\ copied' = [copied EXCEPT ![s] = IF secret # None THEN secret ELSE @]
  /\ cmd' = Overtaken(cmd, s, None)
  /\ UNCHANGED <<pods, volume, repo, secret, job, fresh, kills, plan>>

\* A plain down keeps the volume; the scheduled backup goes.
Down(s) ==
  /\ Deployed(s) /\ others > 0 /\ others' = others - 1
  /\ want' = [want EXCEPT ![s] = Nothing]
  /\ cmd' = Overtaken(cmd, s, None)
  /\ UNCHANGED <<pods, volume, job, fresh, kills, plan>> /\ UNCHANGED store

AddPod(s, w) ==
  /\ pods[s][w] < Kept(want, s, w)
  /\ pods' = [pods EXCEPT ![s][w] = @ + 1]
  /\ UNCHANGED <<want, volume, job, cmd, fresh>> /\ UNCHANGED store /\ UNCHANGED bounds

\* A scheduled service runs, one pod at a time; a restore that has waited for
\* the pods to go does not see it.
RunScheduled(s, w) ==
  /\ Type[w] = "cron" /\ want[s][w] # None /\ pods[s][w] = 0
  /\ others > 0 /\ others' = others - 1
  /\ pods' = [pods EXCEPT ![s][w] = 1]
  /\ cmd' = [m \in Machine |->
               IF cmd[m].kind = "restore" /\ cmd[m].on = s /\ cmd[m].pc \in {"create", "poll", "delete"}
               THEN [cmd[m] EXCEPT !.crossed = TRUE] ELSE cmd[m]]
  /\ UNCHANGED <<want, volume, job, fresh, kills, plan>> /\ UNCHANGED store

\* A pod that is no longer wanted is gone; until then it may write.
EndPod(s, w) ==
  /\ pods[s][w] > Kept(want, s, w)
  /\ pods' = [pods EXCEPT ![s][w] = @ - 1]
  /\ UNCHANGED <<want, volume, job, cmd, fresh>> /\ UNCHANGED store /\ UNCHANGED bounds

Write(s) ==
  /\ PodsOf(s) /\ Fresh
  /\ volume' = [volume EXCEPT ![s] = fresh]
  /\ job' = SpoiltJobs(s, None)
  /\ cmd' = SpoiltCommands(cmd, s, fresh)
  /\ UNCHANGED app /\ UNCHANGED store /\ UNCHANGED bounds

NewJob(s, k, x, scheduled) ==
  [on |-> s, kind |-> k, pc |-> "created", content |-> x, whole |-> TRUE,
   scheduled |-> scheduled, doomed |-> FALSE]
Free == {t \in Slot : job[t] = None}

\* backupCronJob fires; it forbids that two of its Jobs run at once.
Fire(s) ==
  /\ Deployed(s) /\ copied[s] # None /\ Free # {} /\ others > 0 /\ others' = others - 1
  /\ \A t \in Slot : job[t] # None => ~(job[t].on = s /\ job[t].scheduled)
  /\ job' = [job EXCEPT ![Min(Free)] = NewJob(s, "backup", 0, TRUE)]
  /\ UNCHANGED <<volume, cmd, fresh, kills, plan>> /\ UNCHANGED app /\ UNCHANGED store

\* Its pod starts: a backup opens or makes the repository and reads, a restore
\* begins to write.
RunJob(t) ==
  LET s == job[t].on
      restores == job[t].kind = "restore"
  IN  /\ job[t] # None /\ job[t].pc = "created"
      /\ repo[s].password \in {None, copied[s]}
      /\ IF restores
         THEN /\ Fresh /\ volume' = [volume EXCEPT ![s] = fresh]
              /\ cmd' = [n \in Machine |->
                           IF cmd[n].job = t THEN cmd[n]
                           ELSE Overtaken(SpoiltCommands(cmd, s, fresh), s, None)[n]]
              /\ job' = [SpoiltJobs(s, t) EXCEPT ![t].pc = "running"]
              /\ UNCHANGED repo
         ELSE /\ job' = [job EXCEPT ![t].pc = "running", ![t].content = volume[s]]
              /\ repo' = [repo EXCEPT ![s].password = copied[s]]
              /\ UNCHANGED <<volume, cmd, fresh>>
      /\ UNCHANGED <<secret, copied>> /\ UNCHANGED app /\ UNCHANGED bounds

\* Ended (a slip, see below), had the Jobs a time to live of zero.
EndedGone(t, pc) == None

\* A Job nobody waits for leaves nothing behind.
Ended(t, pc) == IF \E m \in Machine : cmd[m].job = t THEN [job[t] EXCEPT !.pc = pc] ELSE None

EndJob(t) ==
  LET s == job[t].on
  IN  /\ t \in UNION {Running(r) : r \in Server}
      /\ IF job[t].whole THEN UNCHANGED fresh ELSE Fresh
      /\ LET x == IF job[t].whole THEN job[t].content ELSE fresh
         IN  IF job[t].kind = "restore"
             THEN /\ volume' = [volume EXCEPT ![s] = x]
                  /\ job' = [SpoiltJobs(s, t) EXCEPT ![t] = Ended(t, "done")]
                  /\ cmd' = SpoiltCommands(cmd, s, x)
                  /\ UNCHANGED repo
             ELSE /\ repo' = [repo EXCEPT ![s].snapshots = @ \cup {x}]
                  /\ job' = [job EXCEPT ![t] = Ended(t, "done")]
                  /\ UNCHANGED <<volume, cmd>>
      /\ UNCHANGED <<secret, copied>> /\ UNCHANGED app /\ UNCHANGED bounds

\* It fails, at any point, or goes because it has been deleted.
StopJob(t) ==
  /\ job[t] # None /\ (job[t].pc \in {"created", "running"} \/ job[t].doomed)
  /\ job' = [job EXCEPT ![t] = IF job[t].doomed THEN None ELSE Ended(t, "failed")]
  /\ UNCHANGED <<volume, cmd, fresh>> /\ UNCHANGED app /\ UNCHANGED store /\ UNCHANGED bounds
-----------------------------------------------------------------------------
(***************************************************************************)
(* Commands: how they begin and end.                                       *)
(***************************************************************************)

World == <<want, pods, volume, repo, secret, copied, job, fresh, others, kills, plan>>
Become(m, c) == cmd' = [cmd EXCEPT ![m] = c]
At(m, pc)    == cmd[m].pc = pc

First == [config |-> "get", now |-> "create", restore |-> "list", copy |-> "source"]

Begin(m, r, x) ==
  LET k == Head(plan[m])[1]
  IN  /\ At(m, "idle")
      /\ plan' = [plan EXCEPT ![m] = Tail(@)]
      /\ Become(m, [Idle EXCEPT !.pc = First[k], !.kind = k, !.on = Head(plan[m])[2], !.to = r, !.content = x])
      /\ UNCHANGED <<volume, job, fresh, others, kills>> /\ UNCHANGED app /\ UNCHANGED store

Start(m) ==
  /\ plan[m] # <<>>
  /\ LET k == Head(plan[m])[1]
         s == Head(plan[m])[2]
     IN  \/ k \in {"config", "now"} /\ Begin(m, None, 0)
         \/ k = "restore" /\ \E x \in repo[s].snapshots : Begin(m, None, x)
         \/ k = "copy" /\ \E r \in Server \ {s} : Begin(m, r, 0)

\* The command returns with an error; what it deferred comes later.
Fails(m) == Become(m, [cmd[m] EXCEPT !.pc = "returned"]) /\ UNCHANGED World

\* The deferred restart, if there is something to go back to.
Deferred(c) ==
  LET ws == {w \in Workload : c.prev[w] # None}
  IN  IF ws = {} THEN [c EXCEPT !.pc = "returned"] ELSE [c EXCEPT !.pc = "restart", !.todo = ws]

Return(m) == At(m, "returned") /\ Become(m, Idle) /\ UNCHANGED World

\* Nothing that was deferred happens (Cut is the same in the middle of a stream).
Kill(m) ==
  /\ cmd[m].pc \notin {"idle", "returned", "stream"} /\ kills < MaxKills /\ kills' = kills + 1
  /\ Become(m, Idle)
  /\ UNCHANGED <<volume, job, fresh, others, plan>> /\ UNCHANGED app /\ UNCHANGED store

-----------------------------------------------------------------------------
(***************************************************************************)
(* Slips: forms of the definitions below with a bug that could have been   *)
(* in the code, to see that a property notices.                            *)
(***************************************************************************)

\* scaleMounters: Deployments first, then StatefulSets.
AfterType(type) == IF type = "deploy" THEN "listSts" ELSE "wait"
\* w is patched, and its count n noted.
Scaled(c, w, n) == [c EXCEPT !.prev[w] = n, !.todo = @ \ {w},
                             !.pc = IF c.todo = {w} THEN AfterType(Type[w]) ELSE "scale"]

\* PutTarget, had it stored its password over a target it has not read.
PutTargetAlways(m) ==
  /\ At(m, "put")
  /\ secret' = cmd[m].password
  /\ Become(m, [cmd[m] EXCEPT !.pc = "returned", !.ok = TRUE])
  /\ UNCHANGED <<volume, repo, copied, job, fresh>> /\ UNCHANGED app /\ UNCHANGED bounds

\* Scale, had the count been noted after the patch.
ScaleNotesLate(m, w) ==
  LET c == cmd[m]
  IN  /\ At(m, "scale") /\ w \in c.todo /\ want[c.on][w] # None
      /\ want' = [want EXCEPT ![c.on][w] = 0]
      /\ cmd' = Overtaken([cmd EXCEPT ![m] = Scaled(c, w, 0)], c.on, m)
      /\ UNCHANGED <<pods, volume, job, fresh>> /\ UNCHANGED store /\ UNCHANGED bounds

\* NoPods, had it not counted pods that are terminating.
NoPodsButTerminating(m) ==
  /\ At(m, "wait") /\ Running(cmd[m].on) = {}
  /\ Become(m, [cmd[m] EXCEPT !.pc = "create"]) /\ UNCHANGED World

\* SumDest, had the checksums been printed and not compared.
SumDestPrinted(m) ==
  /\ At(m, "sumDest")
  /\ Become(m, [cmd[m] EXCEPT !.pc = "returned", !.ok = TRUE])
  /\ UNCHANGED World

-----------------------------------------------------------------------------
(***************************************************************************)
(* backup config.                                                          *)
(***************************************************************************)

\* The password of the target there is; whatever else Get says, a new one.
GetTarget(m) ==
  /\ At(m, "get")
  /\ \/ /\ secret # None
        /\ Become(m, [cmd[m] EXCEPT !.pc = "put", !.password = secret, !.existed = TRUE])
        /\ UNCHANGED fresh
     \/ /\ Fresh
        /\ Become(m, [cmd[m] EXCEPT !.pc = "put", !.password = fresh])
  /\ UNCHANGED <<volume, job>> /\ UNCHANGED app /\ UNCHANGED store /\ UNCHANGED bounds

\* Update the target that was read, or create one, which fails if there is one.
PutTarget(m) ==
  /\ At(m, "put")
  /\ cmd[m].existed \/ secret = None
  /\ secret' = cmd[m].password
  /\ Become(m, [cmd[m] EXCEPT !.pc = "returned", !.ok = TRUE])
  /\ UNCHANGED <<volume, repo, copied, job, fresh>> /\ UNCHANGED app /\ UNCHANGED bounds

-----------------------------------------------------------------------------
(***************************************************************************)
(* runBackupJob, for backup now and for restore.                           *)
(***************************************************************************)

CreateJob(m) ==
  LET s == cmd[m].on
      t == Min(Free)
  IN  /\ At(m, "create") /\ secret # None /\ Free # {}
      /\ copied' = [copied EXCEPT ![s] = secret]
      /\ job' = [job EXCEPT ![t] = NewJob(s, IF cmd[m].kind = "now" THEN "backup" ELSE "restore",
                                          cmd[m].content, FALSE)]
      /\ Become(m, [cmd[m] EXCEPT !.pc = "poll", !.job = t])
      /\ UNCHANGED <<volume, repo, secret, fresh>> /\ UNCHANGED app /\ UNCHANGED bounds

CreateFails(m) == At(m, "create") /\ Become(m, Deferred(cmd[m])) /\ UNCHANGED World

\* The Job has ended, one way or the other; or the deadline has passed or a Get failed.
Poll(m) ==
  /\ At(m, "poll")
  /\ \/ /\ job[cmd[m].job].pc = "done" /\ Become(m, [cmd[m] EXCEPT !.pc = "delete", !.ok = TRUE])
     \/ Become(m, [cmd[m] EXCEPT !.pc = "delete"])
  /\ UNCHANGED World

\* The deferred deletion goes on in the background; an error is not looked at.
DeleteJob(m) ==
  LET t == cmd[m].job
  IN  /\ At(m, "delete")
      /\ \/ job' = [job EXCEPT ![t] = IF @.pc = "running" THEN [@ EXCEPT !.doomed = TRUE] ELSE None]
         \/ job' = [job EXCEPT ![t] = IF @.pc \in {"created", "running"} THEN @ ELSE None]
      /\ Become(m, Deferred([cmd[m] EXCEPT !.job = None]))
      /\ UNCHANGED <<volume, fresh>> /\ UNCHANGED app /\ UNCHANGED store /\ UNCHANGED bounds

-----------------------------------------------------------------------------
(***************************************************************************)
(* backup restore.                                                         *)
(***************************************************************************)

\* scaleMounters' two listings; CronJobs are in neither.
ListMounters(m) ==
  LET c    == cmd[m]
      type == IF At(m, "list") THEN "deploy" ELSE "sts"
      ws   == {w \in Workload : Type[w] = type /\ want[c.on][w] # None}
  IN  /\ c.pc \in {"list", "listSts"}
      /\ Become(m, [c EXCEPT !.pc = IF ws = {} THEN AfterType(type) ELSE "scale", !.todo = ws,
                             !.listed = [w \in Workload |-> IF w \in ws THEN want[c.on][w] ELSE @[w]]])
      /\ UNCHANGED World

Patch(s, w, n) ==
  /\ want[s][w] # None
  /\ want' = [want EXCEPT ![s][w] = n]
  /\ UNCHANGED <<pods, volume, job, fresh>> /\ UNCHANGED store /\ UNCHANGED bounds

\* The count is noted from the listing, before the patch.
Scale(m, w) ==
  LET c == cmd[m]
  IN  /\ At(m, "scale") /\ w \in c.todo
      /\ Patch(c.on, w, 0)
      /\ cmd' = Overtaken([cmd EXCEPT ![m] = Scaled(c, w, c.listed[w])], c.on, m)

\* A patch or the second listing fails: the counts noted so far are not
\* returned to the caller.
ScaleFails(m) ==
  /\ cmd[m].pc \in {"scale", "listSts"}
  /\ Become(m, [cmd[m] EXCEPT !.pc = "returned", !.lost = {w \in Workload : cmd[m].prev[w] # None}])
  /\ UNCHANGED World

\* waitNoPodsWithClaim, which counts every pod of the namespace.
NoPods(m)  == /\ At(m, "wait") /\ ~Mounting(cmd[m].on)
              /\ Become(m, [cmd[m] EXCEPT !.pc = "create"]) /\ UNCHANGED World
TooLong(m) == /\ At(m, "wait") /\ Become(m, Deferred(cmd[m])) /\ UNCHANGED World

\* An error is not looked at.
Restart(m, w) ==
  LET c    == cmd[m]
      next == [c EXCEPT !.todo = @ \ {w}, !.pc = IF c.todo = {w} THEN "returned" ELSE "restart"]
  IN  /\ At(m, "restart") /\ w \in c.todo
      /\ \/ /\ Patch(c.on, w, c.prev[w])
            /\ cmd' = Overtaken([cmd EXCEPT ![m] = next], c.on, m)
         \/ /\ Become(m, [next EXCEPT !.lost = @ \cup {w}])
            /\ UNCHANGED World

-----------------------------------------------------------------------------
(***************************************************************************)
(* volume copy.                                                            *)
(***************************************************************************)

CheckSource(m) ==
  /\ At(m, "source") /\ ~Mounting(cmd[m].on)
  /\ Become(m, [cmd[m] EXCEPT !.pc = "dest"]) /\ UNCHANGED World

CheckDest(m) ==
  /\ At(m, "dest") /\ ~Mounting(cmd[m].to)
  /\ Become(m, [cmd[m] EXCEPT !.pc = "clear"]) /\ UNCHANGED World

\* The command writes x to its destination.
Arrives(m, x, c) ==
  LET s == cmd[m].to
  IN  /\ volume' = [volume EXCEPT ![s] = x]
      /\ job' = SpoiltJobs(s, None)
      /\ cmd' = [Overtaken(SpoiltCommands(cmd, s, x), s, m) EXCEPT ![m] = c]
      /\ UNCHANGED app /\ UNCHANGED store /\ UNCHANGED <<others, plan>>

\* The destination is emptied, and tar begins to read the source.
Clear(m) ==
  LET x == volume[cmd[m].on]
  IN  /\ At(m, "clear")
      /\ Arrives(m, 0, [cmd[m] EXCEPT !.pc = "stream", !.content = x, !.held = {x}])
      /\ UNCHANGED <<fresh, kills>>

Receive(m) ==
  LET c == [cmd[m] EXCEPT !.pc = "sumSource"]
  IN  /\ At(m, "stream")
      /\ IF c.whole THEN UNCHANGED fresh ELSE Fresh
      /\ Arrives(m, IF c.whole THEN c.content ELSE fresh, c)
      /\ UNCHANGED kills

\* Either tar fails, and the error closes the pipe to the other.
StreamFails(m) ==
  /\ At(m, "stream") /\ Fresh
  /\ Arrives(m, fresh, [cmd[m] EXCEPT !.pc = "returned"])
  /\ UNCHANGED kills

\* What has arrived stays.
Cut(m) ==
  /\ At(m, "stream") /\ Fresh /\ kills < MaxKills /\ kills' = kills + 1
  /\ Arrives(m, fresh, Idle)

SumSource(m) ==
  /\ At(m, "sumSource")
  /\ Become(m, [cmd[m] EXCEPT !.pc = "sumDest", !.content = volume[cmd[m].on]])
  /\ UNCHANGED World

SumDest(m) ==
  /\ At(m, "sumDest")
  /\ Become(m, [cmd[m] EXCEPT !.pc = "returned", !.ok = volume[cmd[m].to] = cmd[m].content])
  /\ UNCHANGED World

\* A command that has nothing deferred returns with the error.
Abort(m) ==
  /\ cmd[m].pc \in {"get", "put", "list", "source", "dest", "clear", "sumSource", "sumDest"}
  /\ Fails(m)

Step(m) ==
  \/ Start(m) \/ Return(m) \/ Abort(m)
  \/ GetTarget(m) \/ PutTarget(m)
  \/ CreateJob(m) \/ CreateFails(m) \/ Poll(m) \/ DeleteJob(m)
  \/ ListMounters(m) \/ ScaleFails(m) \/ NoPods(m) \/ TooLong(m)
  \/ \E w \in Workload : Scale(m, w) \/ Restart(m, w)
  \/ CheckSource(m) \/ CheckDest(m) \/ Clear(m) \/ Receive(m) \/ StreamFails(m)
  \/ SumSource(m) \/ SumDest(m)

Next ==
  \/ \E m \in Machine : Step(m) \/ Kill(m) \/ Cut(m)
  \/ \E s \in Server : Up(s) \/ Down(s) \/ Write(s) \/ Fire(s)
                        \/ \E w \in Workload : AddPod(s, w) \/ RunScheduled(s, w) \/ EndPod(s, w)
  \/ \E t \in Slot : RunJob(t) \/ EndJob(t) \/ StopJob(t)

Spec == Init /\ [][Next]_vars

-----------------------------------------------------------------------------
(***************************************************************************)
(* Properties.                                                             *)
(***************************************************************************)

\* RestoreExact: when a restore has seen its Job succeed and has not yet
\* started the app again, the volume holds the snapshot, whatever pods were
\* running and whatever commands that were killed or timed out have left behind,
\* unless an up, a down, a copy, another restore or the Job of one has come
\* between, or a scheduled service has begun to run, which nothing stops.
RestoreExact ==
  \A m \in Machine :
    cmd[m].kind = "restore" /\ At(m, "delete") /\ cmd[m].ok /\ ~cmd[m].overtaken /\ ~cmd[m].crossed
      => volume[cmd[m].on] = cmd[m].content

\* RestartsAsFound: a restore that returns, with success or not, leaves every
\* workload at the count it found, and at zero only those it had stopped when a
\* patch or listing failed and those whose own restart failed, unless somebody
\* else has deployed the app or restored the volume meanwhile.
RestartsAsFound ==
  \A m \in Machine :
    cmd[m].kind = "restore" /\ At(m, "returned") /\ ~cmd[m].overtaken
      => \A w \in Workload : cmd[m].listed[w] # None =>
           \/ want[cmd[m].on][w] = cmd[m].listed[w]
           \/ w \in cmd[m].lost /\ want[cmd[m].on][w] = 0

\* RunsAgain: a restore that reports success leaves the app running as the
\* manifest has it.
RunsAgain ==
  \A m \in Machine :
    cmd[m].kind = "restore" /\ At(m, "returned") /\ cmd[m].ok
      /\ cmd[m].lost = {} /\ ~cmd[m].overtaken /\ Deployed(cmd[m].on)
      => want[cmd[m].on] = Replicas[cmd[m].on]

\* CopyFaithful: a copy reports success only if the destination then holds
\* something the source has held since the copy began, never what pods that
\* started on either side have made of it.
CopyFaithful ==
  [][\A m \in Machine : At(m, "sumDest") /\ cmd'[m].ok => volume[cmd[m].to] \in cmd[m].held]_vars

\* SnapshotsReadable: every repository opens with the password of the backup
\* target, and apps have no other.
SnapshotsReadable ==
  \A s \in Server : {repo[s].password, copied[s]} \subseteq {None, secret}
=============================================================================

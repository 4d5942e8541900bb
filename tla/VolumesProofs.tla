----------------------------- MODULE VolumesProofs -----------------------------
(***************************************************************************)
(* Theorems about Volumes, for any servers, machines, workloads, plans and *)
(* numbers of Jobs, contents and kills.  A restore that nobody has         *)
(* overtaken knows the counts it has set and is the only one to write to   *)
(* its volume; what a copy's source holds is among what it has held since  *)
(* the stream began; a backup target keeps its password.                   *)
(***************************************************************************)
EXTENDS Volumes, WellFoundedInduction, TLAPS

Repo     == [password : Content \cup {None}, snapshots : SUBSET Content]
Counts   == [Workload -> Nat \cup {None}]
Scaling  == {"list", "listSts", "scale", "wait"}
InJob    == {"poll", "delete"}
Copying  == {"source", "dest", "clear", "stream", "sumSource", "sumDest"}
Streamed == {"stream", "sumSource", "sumDest"}

\* The calls of a command are those of its kind.
Shape(c) ==
  /\ c.pc # "idle" => c.kind \in Commands /\ c.on \in Server
  /\ c.pc \in Scaling \cup {"restart"} => c.kind = "restore"
  /\ c.pc \in {"create"} \cup InJob => c.kind \in {"now", "restore"}
  /\ c.pc \in Copying => c.kind = "copy" /\ c.to \in Server \ {c.on}
  /\ c.pc \in {"get", "put"} => c.kind = "config"
  /\ c.job # None <=> c.pc \in InJob
  /\ c.ok => c.pc \in {"delete", "restart", "returned"}
  /\ c.pc = "get" => ~c.existed
  /\ c.pc = "put" => c.password \in Content
  /\ c.pc = "list" \/ c.kind = "now" => c.listed = Nothing /\ c.prev = Nothing

\* A target that was read is still the target.
Known(c, p) == c.existed => p # None /\ c.password = p

\* w, if a listing had it, is stopped; or it is back, unless errors have left it.
Stopped(c, W, w) == c.prev[w] = c.listed[w] /\ (c.listed[w] # None => W[w] = 0)
Back(c, W, w)    == c.listed[w] # None => W[w] = c.listed[w] \/ (w \in c.lost /\ W[w] = 0)
\* A workload of these types that no listing had is not deployed.
Seen(c, W, types) == \A w \in Workload : Type[w] \in types /\ c.listed[w] = None => W[w] = None

\* The patches of scaleMounters between the listing of a type and the next.
Patching(c, W, type) ==
  /\ c.todo # {} /\ Seen(c, W, {"deploy", type})
  /\ \A w \in Workload :
       /\ IF w \in c.todo THEN Type[w] = type /\ c.listed[w] # None /\ W[w] = c.listed[w] /\ c.prev[w] = None
          ELSE Stopped(c, W, w)
       /\ Type[w] \notin {"deploy", type} => c.listed[w] = None

\* The counts W of a restore's server, unless somebody else has changed them.
CountsOK(c, W) ==
  /\ c.pc = "scale" => \E type \in {"deploy", "sts"} : Patching(c, W, type)
  /\ c.pc = "listSts" =>
       /\ Seen(c, W, {"deploy"})
       /\ \A w \in Workload : Stopped(c, W, w) /\ (Type[w] # "deploy" => c.listed[w] = None)
  /\ c.pc \in {"wait", "create"} \cup InJob =>
       Seen(c, W, {"deploy", "sts"}) /\ \A w \in Workload : Stopped(c, W, w)
  /\ c.pc = "restart" =>
       \A w \in Workload : c.prev[w] = c.listed[w] /\ IF w \in c.todo THEN W[w] = 0 ELSE Back(c, W, w)
  /\ c.pc = "returned" => \A w \in Workload : Back(c, W, w)

\* Nothing else writes to its volume: no pod, no Job J but its own.
Undisturbed(c, P, J) ==
  c.pc \in {"create"} \cup InJob =>
    /\ \A w \in Workload : P[w] = 0
    /\ \A t \in Slot : J[t] # None /\ J[t].on = c.on /\ J[t].pc = "running" /\ J[t].kind = "restore" => t = c.job

\* Its Job writes its snapshot.
OwnJob(c, V, j) ==
  c.pc \in InJob =>
    /\ j.kind = "restore" /\ j.on = c.on /\ j.content = c.content /\ j.whole
    /\ j.pc = "done" => V = c.content
    /\ c.ok => j.pc = "done"

\* What the source holds is among what it has held.
CopyOK(c, V) ==
  /\ c.pc \in Streamed => V \in c.held
  /\ c.pc = "sumDest" => c.content \in c.held

RestoreOK(c, W, P, V, J) ==
  c.kind = "restore" /\ ~c.overtaken =>
    CountsOK(c, W[c.on]) /\ (~c.crossed => Undisturbed(c, P[c.on], J) /\ OwnJob(c, V[c.on], J[c.job]))

TypeInv ==
  /\ want \in [Server -> Counts] /\ pods \in [Server -> [Workload -> Nat]]
  /\ volume \in [Server -> Content] /\ repo \in [Server -> Repo]
  /\ secret \in Content \cup {None} /\ copied \in [Server -> Content \cup {None}]
  /\ job \in [Slot -> Job \cup {None}] /\ cmd \in [Machine -> Command]
  /\ fresh \in 1..(MaxFresh + 1) /\ others \in Nat /\ kills \in 0..MaxKills
  /\ plan \in [Machine -> Seq(Commands \X Server)]

\* Each Job is waited for by one command at most, which finds it.
JobsOK(cs, J) ==
  /\ \A m \in Machine : cs[m].job # None => J[cs[m].job] # None /\ ~J[cs[m].job].doomed
  /\ \A m, n \in Machine : m # n /\ cs[m].job # None => cs[n].job # cs[m].job

\* The inductive invariant.
Inv ==
  /\ TypeInv /\ JobsOK(cmd, job) /\ SnapshotsReadable
  /\ \A m \in Machine :
       /\ Shape(cmd[m]) /\ Known(cmd[m], secret)
       /\ RestoreOK(cmd[m], want, pods, volume, job)
       /\ cmd[m].kind = "copy" => CopyOK(cmd[m], volume[cmd[m].on])

-----------------------------------------------------------------------------
LEMMA Some ==
  /\ MaxFresh \in Nat /\ MaxKills \in Nat /\ Slot \subseteq Nat /\ 0 \in Content /\ Content \subseteq Nat
  /\ None \notin Nat /\ None \notin Server /\ None \notin Machine /\ None \notin Job /\ None \notin Slot /\ None \notin Content
  <1>1. MaxFresh \in Nat /\ MaxKills \in Nat /\ Slot \subseteq Nat
    BY VolumesAssumption
  <1>2. 0 \in Content /\ Content \subseteq Nat
    BY <1>1 DEF Content
  <1>3. None \notin Nat /\ None \notin Server /\ None \notin Machine /\ None \notin Job
    BY NoneAssumption
  <1>4. QED
    BY <1>1, <1>2, <1>3

\* The first of the free slots is one of them.
LEMMA FirstFree ==
  ASSUME NEW S, S \subseteq Nat, S # {}
  PROVE  Min(S) \in S
  <1> DEFINE R == {p \in Nat \X Nat : p[1] < p[2]}
  <1>1. IsWellFoundedOn(R, Nat)
    BY NatLessThanWellFounded DEF OpToRel
  <1> HIDE DEF R
  <1>2. PICK x \in S : \A y \in S : <<y, x>> \notin R
    BY <1>1, WFMin
  <1>3. ASSUME NEW y \in S PROVE x <= y
    <2>1. x \in Nat /\ y \in Nat
      BY <1>2
    <2>2. ~(y < x)
      BY <1>2, <2>1 DEF R
    <2>3. QED
      BY <2>1, <2>2
  <1>4. QED
    BY <1>2, <1>3 DEF Min

LEMMA IdleOK ==
  /\ Idle \in Command /\ Idle.pc = "idle" /\ Idle.kind = None /\ Idle.job = None /\ ~Idle.ok /\ ~Idle.existed
  /\ Idle.listed = Nothing /\ Idle.prev = Nothing /\ Idle.held = {} /\ ~Idle.overtaken /\ ~Idle.crossed /\ Idle.lost = {} /\ Nothing \in Counts
  BY Some DEF Idle, Command, PC, Nothing, Counts, Commands

-----------------------------------------------------------------------------
\* d is c, but for what others do to it.
Touched(c, d) ==
  /\ d \in Command /\ d.pc = c.pc /\ d.kind = c.kind /\ d.on = c.on /\ d.to = c.to /\ d.content = c.content
  /\ d.listed = c.listed /\ d.prev = c.prev /\ d.todo = c.todo /\ d.job = c.job /\ d.password = c.password
  /\ d.existed = c.existed /\ d.ok = c.ok /\ d.lost = c.lost
  /\ c.overtaken => d.overtaken
  /\ c.crossed => d.crossed
  /\ c.held \subseteq d.held

\* Job j is i, but that somebody may have written to its volume.
Alike(i, j) ==
  /\ i # None <=> j # None
  /\ i # None => /\ j.on = i.on /\ j.kind = i.kind /\ j.pc = i.pc /\ j.content = i.content
                 /\ j.scheduled = i.scheduled /\ j.doomed = i.doomed

LEMMA TouchedSelf ==
  ASSUME NEW c \in Command
  PROVE  Touched(c, c)
  BY DEF Touched

LEMMA TouchedTwice ==
  ASSUME NEW c, NEW d, NEW e, Touched(c, d), Touched(d, e)
  PROVE  Touched(c, e)
  BY DEF Touched

LEMMA SpoiltCommandsOK ==
  ASSUME NEW cs \in [Machine -> Command], NEW s, NEW x \in Content
  PROVE  /\ SpoiltCommands(cs, s, x) \in [Machine -> Command]
         /\ \A n \in Machine :
              /\ Touched(cs[n], SpoiltCommands(cs, s, x)[n])
              /\ SpoiltCommands(cs, s, x)[n].overtaken = cs[n].overtaken
              /\ cs[n].pc \in Streamed /\ cs[n].on = s => x \in SpoiltCommands(cs, s, x)[n].held
  <1> DEFINE r == SpoiltCommands(cs, s, x)
  <1>1. ASSUME NEW n \in Machine
        PROVE  /\ Touched(cs[n], r[n]) /\ r[n].overtaken = cs[n].overtaken
               /\ cs[n].pc \in Streamed /\ cs[n].on = s => x \in r[n].held
    <2> DEFINE c == cs[n]
               b == c.whole /\ s \notin {c.on, c.to}
               h == IF c.on = s THEN c.held \cup {x} ELSE c.held
    <2>1. c \in Command
      OBVIOUS
    <2>2. CASE c.pc \notin Streamed
      <3>1. r[n] = c
        BY <2>2 DEF SpoiltCommands, Streamed
      <3>2. QED
        BY <2>1, <2>2, <3>1, TouchedSelf
    <2>3. CASE c.pc \in Streamed
      <3>1. r[n] = [c EXCEPT !.whole = b, !.held = h]
        BY <2>3 DEF SpoiltCommands, Streamed
      <3>2. b \in BOOLEAN
        OBVIOUS
      <3>3. h \in SUBSET Content /\ c.held \subseteq h /\ (c.on = s => x \in h)
        BY <2>1 DEF Command
      <3> HIDE DEF b, h, r
      <3>4. Touched(c, r[n]) /\ r[n].overtaken = c.overtaken /\ r[n].held = h
        BY <2>1, <3>1, <3>2, <3>3, ZenonT(60) DEF Touched, Command
      <3>5. QED
        BY <3>3, <3>4
    <2>4. QED
      BY <2>2, <2>3
  <1>2. r \in [Machine -> Command]
    <2>1. \A n \in Machine : r[n] \in Command
      BY <1>1 DEF Touched
    <2>2. DOMAIN r = Machine /\ r = [n \in Machine |-> r[n]]
      BY DEF SpoiltCommands
    <2> HIDE DEF r
    <2>3. QED
      BY <2>1, <2>2
  <1>3. QED
    BY <1>1, <1>2

LEMMA OvertakenOK ==
  ASSUME NEW cs \in [Machine -> Command], NEW s, NEW m
  PROVE  /\ Overtaken(cs, s, m) \in [Machine -> Command]
         /\ \A n \in Machine :
              /\ Touched(cs[n], Overtaken(cs, s, m)[n])
              /\ Overtaken(cs, s, m)[n].held = cs[n].held
              /\ n # m /\ cs[n].kind = "restore" /\ cs[n].on = s => Overtaken(cs, s, m)[n].overtaken
         /\ m \in Machine => Overtaken(cs, s, m)[m] = cs[m]
  <1> DEFINE r == Overtaken(cs, s, m)
  <1>1. ASSUME NEW n \in Machine
        PROVE  /\ Touched(cs[n], r[n]) /\ r[n].held = cs[n].held
               /\ n # m /\ cs[n].kind = "restore" /\ cs[n].on = s => r[n].overtaken
               /\ n = m => r[n] = cs[n]
    <2>1. CASE n # m /\ cs[n].kind = "restore" /\ cs[n].on = s
      <3>1. r[n] = [cs[n] EXCEPT !.overtaken = TRUE]
        BY <2>1 DEF Overtaken
      <3>2. ASSUME NEW c \in Command, NEW d, d = [c EXCEPT !.overtaken = TRUE]
            PROVE  Touched(c, d) /\ d.held = c.held /\ d.overtaken
        BY <3>2 DEF Touched, Command
      <3>3. QED
        BY <2>1, <3>1, <3>2
    <2>2. CASE ~(n # m /\ cs[n].kind = "restore" /\ cs[n].on = s)
      <3>1. r[n] = cs[n]
        BY <2>2 DEF Overtaken
      <3>2. QED
        BY <2>2, <3>1, TouchedSelf
    <2>3. QED
      BY <2>1, <2>2
  <1>2. r \in [Machine -> Command]
    <2>1. \A n \in Machine : r[n] \in Command
      BY <1>1 DEF Touched
    <2>2. DOMAIN r = Machine /\ r = [n \in Machine |-> r[n]]
      BY DEF Overtaken
    <2> HIDE DEF r
    <2>3. QED
      BY <2>1, <2>2
  <1>3. QED
    BY <1>1, <1>2

LEMMA SpoiltJobsOK ==
  ASSUME job \in [Slot -> Job \cup {None}], NEW s, NEW t
  PROVE  /\ SpoiltJobs(s, t) \in [Slot -> Job \cup {None}]
         /\ \A u \in Slot :
              /\ Alike(job[u], SpoiltJobs(s, t)[u])
              /\ u = t \/ u \notin Running(s) => SpoiltJobs(s, t)[u] = job[u]
  <1> DEFINE r == SpoiltJobs(s, t)
  <1>1. ASSUME NEW u \in Slot
        PROVE  /\ r[u] \in Job \cup {None} /\ Alike(job[u], r[u])
               /\ u = t \/ u \notin Running(s) => r[u] = job[u]
    <2>1. CASE u # t /\ u \in Running(s)
      <3>1. r[u] = [job[u] EXCEPT !.whole = FALSE] /\ job[u] \in Job
        BY <2>1 DEF SpoiltJobs, Running
      <3>2. r[u] \in Job /\ job[u] # None /\ r[u] # None
        BY <3>1, Some DEF Job
      <3>3. QED
        BY <2>1, <3>1, <3>2 DEF Alike, Job
    <2>2. CASE ~(u # t /\ u \in Running(s))
      <3>1. r[u] = job[u]
        BY <2>2 DEF SpoiltJobs
      <3>2. QED
        BY <2>2, <3>1 DEF Alike
    <2>3. QED
      BY <2>1, <2>2
  <1>2. r = [u \in Slot |-> r[u]]
    BY DEF SpoiltJobs
  <1> HIDE DEF r
  <1>3. r \in [Slot -> Job \cup {None}]
    BY <1>1, <1>2
  <1>4. QED
    BY <1>1, <1>3 DEF r

-----------------------------------------------------------------------------
\* What a restore relies on is left to it, unless it has been overtaken.
Spared(c, d) ==
  c.kind = "restore" /\ ~d.overtaken /\ CountsOK(c, want[c.on]) =>
    /\ want'[c.on] = want[c.on]
    /\ ~d.crossed /\ Undisturbed(c, pods[c.on], job) /\ OwnJob(c, volume[c.on], job[c.job])
         => Undisturbed(c, pods'[c.on], job') /\ OwnJob(c, volume'[c.on], job'[c.job])

\* What comes to the source is seen.
Witnessed(c, d) == c.pc \in Streamed => volume'[c.on] \in {volume[c.on]} \cup d.held

\* The part of the invariant that is about the machine m.
MachineOK(m) ==
  /\ Shape(cmd[m]) /\ Known(cmd[m], secret)
  /\ RestoreOK(cmd[m], want, pods, volume, job)
  /\ cmd[m].kind = "copy" => CopyOK(cmd[m], volume[cmd[m].on])

LEMMA ShapeKept ==
  ASSUME NEW c, NEW d, Touched(c, d), Shape(c)
  PROVE  Shape(d)
  BY DEF Shape, Touched

LEMMA CountsKept ==
  ASSUME NEW c, NEW d, Touched(c, d), NEW W, CountsOK(c, W)
  PROVE  CountsOK(d, W)
  BY DEF CountsOK, Patching, Stopped, Back, Seen, Touched

LEMMA OneKept ==
  ASSUME Inv, NEW n \in Machine, Touched(cmd[n], cmd'[n]), Known(cmd[n], secret'),
         Spared(cmd[n], cmd'[n]), Witnessed(cmd[n], cmd'[n])
  PROVE  MachineOK(n)'
  <1> DEFINE c == cmd[n]
             d == cmd'[n]
  <1>1. Shape(c) /\ RestoreOK(c, want, pods, volume, job) /\ (c.kind = "copy" => CopyOK(c, volume[c.on]))
    BY DEF Inv
  <1>2. Shape(d)
    BY <1>1, ShapeKept
  <1>3. Known(d, secret')
    BY DEF Known, Touched
  <1>4. RestoreOK(d, want', pods', volume', job')
    <2>1. SUFFICES ASSUME d.kind = "restore", ~d.overtaken
                   PROVE  /\ CountsOK(d, want'[d.on])
                          /\ ~d.crossed => Undisturbed(d, pods'[d.on], job') /\ OwnJob(d, volume'[d.on], job'[d.job])
      BY DEF RestoreOK
    <2>2. c.kind = "restore" /\ ~c.overtaken /\ d.on = c.on /\ d.job = c.job /\ (~d.crossed => ~c.crossed)
      BY <2>1 DEF Touched
    <2>3. /\ CountsOK(c, want[c.on])
          /\ ~c.crossed => Undisturbed(c, pods[c.on], job) /\ OwnJob(c, volume[c.on], job[c.job])
      BY <1>1, <2>2 DEF RestoreOK
    <2>4. /\ want'[c.on] = want[c.on]
          /\ ~d.crossed => Undisturbed(c, pods'[c.on], job') /\ OwnJob(c, volume'[c.on], job'[c.job])
      BY <2>1, <2>2, <2>3 DEF Spared
    <2>5. CountsOK(d, want'[d.on])
      BY <2>2, <2>3, <2>4, CountsKept
    <2>6. ~d.crossed => Undisturbed(d, pods'[d.on], job') /\ OwnJob(d, volume'[d.on], job'[d.job])
      BY <2>2, <2>4 DEF Undisturbed, OwnJob, Touched
    <2>7. QED
      BY <2>5, <2>6
  <1>5. ASSUME d.kind = "copy" PROVE CopyOK(d, volume'[d.on])
    <2>1. CopyOK(c, volume[c.on])
      BY <1>1, <1>5 DEF Touched
    <2>2. QED
      BY <2>1 DEF CopyOK, Touched, Witnessed, Streamed
  <1>6. QED
    BY <1>2, <1>3, <1>4, <1>5 DEF MachineOK

\* A step of the world beside the commands.
LEMMA EnvStep ==
  ASSUME Inv, TypeInv', SnapshotsReadable', UNCHANGED secret,
         \A n \in Machine : /\ Touched(cmd[n], cmd'[n]) /\ Spared(cmd[n], cmd'[n]) /\ Witnessed(cmd[n], cmd'[n])
                            /\ cmd[n].job # None => /\ job'[cmd[n].job] # None
                                                    /\ job'[cmd[n].job].doomed = job[cmd[n].job].doomed
  PROVE  Inv'
  <1>1. \A n \in Machine : MachineOK(n)'
    BY OneKept DEF Inv
  <1>2. JobsOK(cmd', job')
    <2>1. \A n \in Machine : cmd'[n].job = cmd[n].job
      BY DEF Touched
    <2>2. JobsOK(cmd, job)
      BY DEF Inv
    <2>3. QED
      BY <2>1, <2>2 DEF JobsOK
  <1>3. QED
    BY <1>1, <1>2 DEF Inv, MachineOK

\* A step of the command of m.
LEMMA MachineStep ==
  ASSUME Inv, TypeInv', SnapshotsReadable', JobsOK(cmd', job'), NEW m \in Machine, MachineOK(m)',
         \A n \in Machine \ {m} : /\ Touched(cmd[n], cmd'[n]) /\ Known(cmd[n], secret')
                                  /\ Spared(cmd[n], cmd'[n]) /\ Witnessed(cmd[n], cmd'[n])
  PROVE  Inv'
  <1>1. \A n \in Machine : MachineOK(n)'
    BY OneKept
  <1>2. QED
    BY <1>1 DEF Inv, MachineOK

\* A step of the command of m that only looks at the world.
LEMMA QuietStep ==
  ASSUME Inv, NEW m \in Machine, NEW c \in Command, Become(m, c), c.job \in {cmd[m].job, None},
         UNCHANGED <<want, pods, volume, repo, secret, copied, job, others>>,
         fresh' \in 1..(MaxFresh + 1), kills' \in 0..MaxKills, plan' \in [Machine -> Seq(Commands \X Server)],
         Shape(c), Known(c, secret), RestoreOK(c, want, pods, volume, job),
         c.kind = "copy" => CopyOK(c, volume[c.on])
  PROVE  Inv'
  <1>1. cmd' = [cmd EXCEPT ![m] = c] /\ cmd \in [Machine -> Command]
    BY DEF Become, Inv, TypeInv
  <1>2. cmd'[m] = c /\ \A n \in Machine \ {m} : cmd'[n] = cmd[n]
    BY <1>1
  <1>3. TypeInv' /\ SnapshotsReadable'
    BY <1>1 DEF Inv, TypeInv, SnapshotsReadable
  <1>4. JobsOK(cmd', job')
    <2>1. JobsOK(cmd, job)
      BY DEF Inv
    <2>2. job' = job /\ \A n \in Machine : cmd'[n].job # None => cmd'[n].job = cmd[n].job
      BY <1>2
    <2>3. QED
      BY <2>1, <2>2 DEF JobsOK
  <1>5. MachineOK(m)'
    BY <1>2 DEF MachineOK
  <1>6. ASSUME NEW n \in Machine \ {m}
        PROVE  /\ Touched(cmd[n], cmd'[n]) /\ Known(cmd[n], secret')
               /\ Spared(cmd[n], cmd'[n]) /\ Witnessed(cmd[n], cmd'[n])
    <2>1. cmd'[n] = cmd[n] /\ cmd[n] \in Command
      BY <1>1, <1>2
    <2>2. Known(cmd[n], secret')
      BY DEF Inv
    <2>3. Spared(cmd[n], cmd'[n]) /\ Witnessed(cmd[n], cmd'[n])
      BY DEF Spared, Witnessed
    <2>4. QED
      BY <2>1, <2>2, <2>3, TouchedSelf
  <1>7. QED
    BY <1>3, <1>4, <1>5, <1>6, MachineStep

-----------------------------------------------------------------------------
LEMMA Typed ==
  ASSUME Inv
  PROVE  /\ want \in [Server -> Counts] /\ pods \in [Server -> [Workload -> Nat]] /\ volume \in [Server -> Content]
         /\ repo \in [Server -> Repo] /\ secret \in Content \cup {None} /\ copied \in [Server -> Content \cup {None}]
         /\ job \in [Slot -> Job \cup {None}] /\ cmd \in [Machine -> Command] /\ fresh \in 1..(MaxFresh + 1)
         /\ others \in Nat /\ kills \in 0..MaxKills /\ plan \in [Machine -> Seq(Commands \X Server)]
  BY DEF Inv, TypeInv

\* An up or a down of s: the restores there are overtaken.
LEMMA AppStep ==
  ASSUME Inv, NEW s \in Server, NEW W \in Counts, NEW p \in Content \cup {None}, p \in {copied[s], secret},
         want' = [want EXCEPT ![s] = W], copied' = [copied EXCEPT ![s] = p],
         secret = None => p = copied[s],
         cmd' = Overtaken(cmd, s, None), others > 0, others' = others - 1,
         UNCHANGED <<pods, volume, repo, secret, job, fresh, kills, plan>>
  PROVE  Inv'
  <1>1. cmd' \in [Machine -> Command]
    BY Typed, OvertakenOK
  <1>2. others' \in Nat
    BY Typed
  <1>3. want' \in [Server -> Counts] /\ copied' \in [Server -> Content \cup {None}]
    BY Typed
  <1>4. TypeInv'
    BY <1>1, <1>2, <1>3 DEF Inv, TypeInv
  <1>5. SnapshotsReadable'
    BY Typed DEF Inv, SnapshotsReadable
  <1>6. ASSUME NEW n \in Machine
        PROVE  /\ Touched(cmd[n], cmd'[n]) /\ Spared(cmd[n], cmd'[n]) /\ Witnessed(cmd[n], cmd'[n])
    <2>1. /\ Touched(cmd[n], cmd'[n])
          /\ cmd[n].kind = "restore" /\ cmd[n].on = s => cmd'[n].overtaken
      BY Typed, Some, OvertakenOK
    <2>2. cmd[n].on # s => want'[cmd[n].on] = want[cmd[n].on]
      BY Typed
    <2>3. Spared(cmd[n], cmd'[n]) /\ Witnessed(cmd[n], cmd'[n])
      BY <2>1, <2>2 DEF Spared, Witnessed
    <2>4. QED
      BY <2>1, <2>3
  <1>7. \A n \in Machine : cmd[n].job # None => job'[cmd[n].job] # None /\ job'[cmd[n].job].doomed = job[cmd[n].job].doomed
    BY DEF Inv, JobsOK
  <1>8. QED
    BY <1>4, <1>5, <1>6, <1>7, EnvStep

LEMMA UpKeeps ==
  ASSUME Inv, NEW s \in Server, Up(s)
  PROVE  Inv'
  <1> DEFINE p == IF secret # None THEN secret ELSE copied[s]
  <1>1. /\ others > 0 /\ others' = others - 1
        /\ want' = [want EXCEPT ![s] = Replicas[s]] /\ copied' = [copied EXCEPT ![s] = p]
        /\ cmd' = Overtaken(cmd, s, None)
        /\ UNCHANGED <<pods, volume, repo, secret, job, fresh, kills, plan>>
    BY DEF Up
  <1>2. p \in Content \cup {None} /\ p \in {copied[s], secret} /\ (secret = None => p = copied[s])
    BY Typed
  <1>3. Replicas[s] \in Counts
    BY VolumesAssumption DEF Counts
  <1> HIDE DEF p
  <1>4. QED
    BY <1>1, <1>2, <1>3, AppStep

LEMMA DownKeeps ==
  ASSUME Inv, NEW s \in Server, Down(s)
  PROVE  Inv'
  <1>1. /\ others > 0 /\ others' = others - 1
        /\ want' = [want EXCEPT ![s] = Nothing] /\ copied' = copied
        /\ cmd' = Overtaken(cmd, s, None)
        /\ UNCHANGED <<pods, volume, repo, secret, job, fresh, kills, plan>>
    BY DEF Down, store
  <1>2. copied' = [copied EXCEPT ![s] = copied[s]] /\ copied[s] \in Content \cup {None}
    BY <1>1, Typed
  <1>3. Nothing \in Counts
    BY IdleOK
  <1>4. QED
    BY <1>1, <1>2, <1>3, AppStep

\* A pod comes or goes: none comes where no count asks for one.
LEMMA PodStep ==
  ASSUME Inv, NEW s \in Server, NEW w \in Workload, NEW k \in Nat,
         pods' = [pods EXCEPT ![s][w] = k],
         pods[s][w] = 0 => want[s][w] \notin {None, 0} /\ Type[w] # "cron",
         UNCHANGED <<want, volume, repo, secret, copied, job, cmd, fresh, others, kills, plan>>
  PROVE  Inv'
  <1>1. pods' \in [Server -> [Workload -> Nat]]
    BY Typed
  <1>2. TypeInv' /\ SnapshotsReadable'
    BY <1>1 DEF Inv, TypeInv, SnapshotsReadable
  <1>3. ASSUME NEW n \in Machine PROVE Spared(cmd[n], cmd'[n])
    <2> DEFINE c == cmd[n]
    <2>1. SUFFICES ASSUME c.kind = "restore", CountsOK(c, want[c.on]), Undisturbed(c, pods[c.on], job)
                   PROVE  Undisturbed(c, pods'[c.on], job)
      BY DEF Spared
    <2>2. CASE c.pc \notin {"create"} \cup InJob
      BY <2>2 DEF Undisturbed
    <2>3. CASE c.pc \in {"create"} \cup InJob
      <3>1. pods[c.on][w] = 0 /\ (Type[w] \in {"deploy", "sts"} => want[c.on][w] \in {None, 0})
        BY <2>1, <2>3 DEF Undisturbed, CountsOK, Seen, Stopped
      <3>2. c.on # s
        BY <3>1, VolumesAssumption
      <3>3. pods'[c.on] = pods[c.on]
        BY <3>2, Typed
      <3>4. QED
        BY <2>1, <3>3
    <2>4. QED
      BY <2>2, <2>3
  <1>4. \A n \in Machine : Touched(cmd[n], cmd'[n]) /\ Witnessed(cmd[n], cmd'[n])
    BY Typed, TouchedSelf DEF Witnessed
  <1>5. \A n \in Machine : cmd[n].job # None => job'[cmd[n].job] # None /\ job'[cmd[n].job].doomed = job[cmd[n].job].doomed
    BY DEF Inv, JobsOK
  <1>6. QED
    BY <1>2, <1>3, <1>4, <1>5, EnvStep

LEMMA AddPodKeeps ==
  ASSUME Inv, NEW s \in Server, NEW w \in Workload, AddPod(s, w)
  PROVE  Inv'
  <1>1. /\ pods[s][w] < Kept(want, s, w) /\ pods' = [pods EXCEPT ![s][w] = @ + 1]
        /\ UNCHANGED <<want, volume, repo, secret, copied, job, cmd, fresh, others, kills, plan>>
    BY DEF AddPod, store, bounds
  <1>2. pods[s][w] \in Nat /\ want[s][w] \in Nat \cup {None}
    BY Typed DEF Counts
  <1>3. want[s][w] # None /\ Type[w] # "cron" /\ pods[s][w] < want[s][w]
    BY <1>1, <1>2 DEF Kept
  <1>4. pods[s][w] + 1 \in Nat /\ (pods[s][w] = 0 => want[s][w] \notin {None, 0} /\ Type[w] # "cron")
    BY <1>2, <1>3
  <1>5. pods' = [pods EXCEPT ![s][w] = pods[s][w] + 1]
    BY <1>1, Typed
  <1>6. QED
    BY <1>1, <1>4, <1>5, PodStep

LEMMA EndPodKeeps ==
  ASSUME Inv, NEW s \in Server, NEW w \in Workload, EndPod(s, w)
  PROVE  Inv'
  <1>1. /\ pods[s][w] > Kept(want, s, w) /\ pods' = [pods EXCEPT ![s][w] = @ - 1]
        /\ UNCHANGED <<want, volume, repo, secret, copied, job, cmd, fresh, others, kills, plan>>
    BY DEF EndPod, store, bounds
  <1>2. pods[s][w] \in Nat /\ Kept(want, s, w) \in Nat
    BY Typed DEF Counts, Kept
  <1>3. pods[s][w] - 1 \in Nat /\ pods[s][w] # 0
    BY <1>1, <1>2
  <1>4. pods' = [pods EXCEPT ![s][w] = pods[s][w] - 1]
    BY <1>1, Typed
  <1>5. QED
    BY <1>1, <1>3, <1>4, PodStep

\* A scheduled service runs: the restores there that wait for no pods any more
\* are crossed.
LEMMA RunScheduledKeeps ==
  ASSUME Inv, NEW s \in Server, NEW w \in Workload, RunScheduled(s, w)
  PROVE  Inv'
  <1> DEFINE Hit(c) == c.kind = "restore" /\ c.on = s /\ c.pc \in {"create", "poll", "delete"}
             crossing(c) == [c EXCEPT !.crossed = TRUE]
  <1>1. /\ others > 0 /\ others' = others - 1 /\ pods' = [pods EXCEPT ![s][w] = 1]
        /\ cmd' = [m \in Machine |-> IF Hit(cmd[m]) THEN crossing(cmd[m]) ELSE cmd[m]]
        /\ UNCHANGED <<want, volume, repo, secret, copied, job, fresh, kills, plan>>
    BY DEF RunScheduled, store
  <1>2. \A r \in Server \ {s} : pods'[r] = pods[r]
    BY <1>1, Typed
  <1>3. ASSUME NEW n \in Machine
        PROVE  Touched(cmd[n], cmd'[n]) /\ (Hit(cmd[n]) => cmd'[n].crossed)
    <2>1. cmd[n] \in Command /\ cmd'[n] = IF Hit(cmd[n]) THEN crossing(cmd[n]) ELSE cmd[n]
      BY <1>1, Typed
    <2>2. ASSUME NEW c \in Command, NEW d, d = [c EXCEPT !.crossed = TRUE] PROVE Touched(c, d) /\ d.crossed
      BY <2>2 DEF Touched, Command
    <2> HIDE DEF Hit
    <2>3. QED
      BY <2>1, <2>2, TouchedSelf
  <1>4. others' \in Nat /\ pods' \in [Server -> [Workload -> Nat]]
    BY <1>1, Typed
  <1>5. cmd' \in [Machine -> Command]
    <2> HIDE DEF Hit, crossing
    <2>1. QED
      BY <1>1, <1>3 DEF Touched
  <1>6. TypeInv' /\ SnapshotsReadable'
    BY <1>1, <1>4, <1>5 DEF Inv, TypeInv, SnapshotsReadable
  <1>7. ASSUME NEW n \in Machine PROVE Spared(cmd[n], cmd'[n]) /\ Witnessed(cmd[n], cmd'[n])
    <2> DEFINE c == cmd[n]
    <2>1. Witnessed(c, cmd'[n])
      BY <1>1 DEF Witnessed
    <2>2. CASE Hit(c) \/ c.kind # "restore"
      BY <1>1, <1>3, <2>1, <2>2 DEF Spared
    <2>3. CASE c.pc \notin {"create"} \cup InJob
      BY <1>1, <2>1, <2>3 DEF Spared, Undisturbed, OwnJob
    <2>4. CASE c.on # s /\ c.pc \in {"create"} \cup InJob
      <3>1. c.on \in Server
        BY <2>4 DEF Inv, InJob, Shape
      <3>2. pods'[c.on] = pods[c.on]
        BY <1>2, <2>4, <3>1
      <3>3. QED
        BY <1>1, <2>1, <3>2 DEF Spared
    <2>5. QED
      BY <2>2, <2>3, <2>4 DEF InJob
  <1>8. \A n \in Machine : cmd[n].job # None => job'[cmd[n].job] # None /\ job'[cmd[n].job].doomed = job[cmd[n].job].doomed
    BY <1>1 DEF Inv, JobsOK
  <1>9. QED
    BY <1>1, <1>3, <1>6, <1>7, <1>8, EnvStep

-----------------------------------------------------------------------------
\* A Job comes, goes or goes on, and does not write to the volume.
LEMMA SlotStep ==
  ASSUME Inv, NEW t \in Slot, NEW j \in Job \cup {None}, job' = [job EXCEPT ![t] = j],
         ~(j # None /\ j.pc = "running" /\ j.kind = "restore"),
         \A n \in Machine : cmd[n].job = t =>
           /\ j # None /\ j.doomed = job[t].doomed
           /\ OwnJob(cmd[n], volume[cmd[n].on], job[t]) => OwnJob(cmd[n], volume[cmd[n].on], j),
         UNCHANGED <<want, pods, volume, secret, copied, cmd, kills, plan>>,
         others' \in Nat, repo' \in [Server -> Repo], fresh' \in 1..(MaxFresh + 1), SnapshotsReadable'
  PROVE  Inv'
  <1>1. job' \in [Slot -> Job \cup {None}] /\ job'[t] = j /\ \A u \in Slot \ {t} : job'[u] = job[u]
    BY Typed
  <1>2. TypeInv'
    BY <1>1 DEF Inv, TypeInv
  <1>3. ASSUME NEW n \in Machine, cmd[n].job # None
        PROVE  job'[cmd[n].job] # None /\ job'[cmd[n].job].doomed = job[cmd[n].job].doomed
    <2>1. job[cmd[n].job] # None /\ cmd[n].job \in Slot
      BY <1>3, Typed DEF Inv, JobsOK, Command
    <2>2. QED
      BY <1>1, <2>1
  <1>4. ASSUME NEW n \in Machine PROVE Spared(cmd[n], cmd'[n])
    <2> DEFINE c == cmd[n]
    <2>1. SUFFICES ASSUME c.kind = "restore", Undisturbed(c, pods[c.on], job), OwnJob(c, volume[c.on], job[c.job])
                   PROVE  Undisturbed(c, pods[c.on], job') /\ OwnJob(c, volume[c.on], job'[c.job])
      BY DEF Spared
    <2>2. Undisturbed(c, pods[c.on], job')
      <3>1. ASSUME NEW u \in Slot, job'[u] # None, job'[u].on = c.on, job'[u].pc = "running", job'[u].kind = "restore"
            PROVE  job[u] # None /\ job[u].on = c.on /\ job[u].pc = "running" /\ job[u].kind = "restore"
        BY <1>1, <3>1
      <3>2. QED
        BY <2>1, <3>1 DEF Undisturbed
    <2>3. OwnJob(c, volume[c.on], job'[c.job])
      <3>1. CASE c.pc \notin InJob
        BY <3>1 DEF OwnJob
      <3>2. CASE c.pc \in InJob
        <4>1. c.job \in Slot
          BY <3>2, Typed DEF Inv, Shape, Command
        <4>2. CASE c.job = t
          BY <1>1, <2>1, <4>2
        <4>3. CASE c.job # t
          BY <1>1, <2>1, <4>1, <4>3
        <4>4. QED
          BY <4>2, <4>3
      <3>3. QED
        BY <3>1, <3>2
    <2>4. QED
      BY <2>2, <2>3
  <1>5. \A n \in Machine : Touched(cmd[n], cmd'[n]) /\ Witnessed(cmd[n], cmd'[n])
    BY Typed, TouchedSelf DEF Witnessed
  <1>6. QED
    BY <1>2, <1>3, <1>4, <1>5, EnvStep

\* Nobody waits for a Job in a free slot.
LEMMA FreeSlot ==
  ASSUME Inv, Free # {}
  PROVE  /\ Min(Free) \in Slot /\ job[Min(Free)] = None
         /\ \A n \in Machine : cmd[n].job # Min(Free)
  <1>1. Min(Free) \in Free
    BY FirstFree, Some DEF Free
  <1>2. Min(Free) \in Slot /\ job[Min(Free)] = None
    BY <1>1 DEF Free
  <1>3. \A n \in Machine : cmd[n].job # None => job[cmd[n].job] # None
    BY DEF Inv, JobsOK
  <1>4. QED
    BY <1>2, <1>3, Some

LEMMA FireKeeps ==
  ASSUME Inv, NEW s \in Server, Fire(s)
  PROVE  Inv'
  <1> DEFINE t == Min(Free)
             j == NewJob(s, "backup", 0, TRUE)
  <1>1. /\ Free # {} /\ others > 0 /\ others' = others - 1 /\ job' = [job EXCEPT ![t] = j]
        /\ UNCHANGED <<want, pods, volume, repo, secret, copied, cmd, fresh, kills, plan>>
    BY DEF Fire, app, store
  <1>2. j \in Job /\ j.pc = "created"
    <2>1. 0 \in Content
      BY Some
    <2>2. QED
      BY <2>1 DEF NewJob, Job
  <1>3. t \in Slot /\ \A n \in Machine : cmd[n].job # t
    BY <1>1, FreeSlot
  <1>4. others' \in Nat /\ repo' \in [Server -> Repo] /\ fresh' \in 1..(MaxFresh + 1)
    BY <1>1, Typed
  <1>5. SnapshotsReadable'
    BY <1>1 DEF Inv, SnapshotsReadable
  <1> HIDE DEF t, j
  <1>6. j \in Job \cup {None} /\ ~(j # None /\ j.pc = "running" /\ j.kind = "restore")
    BY <1>2
  <1>7. \A n \in Machine : cmd[n].job = t =>
          /\ j # None /\ j.doomed = job[t].doomed
          /\ OwnJob(cmd[n], volume[cmd[n].on], job[t]) => OwnJob(cmd[n], volume[cmd[n].on], j)
    BY <1>3
  <1>8. QED
    BY <1>1, <1>3, <1>4, <1>5, <1>6, <1>7, SlotStep

LEMMA EndedOK ==
  ASSUME Inv, NEW t \in Slot, job[t] # None, NEW pc \in {"done", "failed"}
  PROVE  /\ Ended(t, pc) \in Job \cup {None}
         /\ Ended(t, pc) # None => /\ Ended(t, pc).pc = pc /\ Ended(t, pc).on = job[t].on
                                   /\ Ended(t, pc).kind = job[t].kind /\ Ended(t, pc).content = job[t].content
                                   /\ Ended(t, pc).whole = job[t].whole /\ Ended(t, pc).doomed = job[t].doomed
         /\ (\E m \in Machine : cmd[m].job = t) => Ended(t, pc) # None
  <1>1. job[t] \in Job
    BY Typed
  <1>2. [job[t] EXCEPT !.pc = pc] \in Job /\ [job[t] EXCEPT !.pc = pc] # None
    <2>1. [job[t] EXCEPT !.pc = pc] \in Job
      BY <1>1 DEF Job
    <2>2. QED
      BY <2>1, Some
  <1>3. CASE \E m \in Machine : cmd[m].job = t
    <2>1. Ended(t, pc) = [job[t] EXCEPT !.pc = pc]
      BY <1>3 DEF Ended
    <2>2. QED
      BY <1>1, <1>2, <2>1 DEF Job
  <1>4. CASE ~\E m \in Machine : cmd[m].job = t
    <2>1. Ended(t, pc) = None
      BY <1>4 DEF Ended
    <2>2. QED
      BY <1>4, <2>1
  <1>5. QED
    BY <1>3, <1>4

LEMMA StopJobKeeps ==
  ASSUME Inv, NEW t \in Slot, StopJob(t)
  PROVE  Inv'
  <1> DEFINE j == IF job[t].doomed THEN None ELSE Ended(t, "failed")
  <1>1. /\ job[t] # None /\ (job[t].pc \in {"created", "running"} \/ job[t].doomed) /\ job' = [job EXCEPT ![t] = j]
        /\ UNCHANGED <<want, pods, volume, repo, secret, copied, cmd, fresh, others, kills, plan>>
    BY DEF StopJob, app, store, bounds
  <1>2. j \in Job \cup {None} /\ (j # None => j.pc = "failed")
    BY <1>1, EndedOK
  <1>3. ASSUME NEW n \in Machine, cmd[n].job = t
        PROVE  /\ j # None /\ j.doomed = job[t].doomed
               /\ OwnJob(cmd[n], volume[cmd[n].on], job[t]) => OwnJob(cmd[n], volume[cmd[n].on], j)
    <2>1. ~job[t].doomed
      BY <1>3, Some DEF Inv, JobsOK
    <2>2. j = Ended(t, "failed") /\ j # None
      BY <1>1, <1>3, <2>1, EndedOK
    <2>3. /\ j.pc = "failed" /\ j.on = job[t].on /\ j.kind = job[t].kind /\ j.content = job[t].content
          /\ j.whole = job[t].whole /\ j.doomed = job[t].doomed
      BY <1>1, <2>2, EndedOK
    <2>4. job[t].pc # "done"
      BY <1>1, <2>1
    <2> HIDE DEF j
    <2>5. QED
      BY <2>2, <2>3, <2>4 DEF OwnJob
  <1>4. others' \in Nat /\ repo' \in [Server -> Repo] /\ fresh' \in 1..(MaxFresh + 1)
    BY <1>1, Typed
  <1>5. SnapshotsReadable'
    BY <1>1 DEF Inv, SnapshotsReadable
  <1> HIDE DEF j
  <1>6. ~(j # None /\ j.pc = "running" /\ j.kind = "restore")
    BY <1>2
  <1>7. \A n \in Machine : cmd[n].job = t =>
          /\ j # None /\ j.doomed = job[t].doomed
          /\ OwnJob(cmd[n], volume[cmd[n].on], job[t]) => OwnJob(cmd[n], volume[cmd[n].on], j)
    BY <1>3
  <1>8. QED
    BY <1>1, <1>2, <1>4, <1>5, <1>6, <1>7, SlotStep

-----------------------------------------------------------------------------
\* A restore of another server, or one that does not rely on the volume yet, is
\* spared by what is written to s and by the Jobs there.
LEMMA Elsewhere ==
  ASSUME Inv, NEW s, NEW n \in Machine, NEW d, cmd[n].on # s \/ cmd[n].pc \notin {"create"} \cup InJob,
         want' = want, pods' = pods, \A r \in Server \ {s} : volume'[r] = volume[r],
         \A u \in Slot : \/ job'[u] = job[u]
                         \/ job[u] # None /\ job[u].on = s /\ (job'[u] = None \/ job'[u].on = s)
  PROVE  Spared(cmd[n], d)
  <1> DEFINE c == cmd[n]
  <1>1. SUFFICES ASSUME Undisturbed(c, pods[c.on], job), OwnJob(c, volume[c.on], job[c.job])
                 PROVE  Undisturbed(c, pods[c.on], job') /\ OwnJob(c, volume'[c.on], job'[c.job])
    BY DEF Spared
  <1>2. CASE c.pc \notin {"create"} \cup InJob
    BY <1>2 DEF Undisturbed, OwnJob
  <1>3. CASE c.pc \in {"create"} \cup InJob
    <2>1. c.on \in Server /\ c.on # s
      BY <1>3 DEF Inv, Shape, InJob
    <2>2. Undisturbed(c, pods[c.on], job')
      <3>1. ASSUME NEW u \in Slot, job'[u] # None, job'[u].on = c.on PROVE job'[u] = job[u]
        BY <2>1, <3>1
      <3>2. QED
        BY <1>1, <3>1 DEF Undisturbed
    <2>3. ASSUME c.pc \in InJob PROVE job'[c.job] = job[c.job]
      <3>1. c.job \in Slot
        BY <2>3, Typed DEF Inv, Shape, Command
      <3>2. job[c.job].on = c.on
        BY <1>1, <2>3 DEF OwnJob
      <3>3. QED
        BY <2>1, <3>1, <3>2
    <2>4. OwnJob(c, volume'[c.on], job'[c.job])
      BY <1>1, <2>1, <2>3 DEF OwnJob
    <2>5. QED
      BY <2>2, <2>4
  <1>4. QED
    BY <1>2, <1>3

\* Who watches the source of a copy sees what is written to it.
LEMMA SeesWrite ==
  ASSUME Inv, NEW s, NEW n \in Machine, NEW d, NEW x,
         volume' = [volume EXCEPT ![s] = x], cmd[n].pc \in Streamed /\ cmd[n].on = s => x \in d.held
  PROVE  Witnessed(cmd[n], d)
  <1>1. SUFFICES ASSUME cmd[n].pc \in Streamed
                 PROVE  volume'[cmd[n].on] \in {volume[cmd[n].on]} \cup d.held
    BY DEF Witnessed
  <1>2. cmd[n].on \in Server
    BY <1>1 DEF Inv, Shape, Streamed
  <1>3. CASE cmd[n].on = s
    BY <1>1, <1>2, <1>3, Typed
  <1>4. CASE cmd[n].on # s
    BY <1>2, <1>4, Typed
  <1>5. QED
    BY <1>3, <1>4

LEMMA FreshOK ==
  ASSUME Inv, Fresh
  PROVE  fresh \in Content /\ fresh' \in 1..(MaxFresh + 1)
  <1>1. fresh \in 1..(MaxFresh + 1) /\ MaxFresh \in Nat /\ fresh <= MaxFresh /\ fresh' = fresh + 1
    BY Typed, Some DEF Fresh
  <1>2. QED
    BY <1>1 DEF Content

\* Pods write only where there are some, so never beside a restore's Job.
LEMMA WriteKeeps ==
  ASSUME Inv, NEW s \in Server, Write(s)
  PROVE  Inv'
  <1>1. /\ PodsOf(s) /\ Fresh /\ volume' = [volume EXCEPT ![s] = fresh]
        /\ job' = SpoiltJobs(s, None) /\ cmd' = SpoiltCommands(cmd, s, fresh)
        /\ UNCHANGED <<want, pods, repo, secret, copied, others, kills, plan>>
    BY DEF Write, app, store, bounds
  <1>2. fresh \in Content /\ fresh' \in 1..(MaxFresh + 1)
    BY <1>1, FreshOK
  <1>3. volume' \in [Server -> Content] /\ \A r \in Server \ {s} : volume'[r] = volume[r]
    BY <1>1, <1>2, Typed
  <1>4. /\ job' \in [Slot -> Job \cup {None}]
        /\ \A u \in Slot : Alike(job[u], job'[u]) /\ (u = None \/ u \notin Running(s) => job'[u] = job[u])
    BY <1>1, Typed, SpoiltJobsOK
  <1>5. cmd' \in [Machine -> Command]
        /\ \A n \in Machine : /\ Touched(cmd[n], cmd'[n])
                              /\ cmd[n].pc \in Streamed /\ cmd[n].on = s => fresh \in cmd'[n].held
    BY <1>1, <1>2, Typed, SpoiltCommandsOK
  <1>6. TypeInv' /\ SnapshotsReadable'
    BY <1>1, <1>2, <1>3, <1>4, <1>5 DEF Inv, TypeInv, SnapshotsReadable
  <1>7. ASSUME NEW n \in Machine PROVE Spared(cmd[n], cmd'[n])
    <2>1. CASE cmd[n].on = s /\ cmd[n].pc \in {"create"} \cup InJob
      <3>1. ~Undisturbed(cmd[n], pods[cmd[n].on], job)
        <4>1. PICK w \in Workload : pods[s][w] > 0
          BY <1>1 DEF PodsOf
        <4>2. pods[s][w] # 0
          BY <4>1, Typed
        <4>3. QED
          BY <2>1, <4>2 DEF Undisturbed
      <3>2. QED
        BY <1>1, <3>1 DEF Spared
    <2>2. CASE cmd[n].on # s \/ cmd[n].pc \notin {"create"} \cup InJob
      <3>1. ASSUME NEW u \in Slot
            PROVE  \/ job'[u] = job[u]
                   \/ job[u] # None /\ job[u].on = s /\ (job'[u] = None \/ job'[u].on = s)
        BY <1>4 DEF Running, Alike
      <3>2. QED
        BY <1>1, <1>3, <2>2, <3>1, Elsewhere
    <2>3. QED
      BY <2>1, <2>2
  <1>8. \A n \in Machine : Witnessed(cmd[n], cmd'[n])
    BY <1>1, <1>5, SeesWrite
  <1>9. ASSUME NEW n \in Machine, cmd[n].job # None
        PROVE  job'[cmd[n].job] # None /\ job'[cmd[n].job].doomed = job[cmd[n].job].doomed
    <2>1. job[cmd[n].job] # None /\ cmd[n].job \in Slot
      BY <1>9, Typed DEF Inv, JobsOK, Command
    <2>2. QED
      BY <1>4, <2>1 DEF Alike
  <1>10. QED
    BY <1>1, <1>5, <1>6, <1>7, <1>8, <1>9, EnvStep

\* A restore's Job starts: it overtakes every restore of its server but its own.
LEMMA RestoreJobRuns ==
  ASSUME Inv, NEW t \in Slot, RunJob(t), job[t].kind = "restore"
  PROVE  Inv'
  <1> DEFINE s == job[t].on
             spoilt == SpoiltJobs(s, t)
             touched == SpoiltCommands(cmd, s, fresh)
             over == Overtaken(touched, s, None)
             j == [job[t] EXCEPT !.pc = "running"]
  <1>1. /\ job[t] # None /\ job[t].pc = "created" /\ Fresh /\ volume' = [volume EXCEPT ![s] = fresh]
        /\ cmd' = [n \in Machine |-> IF cmd[n].job = t THEN cmd[n] ELSE over[n]]
        /\ job' = [spoilt EXCEPT ![t].pc = "running"]
        /\ UNCHANGED <<want, pods, repo, secret, copied, others, kills, plan>>
    BY DEF RunJob, app, bounds
  <1>2. fresh \in Content /\ fresh' \in 1..(MaxFresh + 1)
    BY <1>1, FreshOK
  <1>3. s \in Server /\ volume' \in [Server -> Content] /\ \A r \in Server \ {s} : volume'[r] = volume[r]
    <2>1. s \in Server
      BY <1>1, Typed DEF Job
    <2>2. QED
      BY <1>1, <1>2, <2>1, Typed
  <1>4. /\ spoilt \in [Slot -> Job \cup {None}] /\ spoilt[t] = job[t]
        /\ \A u \in Slot : Alike(job[u], spoilt[u]) /\ (u \notin Running(s) => spoilt[u] = job[u])
    BY Typed, SpoiltJobsOK
  <1>5. /\ touched \in [Machine -> Command]
        /\ \A n \in Machine : /\ Touched(cmd[n], touched[n])
                              /\ cmd[n].pc \in Streamed /\ cmd[n].on = s => fresh \in touched[n].held
    BY <1>2, Typed, SpoiltCommandsOK
  <1> HIDE DEF spoilt, touched
  <1>6. /\ over \in [Machine -> Command]
        /\ \A n \in Machine : /\ Touched(touched[n], over[n]) /\ over[n].held = touched[n].held
                              /\ touched[n].kind = "restore" /\ touched[n].on = s => over[n].overtaken
    BY <1>5, Some, OvertakenOK
  <1> HIDE DEF over
  <1>7. /\ cmd' \in [Machine -> Command]
        /\ \A n \in Machine : /\ Touched(cmd[n], cmd'[n])
                              /\ cmd[n].job # t /\ cmd[n].kind = "restore" /\ cmd[n].on = s => cmd'[n].overtaken
    <2>1. ASSUME NEW n \in Machine
          PROVE  /\ Touched(cmd[n], cmd'[n])
                 /\ cmd[n].job # t /\ cmd[n].kind = "restore" /\ cmd[n].on = s => cmd'[n].overtaken
      <3>1. CASE cmd[n].job = t
        BY <1>1, <3>1, Typed, TouchedSelf
      <3>2. CASE cmd[n].job # t
        <4>1. cmd'[n] = over[n]
          BY <1>1, <3>2
        <4>2. Touched(cmd[n], over[n])
          BY <1>5, <1>6, TouchedTwice
        <4>3. touched[n].kind = cmd[n].kind /\ touched[n].on = cmd[n].on
          BY <1>5 DEF Touched
        <4>4. QED
          BY <1>6, <4>1, <4>2, <4>3
      <3>3. QED
        BY <3>1, <3>2
    <2>2. QED
      BY <1>1, <1>6, <2>1, Typed
  <1>8. /\ j \in Job /\ j # None /\ j.pc = "running" /\ j.on = s /\ j.kind = "restore" /\ j.content = job[t].content
        /\ j.whole = job[t].whole /\ j.doomed = job[t].doomed
    <2>1. job[t] \in Job
      BY <1>1, Typed
    <2>2. j \in Job
      BY <2>1 DEF Job
    <2>3. QED
      BY <2>1, <2>2, Some DEF Job
  <1>9. job' = [spoilt EXCEPT ![t] = j]
    BY <1>1, <1>4
  <1> HIDE DEF j
  <1>10. job' \in [Slot -> Job \cup {None}] /\ job'[t] = j /\ \A u \in Slot \ {t} : job'[u] = spoilt[u]
    BY <1>4, <1>8, <1>9
  <1>11. TypeInv' /\ SnapshotsReadable'
    BY <1>1, <1>2, <1>3, <1>7, <1>10 DEF Inv, TypeInv, SnapshotsReadable
  <1>12. ASSUME NEW n \in Machine PROVE Spared(cmd[n], cmd'[n])
    <2> DEFINE c == cmd[n]
    <2>1. CASE c.on # s \/ c.pc \notin {"create"} \cup InJob
      <3>1. ASSUME NEW u \in Slot
            PROVE  \/ job'[u] = job[u]
                   \/ job[u] # None /\ job[u].on = s /\ (job'[u] = None \/ job'[u].on = s)
        <4>1. CASE u = t
          BY <1>1, <1>8, <1>10, <4>1
        <4>2. CASE u # t
          BY <1>4, <1>10, <4>2 DEF Running, Alike
        <4>3. QED
          BY <4>1, <4>2
      <3>2. QED
        BY <1>1, <1>3, <2>1, <3>1, Elsewhere
    <2>2. CASE c.on = s /\ c.job # t
      BY <1>7, <2>2 DEF Spared
    <2>3. CASE c.on = s /\ c.job = t /\ c.pc \in {"create"} \cup InJob
      <3>1. SUFFICES ASSUME Undisturbed(c, pods[s], job), OwnJob(c, volume[s], job[t])
                     PROVE  Undisturbed(c, pods[s], job') /\ OwnJob(c, volume'[s], j)
        BY <1>1, <1>10, <2>3 DEF Spared
      <3>2. ASSUME NEW u \in Slot, u # t, job'[u] # None, job'[u].on = s, job'[u].pc = "running", job'[u].kind = "restore"
            PROVE  FALSE
        <4>1. job[u] # None /\ job[u].on = s /\ job[u].pc = "running" /\ job[u].kind = "restore"
          BY <1>4, <1>10, <3>2 DEF Alike
        <4>2. QED
          BY <2>3, <3>1, <3>2, <4>1 DEF Undisturbed
      <3>3. Undisturbed(c, pods[s], job')
        BY <2>3, <3>1, <3>2 DEF Undisturbed
      <3>4. OwnJob(c, volume'[s], j)
        BY <1>1, <1>8, <3>1 DEF OwnJob
      <3>5. QED
        BY <3>3, <3>4
    <2>4. QED
      BY <2>1, <2>2, <2>3
  <1>13. ASSUME NEW n \in Machine PROVE Witnessed(cmd[n], cmd'[n])
    <2>1. ASSUME cmd[n].pc \in Streamed PROVE cmd[n].job # t
      BY <2>1, Some DEF Inv, Shape, Streamed, InJob
    <2>2. cmd[n].pc \in Streamed /\ cmd[n].on = s => fresh \in cmd'[n].held
      BY <1>1, <1>5, <1>6, <2>1
    <2>3. QED
      BY <1>1, <2>2, SeesWrite
  <1>14. ASSUME NEW n \in Machine, cmd[n].job # None
         PROVE  job'[cmd[n].job] # None /\ job'[cmd[n].job].doomed = job[cmd[n].job].doomed
    <2>1. job[cmd[n].job] # None /\ cmd[n].job \in Slot
      BY <1>14, Typed DEF Inv, JobsOK, Command
    <2>2. CASE cmd[n].job = t
      BY <1>8, <1>10, <2>2
    <2>3. CASE cmd[n].job # t
      BY <1>4, <1>10, <2>1, <2>3 DEF Alike
    <2>4. QED
      BY <2>2, <2>3
  <1>15. QED
    BY <1>1, <1>7, <1>11, <1>12, <1>13, <1>14, EnvStep

\* A backup's Job starts: it opens the repository with the app's copy of the password.
LEMMA BackupJobRuns ==
  ASSUME Inv, NEW t \in Slot, RunJob(t), job[t].kind # "restore"
  PROVE  Inv'
  <1> DEFINE s == job[t].on
             x == volume[s]
             j == [job[t] EXCEPT !.pc = "running", !.content = x]
             r == [repo[s] EXCEPT !.password = copied[s]]
  <1>1. /\ job[t] # None /\ job' = [job EXCEPT ![t].pc = "running", ![t].content = x]
        /\ repo' = [repo EXCEPT ![s].password = copied[s]]
        /\ UNCHANGED <<want, pods, volume, secret, copied, cmd, fresh, others, kills, plan>>
    BY DEF RunJob, app, bounds
  <1>2. job[t] \in Job /\ s \in Server /\ x \in Content /\ repo[s] \in Repo /\ copied[s] \in Content \cup {None}
    BY <1>1, Typed DEF Job
  <1>3. j \in Job /\ j # None /\ j.kind = job[t].kind /\ j.doomed = job[t].doomed
    <2>1. j \in Job
      BY <1>2 DEF Job
    <2>2. QED
      BY <1>2, <2>1, Some DEF Job
  <1>4. job' = [job EXCEPT ![t] = j]
    BY <1>1, Typed
  <1>5. r \in Repo /\ r.password = copied[s] /\ repo' = [repo EXCEPT ![s] = r]
    BY <1>1, <1>2 DEF Repo
  <1> HIDE DEF j, r
  <1>6. repo' \in [Server -> Repo] /\ repo'[s] = r /\ \A q \in Server \ {s} : repo'[q] = repo[q]
    BY <1>2, <1>5, Typed
  <1>7. SnapshotsReadable'
    BY <1>1, <1>2, <1>5, <1>6 DEF Inv, SnapshotsReadable
  <1>8. ASSUME NEW n \in Machine, cmd[n].job = t
        PROVE  ~OwnJob(cmd[n], volume[cmd[n].on], job[t])
    <2>1. cmd[n].pc \in InJob
      BY <1>8, Some DEF Inv, Shape
    <2>2. QED
      BY <2>1 DEF OwnJob
  <1>9. others' \in Nat /\ fresh' \in 1..(MaxFresh + 1)
    BY <1>1, Typed
  <1>10. ~(j # None /\ j.pc = "running" /\ j.kind = "restore")
    BY <1>3
  <1>11. \A n \in Machine : cmd[n].job = t =>
           /\ j # None /\ j.doomed = job[t].doomed
           /\ OwnJob(cmd[n], volume[cmd[n].on], job[t]) => OwnJob(cmd[n], volume[cmd[n].on], j)
    BY <1>3, <1>8
  <1>12. QED
    BY <1>1, <1>3, <1>4, <1>6, <1>7, <1>9, <1>10, <1>11, SlotStep

LEMMA RunJobKeeps ==
  ASSUME Inv, NEW t \in Slot, RunJob(t)
  PROVE  Inv'
  BY RestoreJobRuns, BackupJobRuns

\* What the Job t leaves: its content, or what nothing else equals.
Left(t) == IF job[t].whole THEN job[t].content ELSE fresh

LEMMA LeftOK ==
  ASSUME Inv, NEW t \in Slot, EndJob(t)
  PROVE  /\ job[t] \in Job /\ job[t] # None /\ job[t].pc = "running" /\ job[t].on \in Server
         /\ Left(t) \in Content /\ fresh' \in 1..(MaxFresh + 1)
         /\ Ended(t, "done") \in Job \cup {None}
  <1>1. /\ t \in UNION {Running(r) : r \in Server}
        /\ IF job[t].whole THEN UNCHANGED fresh ELSE Fresh
    BY DEF EndJob
  <1>2. job[t] # None /\ job[t].pc = "running"
    BY <1>1 DEF Running
  <1>3. job[t] \in Job /\ job[t].on \in Server /\ job[t].content \in Content
    BY <1>2, Typed DEF Job
  <1>4. Left(t) \in Content /\ fresh' \in 1..(MaxFresh + 1)
    <2>1. CASE job[t].whole
      BY <1>1, <1>3, <2>1, Typed DEF Left
    <2>2. CASE ~job[t].whole
      BY <1>1, <2>2, FreshOK DEF Left
    <2>3. QED
      BY <2>1, <2>2
  <1>5. QED
    BY <1>2, <1>3, <1>4, EndedOK

LEMMA BackupJobEnds ==
  ASSUME Inv, NEW t \in Slot, EndJob(t), job[t].kind # "restore"
  PROVE  Inv'
  <1> DEFINE s == job[t].on
             j == Ended(t, "done")
             r == [repo[s] EXCEPT !.snapshots = @ \cup {Left(t)}]
  <1>1. /\ job' = [job EXCEPT ![t] = j] /\ repo' = [repo EXCEPT ![s].snapshots = @ \cup {Left(t)}]
        /\ UNCHANGED <<want, pods, volume, secret, copied, cmd, others, kills, plan>>
    BY DEF EndJob, app, bounds, Left
  <1>2. /\ job[t] # None /\ s \in Server /\ Left(t) \in Content /\ fresh' \in 1..(MaxFresh + 1) /\ j \in Job \cup {None}
    BY LeftOK
  <1>3. repo[s] \in Repo
    BY <1>2, Typed
  <1>4. r \in Repo /\ r.password = repo[s].password /\ repo' = [repo EXCEPT ![s] = r]
    BY <1>1, <1>2, <1>3, Typed DEF Repo
  <1> HIDE DEF r
  <1>5. repo' \in [Server -> Repo] /\ \A q \in Server : repo'[q].password = repo[q].password
    BY <1>2, <1>4, Typed
  <1>6. SnapshotsReadable'
    BY <1>1, <1>5 DEF Inv, SnapshotsReadable
  <1>7. ASSUME NEW n \in Machine, cmd[n].job = t
        PROVE  /\ j # None /\ j.doomed = job[t].doomed
               /\ ~OwnJob(cmd[n], volume[cmd[n].on], job[t])
    <2>1. cmd[n].pc \in InJob
      BY <1>7, Some DEF Inv, Shape
    <2>2. j # None /\ j.doomed = job[t].doomed
      BY <1>2, <1>7, EndedOK
    <2>3. QED
      BY <2>1, <2>2 DEF OwnJob
  <1>8. ~(j # None /\ j.pc = "running" /\ j.kind = "restore")
    BY <1>2, EndedOK
  <1>9. others' \in Nat
    BY <1>1, Typed
  <1> HIDE DEF j
  <1>10. \A n \in Machine : cmd[n].job = t =>
           /\ j # None /\ j.doomed = job[t].doomed
           /\ OwnJob(cmd[n], volume[cmd[n].on], job[t]) => OwnJob(cmd[n], volume[cmd[n].on], j)
    BY <1>7
  <1>11. QED
    BY <1>1, <1>2, <1>5, <1>6, <1>8, <1>9, <1>10, SlotStep

\* A restore's Job ends: whoever relies on the volume is the one that waits for it.
LEMMA RestoreJobEnds ==
  ASSUME Inv, NEW t \in Slot, EndJob(t), job[t].kind = "restore"
  PROVE  Inv'
  <1> DEFINE s == job[t].on
             spoilt == SpoiltJobs(s, t)
             j == Ended(t, "done")
             x == Left(t)
  <1>1. /\ volume' = [volume EXCEPT ![s] = x] /\ job' = [spoilt EXCEPT ![t] = j]
        /\ cmd' = SpoiltCommands(cmd, s, x)
        /\ UNCHANGED <<want, pods, repo, secret, copied, others, kills, plan>>
    BY DEF EndJob, app, bounds, Left
  <1>2. /\ job[t] # None /\ job[t].pc = "running" /\ s \in Server /\ x \in Content /\ fresh' \in 1..(MaxFresh + 1)
        /\ j \in Job \cup {None}
    BY LeftOK
  <1>3. /\ j # None => j.pc = "done" /\ j.on = s /\ j.kind = "restore" /\ j.content = job[t].content
                       /\ j.whole = job[t].whole /\ j.doomed = job[t].doomed
        /\ \A n \in Machine : cmd[n].job = t => j # None
    BY <1>2, EndedOK
  <1> HIDE DEF j
  <1>4. volume' \in [Server -> Content] /\ volume'[s] = x /\ \A r \in Server \ {s} : volume'[r] = volume[r]
    BY <1>1, <1>2, Typed
  <1>5. /\ spoilt \in [Slot -> Job \cup {None}]
        /\ \A u \in Slot : Alike(job[u], spoilt[u]) /\ (u \notin Running(s) => spoilt[u] = job[u])
    BY Typed, SpoiltJobsOK
  <1> HIDE DEF spoilt
  <1>6. job' \in [Slot -> Job \cup {None}] /\ job'[t] = j /\ \A u \in Slot \ {t} : job'[u] = spoilt[u]
    BY <1>1, <1>2, <1>5
  <1>7. cmd' \in [Machine -> Command]
        /\ \A n \in Machine : /\ Touched(cmd[n], cmd'[n])
                              /\ cmd[n].pc \in Streamed /\ cmd[n].on = s => x \in cmd'[n].held
    BY <1>1, <1>2, Typed, SpoiltCommandsOK
  <1>8. TypeInv' /\ SnapshotsReadable'
    BY <1>1, <1>2, <1>4, <1>6, <1>7 DEF Inv, TypeInv, SnapshotsReadable
  <1>9. ASSUME NEW n \in Machine PROVE Spared(cmd[n], cmd'[n])
    <2> DEFINE c == cmd[n]
    <2>1. CASE c.on # s \/ c.pc \notin {"create"} \cup InJob
      <3>1. ASSUME NEW u \in Slot
            PROVE  \/ job'[u] = job[u]
                   \/ job[u] # None /\ job[u].on = s /\ (job'[u] = None \/ job'[u].on = s)
        <4>1. CASE u = t
          BY <1>2, <1>3, <1>6, <4>1
        <4>2. CASE u # t
          BY <1>5, <1>6, <4>2 DEF Running, Alike
        <4>3. QED
          BY <4>1, <4>2
      <3>2. QED
        BY <1>1, <1>4, <2>1, <3>1, Elsewhere
    <2>2. CASE c.on = s /\ c.pc \in {"create"} \cup InJob
      <3>1. SUFFICES ASSUME Undisturbed(c, pods[s], job), OwnJob(c, volume[s], job[c.job])
                     PROVE  Undisturbed(c, pods[s], job') /\ OwnJob(c, volume'[s], job'[c.job])
        BY <1>1, <2>2 DEF Spared
      <3>2. c.job = t
        BY <1>2, <2>2, <3>1 DEF Undisturbed
      <3>3. c.pc \in InJob /\ j # None
        BY <1>3, <2>2, <3>2, Some DEF Inv, Shape
      <3>4. ASSUME NEW u \in Slot, u # t, job'[u] # None, job'[u].on = s, job'[u].pc = "running", job'[u].kind = "restore"
            PROVE  FALSE
        <4>1. job[u] # None /\ job[u].on = s /\ job[u].pc = "running" /\ job[u].kind = "restore"
          BY <1>5, <1>6, <3>4 DEF Alike
        <4>2. QED
          BY <2>2, <3>1, <3>2, <3>4, <4>1 DEF Undisturbed
      <3>5. Undisturbed(c, pods[s], job')
        BY <2>2, <3>1, <3>2, <3>4 DEF Undisturbed
      <3>6. job[t].whole /\ job[t].content = c.content /\ x = c.content
        BY <3>1, <3>2, <3>3 DEF OwnJob, Left
      <3>7. OwnJob(c, volume'[s], job'[c.job])
        BY <1>3, <1>4, <1>6, <2>2, <3>2, <3>3, <3>6 DEF OwnJob
      <3>8. QED
        BY <3>5, <3>7
    <2>3. QED
      BY <2>1, <2>2
  <1>10. \A n \in Machine : Witnessed(cmd[n], cmd'[n])
    BY <1>1, <1>7, SeesWrite
  <1>11. ASSUME NEW n \in Machine, cmd[n].job # None
         PROVE  job'[cmd[n].job] # None /\ job'[cmd[n].job].doomed = job[cmd[n].job].doomed
    <2>1. job[cmd[n].job] # None /\ cmd[n].job \in Slot
      BY <1>11, Typed DEF Inv, JobsOK, Command
    <2>2. CASE cmd[n].job = t
      BY <1>3, <1>6, <2>2
    <2>3. CASE cmd[n].job # t
      BY <1>5, <1>6, <2>1, <2>3 DEF Alike
    <2>4. QED
      BY <2>2, <2>3
  <1>12. QED
    BY <1>1, <1>7, <1>8, <1>9, <1>10, <1>11, EnvStep

LEMMA EndJobKeeps ==
  ASSUME Inv, NEW t \in Slot, EndJob(t)
  PROVE  Inv'
  BY RestoreJobEnds, BackupJobEnds

-----------------------------------------------------------------------------
\* d is c at another call.
Same(c, d) ==
  /\ d.kind = c.kind /\ d.on = c.on /\ d.to = c.to /\ d.content = c.content /\ d.listed = c.listed /\ d.prev = c.prev
  /\ d.todo = c.todo /\ d.job = c.job /\ d.password = c.password /\ d.existed = c.existed /\ d.ok = c.ok
  /\ d.overtaken = c.overtaken /\ d.crossed = c.crossed /\ d.lost = c.lost /\ d.held = c.held

LEMMA Onward ==
  ASSUME NEW c \in Command, NEW pc \in PC, NEW d, d = [c EXCEPT !.pc = pc]
  PROVE  d \in Command /\ d.pc = pc /\ Same(c, d)
  BY DEF Command, Same

LEMMA AtWork ==
  ASSUME Inv, NEW m \in Machine
  PROVE  /\ cmd[m] \in Command /\ Shape(cmd[m]) /\ Known(cmd[m], secret)
         /\ RestoreOK(cmd[m], want, pods, volume, job)
         /\ cmd[m].kind = "copy" => CopyOK(cmd[m], volume[cmd[m].on])
  BY DEF Inv, TypeInv

\* QuietStep where nothing but the command changes.
LEMMA LookStep ==
  ASSUME Inv, NEW m \in Machine, NEW c \in Command, Become(m, c), UNCHANGED World, c.job \in {cmd[m].job, None},
         Shape(c), Known(c, secret), RestoreOK(c, want, pods, volume, job),
         c.kind = "copy" => CopyOK(c, volume[c.on])
  PROVE  Inv'
  <1>1. UNCHANGED <<want, pods, volume, repo, secret, copied, job, fresh, others, kills, plan>>
    BY DEF World
  <1>2. fresh' \in 1..(MaxFresh + 1) /\ kills' \in 0..MaxKills /\ plan' \in [Machine -> Seq(Commands \X Server)]
    BY <1>1, Typed
  <1>3. QED
    BY <1>1, <1>2, QuietStep

LEMMA IdleFits ==
  /\ Shape(Idle) /\ \A p : Known(Idle, p)
  /\ \A W, P, V, J : RestoreOK(Idle, W, P, V, J)
  /\ \A V : CopyOK(Idle, V)
  BY IdleOK, Some DEF Shape, Known, RestoreOK, CountsOK, Undisturbed, OwnJob, CopyOK, Scaling, InJob, Copying, Streamed

LEMMA ReturnKeeps ==
  ASSUME Inv, NEW m \in Machine, Return(m)
  PROVE  Inv'
  BY IdleOK, IdleFits, LookStep DEF Return

LEMMA KillKeeps ==
  ASSUME Inv, NEW m \in Machine, Kill(m)
  PROVE  Inv'
  <1>1. /\ Become(m, Idle) /\ kills < MaxKills /\ kills' = kills + 1
        /\ UNCHANGED <<want, pods, volume, repo, secret, copied, job, fresh, others, plan>>
    BY DEF Kill, app, store
  <1>2. kills' \in 0..MaxKills
    <2>1. kills \in 0..MaxKills /\ MaxKills \in Nat
      BY Typed, Some
    <2>2. QED
      BY <1>1, <2>1
  <1>3. fresh' \in 1..(MaxFresh + 1) /\ plan' \in [Machine -> Seq(Commands \X Server)]
    BY <1>1, Typed
  <1>4. QED
    BY <1>1, <1>2, <1>3, IdleOK, IdleFits, QuietStep

\* What Start and Begin do, for a command k on s.
LEMMA BeginKeeps ==
  ASSUME Inv, NEW m \in Machine, plan[m] # <<>>, NEW r \in Server \cup {None}, NEW x \in Content, Begin(m, r, x),
         Head(plan[m])[1] = "copy" => r \in Server \ {Head(plan[m])[2]}
  PROVE  Inv'
  <1> DEFINE k == Head(plan[m])[1]
             s == Head(plan[m])[2]
             c == [Idle EXCEPT !.pc = First[k], !.kind = k, !.on = s, !.to = r, !.content = x]
  <1>1. /\ plan' = [plan EXCEPT ![m] = Tail(@)] /\ Become(m, c)
        /\ UNCHANGED <<want, pods, volume, repo, secret, copied, job, fresh, others, kills>>
    BY DEF Begin, app, store
  <1>2. Head(plan[m]) \in Commands \X Server /\ Tail(plan[m]) \in Seq(Commands \X Server)
    <2>1. plan[m] \in Seq(Commands \X Server)
      BY Typed
    <2>2. QED
      BY <2>1
  <1>3. k \in Commands /\ s \in Server /\ plan' \in [Machine -> Seq(Commands \X Server)]
    BY <1>1, <1>2, Typed
  <1>4. /\ k = "config" => First[k] = "get"
        /\ k = "now" => First[k] = "create"
        /\ k = "restore" => First[k] = "list"
        /\ k = "copy" => First[k] = "source"
        /\ First[k] \in PC
    BY <1>3 DEF First, Commands, PC
  <1> HIDE DEF k, s
  <1>5. /\ c \in Command /\ c.pc = First[k] /\ c.kind = k /\ c.on = s /\ c.to = r /\ c.job = None /\ ~c.ok /\ ~c.existed
        /\ c.listed = Nothing /\ c.prev = Nothing
    <2>1. /\ Idle \in Command /\ Idle.job = None /\ ~Idle.ok /\ ~Idle.existed
          /\ Idle.listed = Nothing /\ Idle.prev = Nothing
      BY IdleOK
    <2> HIDE DEF Idle
    <2>2. QED
      BY <1>3, <1>4, <2>1, ZenonT(60) DEF Command
  <1> HIDE DEF c
  <1>6. c.pc \in {"get", "create", "list", "source"}
    BY <1>3, <1>4, <1>5 DEF Commands
  <1>7. Shape(c)
    BY <1>3, <1>4, <1>5, <1>6 DEF Shape, Commands, Scaling, InJob, Copying, k, s
  <1>8. Known(c, secret) /\ (c.kind = "copy" => CopyOK(c, volume[c.on]))
    BY <1>5, <1>6 DEF Known, CopyOK, Streamed
  <1>9. RestoreOK(c, want, pods, volume, job)
    BY <1>4, <1>5 DEF RestoreOK, CountsOK, Undisturbed, OwnJob, InJob
  <1>10. fresh' \in 1..(MaxFresh + 1) /\ kills' \in 0..MaxKills
    BY <1>1, Typed
  <1>11. QED
    BY <1>1, <1>3, <1>5, <1>7, <1>8, <1>9, <1>10, QuietStep

LEMMA StartKeeps ==
  ASSUME Inv, NEW m \in Machine, Start(m)
  PROVE  Inv'
  <1> DEFINE k == Head(plan[m])[1]
             s == Head(plan[m])[2]
  <1>1. plan[m] # <<>> /\ 0 \in Content
    BY Some DEF Start
  <1>2. s \in Server
    <2>1. plan[m] \in Seq(Commands \X Server)
      BY Typed
    <2>2. Head(plan[m]) \in Commands \X Server
      BY <1>1, <2>1
    <2>3. QED
      BY <2>2
  <1>3. \/ k \in {"config", "now"} /\ Begin(m, None, 0)
        \/ k = "restore" /\ \E x \in repo[s].snapshots : Begin(m, None, x)
        \/ k = "copy" /\ \E r \in Server \ {s} : Begin(m, r, 0)
    BY DEF Start
  <1>4. CASE k \in {"config", "now"} /\ Begin(m, None, 0)
    BY <1>1, <1>4, BeginKeeps
  <1>5. CASE k = "restore" /\ \E x \in repo[s].snapshots : Begin(m, None, x)
    <2>1. repo[s].snapshots \subseteq Content
      BY <1>2, Typed DEF Repo
    <2>2. PICK x \in repo[s].snapshots : Begin(m, None, x)
      BY <1>5
    <2>3. x \in Content
      BY <2>1, <2>2
    <2>4. QED
      BY <1>1, <1>5, <2>2, <2>3, BeginKeeps
  <1>6. CASE k = "copy" /\ \E r \in Server \ {s} : Begin(m, r, 0)
    BY <1>1, <1>6, BeginKeeps
  <1>7. QED
    BY <1>3, <1>4, <1>5, <1>6

LEMMA AbortKeeps ==
  ASSUME Inv, NEW m \in Machine, Abort(m)
  PROVE  Inv'
  <1> DEFINE c == cmd[m]
             d == [c EXCEPT !.pc = "returned"]
  <1>1. /\ c.pc \in {"get", "put", "list", "source", "dest", "clear", "sumSource", "sumDest"}
        /\ Become(m, d) /\ UNCHANGED World
    BY DEF Abort, Fails
  <1>2. c \in Command /\ Shape(c) /\ Known(c, secret) /\ (c.kind = "copy" => CopyOK(c, volume[c.on]))
    BY AtWork
  <1>3. d \in Command /\ d.pc = "returned" /\ Same(c, d)
    BY <1>2, Onward DEF PC
  <1> HIDE DEF d
  <1>4. Shape(d)
    BY <1>1, <1>2, <1>3 DEF Shape, Same, Scaling, InJob, Copying
  <1>5. Known(d, secret) /\ (d.kind = "copy" => CopyOK(d, volume[d.on]))
    BY <1>2, <1>3 DEF Known, Same, CopyOK, Streamed
  <1>6. d.kind = "restore" => d.listed = Nothing
    BY <1>1, <1>2, <1>3 DEF Shape, Same, Scaling, Copying
  <1>7. RestoreOK(d, want, pods, volume, job)
    BY <1>3, <1>6 DEF RestoreOK, CountsOK, Back, Nothing, Undisturbed, OwnJob, InJob
  <1>8. d.job \in {cmd[m].job, None}
    BY <1>3 DEF Same
  <1>9. QED
    BY <1>1, <1>3, <1>4, <1>5, <1>7, <1>8, LookStep

\* The commands that are not a restore have nothing of RestoreOK to keep.
LEMMA GetTargetKeeps ==
  ASSUME Inv, NEW m \in Machine, GetTarget(m)
  PROVE  Inv'
  <1> DEFINE c == cmd[m]
  <1>1. /\ c.pc = "get"
        /\ UNCHANGED <<want, pods, volume, repo, secret, copied, job, others, kills, plan>>
    BY DEF GetTarget, At, app, store, bounds
  <1>2. c \in Command /\ Shape(c)
    BY AtWork
  <1>3. PICK p \in Content, b \in BOOLEAN :
          /\ Become(m, [c EXCEPT !.pc = "put", !.password = p, !.existed = b]) /\ fresh' \in 1..(MaxFresh + 1)
          /\ b => secret = p
    <2>1. CASE /\ secret # None /\ UNCHANGED fresh
               /\ Become(m, [c EXCEPT !.pc = "put", !.password = secret, !.existed = TRUE])
      <3>1. secret \in Content /\ fresh' \in 1..(MaxFresh + 1)
        BY <2>1, Typed
      <3>2. QED
        BY <2>1, <3>1
    <2>2. CASE Fresh /\ Become(m, [c EXCEPT !.pc = "put", !.password = fresh])
      <3>1. fresh \in Content /\ fresh' \in 1..(MaxFresh + 1)
        BY <2>2, FreshOK
      <3>2. [c EXCEPT !.pc = "put", !.password = fresh] = [c EXCEPT !.pc = "put", !.password = fresh, !.existed = FALSE]
        <4>1. c.existed = FALSE
          BY <1>1, <1>2 DEF Shape, Command
        <4>2. ASSUME NEW e \in Command, e.existed = FALSE, NEW p \in Content
              PROVE  [e EXCEPT !.pc = "put", !.password = p] = [e EXCEPT !.pc = "put", !.password = p, !.existed = FALSE]
          BY <4>2 DEF Command
        <4>3. QED
          BY <1>2, <3>1, <4>1, <4>2
      <3>3. Become(m, [c EXCEPT !.pc = "put", !.password = fresh, !.existed = FALSE])
        BY <2>2, <3>2
      <3>4. QED
        BY <3>1, <3>3
    <2>3. QED
      BY <2>1, <2>2 DEF GetTarget
  <1> DEFINE d == [c EXCEPT !.pc = "put", !.password = p, !.existed = b]
  <1>4. /\ d \in Command /\ d.pc = "put" /\ d.password = p /\ d.existed = b /\ d.kind = c.kind /\ d.on = c.on /\ d.job = c.job
        /\ d.ok = c.ok /\ d.listed = c.listed /\ d.prev = c.prev
    BY <1>2, <1>3, ZenonT(60) DEF Command, PC
  <1>5. Become(m, d)
    BY <1>3
  <1> HIDE DEF d
  <1>6. Shape(d)
    BY <1>1, <1>2, <1>3, <1>4 DEF Shape, Scaling, InJob, Copying
  <1>7. Known(d, secret)
    BY <1>3, <1>4, Some DEF Known
  <1>8. RestoreOK(d, want, pods, volume, job) /\ (d.kind = "copy" => CopyOK(d, volume[d.on])) /\ d.job \in {c.job, None}
    BY <1>4, <1>6 DEF RestoreOK, Shape, CopyOK, Streamed
  <1>9. kills' \in 0..MaxKills /\ plan' \in [Machine -> Seq(Commands \X Server)] /\ UNCHANGED others
    BY <1>1, Typed
  <1>10. QED
    BY <1>1, <1>3, <1>4, <1>5, <1>6, <1>7, <1>8, <1>9, QuietStep

\* A password is put only where there was none, or is the one that was there.
LEMMA PutTargetKeeps ==
  ASSUME Inv, NEW m \in Machine, PutTarget(m)
  PROVE  Inv'
  <1> DEFINE c == cmd[m]
             d == [c EXCEPT !.pc = "returned", !.ok = TRUE]
  <1>1. /\ c.pc = "put" /\ (c.existed \/ secret = None) /\ secret' = c.password /\ Become(m, d)
        /\ UNCHANGED <<want, pods, volume, repo, copied, job, fresh, others, kills, plan>>
    BY DEF PutTarget, At, app, bounds
  <1>2. c \in Command /\ Shape(c) /\ Known(c, secret)
    BY AtWork
  <1>3. /\ d \in Command /\ d.pc = "returned" /\ d.kind = c.kind /\ d.on = c.on /\ d.job = c.job
        /\ d.password = c.password /\ d.existed = c.existed /\ d.ok /\ d.listed = c.listed /\ d.prev = c.prev
    BY <1>2 DEF Command, PC
  <1> HIDE DEF d
  <1>4. /\ cmd \in [Machine -> Command] /\ cmd' = [cmd EXCEPT ![m] = d] /\ cmd'[m] = d
        /\ \A n \in Machine \ {m} : cmd'[n] = cmd[n]
    BY <1>1, Typed DEF Become
  <1>5. secret' \in Content /\ (secret # None => secret' = secret)
    BY <1>1, <1>2 DEF Shape, Known
  <1>6. TypeInv'
    BY <1>1, <1>3, <1>4, <1>5 DEF Inv, TypeInv
  <1>7. SnapshotsReadable'
    BY <1>1, <1>5 DEF Inv, SnapshotsReadable
  <1>8. JobsOK(cmd', job')
    <2>1. JobsOK(cmd, job) /\ \A n \in Machine : cmd'[n].job = cmd[n].job
      BY <1>3, <1>4 DEF Inv
    <2>2. QED
      BY <1>1, <2>1 DEF JobsOK
  <1>9. MachineOK(m)'
    <2>1. Shape(d) /\ d.kind = "config"
      BY <1>1, <1>2, <1>3 DEF Shape, Scaling, InJob, Copying
    <2>2. Known(d, secret')
      BY <1>1, <1>3, <1>5, Some DEF Known
    <2>3. QED
      BY <1>4, <2>1, <2>2 DEF MachineOK, RestoreOK
  <1>10. ASSUME NEW n \in Machine \ {m}
         PROVE  /\ Touched(cmd[n], cmd'[n]) /\ Known(cmd[n], secret')
                /\ Spared(cmd[n], cmd'[n]) /\ Witnessed(cmd[n], cmd'[n])
    <2>1. cmd'[n] = cmd[n] /\ cmd[n] \in Command /\ Touched(cmd[n], cmd'[n])
      BY <1>4, TouchedSelf
    <2>2. Known(cmd[n], secret')
      BY <1>5 DEF Inv, Known
    <2>3. QED
      BY <1>1, <2>1, <2>2 DEF Spared, Witnessed
  <1>11. QED
    BY <1>6, <1>7, <1>8, <1>9, <1>10, MachineStep

-----------------------------------------------------------------------------
LEMMA NewLost ==
  ASSUME NEW c \in Command, NEW S \in SUBSET Workload, NEW d, d = [c EXCEPT !.lost = S]
  PROVE  /\ d \in Command /\ d.pc = c.pc /\ d.lost = S /\ d.todo = c.todo /\ d.kind = c.kind /\ d.on = c.on
         /\ d.listed = c.listed /\ d.prev = c.prev /\ d.job = c.job /\ d.password = c.password
         /\ d.existed = c.existed /\ d.ok = c.ok /\ d.overtaken = c.overtaken
  BY DEF Command

LEMMA NewTodo ==
  ASSUME NEW c \in Command, NEW S \in SUBSET Workload, NEW d, d = [c EXCEPT !.todo = S]
  PROVE  /\ d \in Command /\ d.pc = c.pc /\ d.todo = S /\ d.kind = c.kind /\ d.on = c.on /\ d.to = c.to
         /\ d.content = c.content /\ d.listed = c.listed /\ d.prev = c.prev /\ d.job = c.job
         /\ d.password = c.password /\ d.existed = c.existed /\ d.ok = c.ok
         /\ d.overtaken = c.overtaken /\ d.crossed = c.crossed /\ d.lost = c.lost /\ d.held = c.held
  <1>1. d \in Command /\ d.pc = c.pc /\ d.todo = S /\ d.kind = c.kind /\ d.on = c.on /\ d.to = c.to
    BY DEF Command
  <1>2. d.content = c.content /\ d.listed = c.listed /\ d.prev = c.prev /\ d.job = c.job
    BY DEF Command
  <1>3. /\ d.password = c.password /\ d.existed = c.existed /\ d.ok = c.ok
        /\ d.overtaken = c.overtaken /\ d.crossed = c.crossed /\ d.lost = c.lost /\ d.held = c.held
    BY DEF Command
  <1>4. QED
    BY <1>1, <1>2, <1>3

\* What has been deferred undoes what was done.
LEMMA DeferredOK ==
  ASSUME NEW c \in Command, c.job = None, c.on \in Server, c.kind \in {"now", "restore"},
         c.kind = "now" => c.listed = Nothing /\ c.prev = Nothing,
         c.pc \in {"wait", "create"} \cup InJob
  PROVE  /\ Deferred(c) \in Command /\ Deferred(c).job = None /\ Deferred(c).kind = c.kind /\ Deferred(c).on = c.on
         /\ Shape(Deferred(c))
         /\ \A p : Known(c, p) => Known(Deferred(c), p)
         /\ Deferred(c).overtaken = c.overtaken
         /\ \A W \in Counts : CountsOK(c, W) => CountsOK(Deferred(c), W)
         /\ Deferred(c).pc \in {"restart", "returned"}
  <1> DEFINE ws == {w \in Workload : c.prev[w] # None}
             d == Deferred(c)
  <1>1. CASE ws = {}
    <2>1. d = [c EXCEPT !.pc = "returned"]
      BY <1>1 DEF Deferred
    <2>2. d \in Command /\ d.pc = "returned" /\ Same(c, d)
      BY <2>1, Onward DEF PC
    <2> HIDE DEF d
    <2>3. Shape(d)
      BY <2>2, Some DEF Shape, Same, Scaling, InJob, Copying, Commands
    <2>4. ASSUME NEW W \in Counts, CountsOK(c, W) PROVE CountsOK(d, W)
      <3>1. \A w \in Workload : c.listed[w] = None
        BY <1>1, <2>4 DEF CountsOK, Stopped
      <3>2. QED
        BY <2>2, <3>1 DEF CountsOK, Same, InJob, Back
    <2>5. QED
      BY <2>2, <2>3, <2>4 DEF Same, Known, d
  <1>2. CASE ws # {}
    <2>1. d = [c EXCEPT !.pc = "restart", !.todo = ws]
      BY <1>2 DEF Deferred
    <2>2. /\ d \in Command /\ d.pc = "restart" /\ d.todo = ws /\ d.kind = c.kind /\ d.on = c.on /\ d.job = c.job
          /\ d.listed = c.listed /\ d.prev = c.prev /\ d.password = c.password /\ d.existed = c.existed
          /\ d.overtaken = c.overtaken
      <3>1. ws \in SUBSET Workload
        OBVIOUS
      <3>2. PICK b : b = [c EXCEPT !.pc = "restart"]
        OBVIOUS
      <3>3. b \in Command /\ b.pc = "restart" /\ Same(c, b)
        BY <3>2, Onward DEF PC
      <3>4. d = [b EXCEPT !.todo = ws]
        BY <2>1, <3>2
      <3> HIDE DEF ws, d
      <3>5. QED
        BY <3>1, <3>3, <3>4, NewTodo DEF Same
    <2> HIDE DEF d
    <2>3. c.kind = "restore"
      <3>1. PICK w \in Workload : c.prev[w] # None
        BY <1>2
      <3>2. QED
        BY <3>1 DEF Nothing
    <2>4. Shape(d)
      BY <2>2, <2>3, Some DEF Shape, Scaling, InJob, Copying, Commands
    <2>5. ASSUME NEW W \in Counts, CountsOK(c, W) PROVE CountsOK(d, W)
      <3>1. \A w \in Workload : c.prev[w] = c.listed[w] /\ (c.listed[w] # None => W[w] = 0)
        BY <2>5 DEF CountsOK, Stopped
      <3>2. \A w \in Workload : IF w \in ws THEN W[w] = 0 ELSE c.listed[w] = None
        BY <3>1
      <3> HIDE DEF ws
      <3>3. QED
        BY <2>2, <3>1, <3>2 DEF CountsOK, InJob, Back
    <2>6. QED
      BY <2>2, <2>4, <2>5 DEF Known, d
  <1>3. QED
    BY <1>1, <1>2

\* What a restore that has not got to its Job, or is past it, relies on.
LEMMA Later ==
  ASSUME NEW c, NEW d, NEW W, NEW P, NEW V, NEW J, RestoreOK(c, W, P, V, J), NEW K,
         d.kind = c.kind, d.on = c.on, d.overtaken = c.overtaken,
         CountsOK(c, W[c.on]) => CountsOK(d, W[c.on]), d.pc \notin {"create"} \cup InJob
  PROVE  RestoreOK(d, W, P, V, K)
  BY DEF RestoreOK, Undisturbed, OwnJob

LEMMA DeferStep ==
  ASSUME Inv, NEW m \in Machine, cmd[m].pc \in {"wait", "create"}, Become(m, Deferred(cmd[m])), UNCHANGED World
  PROVE  Inv'
  <1> DEFINE c == cmd[m]
             d == Deferred(c)
  <1>1. c \in Command /\ Shape(c) /\ Known(c, secret) /\ RestoreOK(c, want, pods, volume, job)
    BY AtWork
  <1>2. c.job = None /\ c.on \in Server /\ c.kind \in {"now", "restore"}
        /\ (c.kind = "now" => c.listed = Nothing /\ c.prev = Nothing)
    BY <1>1 DEF Shape, Scaling, InJob
  <1>3. /\ d \in Command /\ d.job = None /\ d.kind = c.kind /\ d.on = c.on /\ Shape(d) /\ Known(d, secret)
        /\ d.overtaken = c.overtaken /\ d.pc \in {"restart", "returned"}
        /\ \A W \in Counts : CountsOK(c, W) => CountsOK(d, W)
    BY <1>1, <1>2, DeferredOK
  <1> HIDE DEF d
  <1>4. RestoreOK(d, want, pods, volume, job)
    <2>1. want[c.on] \in Counts
      BY <1>2, Typed
    <2>2. d.pc \notin {"create"} \cup InJob
      BY <1>3 DEF InJob
    <2>3. QED
      BY <1>1, <1>3, <2>1, <2>2, Later
  <1>5. d.kind = "copy" => CopyOK(d, volume[d.on])
    BY <1>2, <1>3
  <1>6. Become(m, d)
    BY DEF d
  <1>7. QED
    BY <1>3, <1>4, <1>5, <1>6, LookStep

LEMMA CreateFailsKeeps ==
  ASSUME Inv, NEW m \in Machine, CreateFails(m)
  PROVE  Inv'
  BY DeferStep DEF CreateFails, At

LEMMA TooLongKeeps ==
  ASSUME Inv, NEW m \in Machine, TooLong(m)
  PROVE  Inv'
  BY DeferStep DEF TooLong, At

LEMMA PollKeeps ==
  ASSUME Inv, NEW m \in Machine, Poll(m)
  PROVE  Inv'
  <1> DEFINE c == cmd[m]
  <1>1. c.pc = "poll" /\ UNCHANGED World
    BY DEF Poll, At
  <1>2. c \in Command /\ Shape(c) /\ Known(c, secret) /\ RestoreOK(c, want, pods, volume, job)
    BY AtWork
  <1>3. c.ok = FALSE
    BY <1>1, <1>2 DEF Shape, Command
  <1>4. PICK b \in BOOLEAN : Become(m, [c EXCEPT !.pc = "delete", !.ok = b]) /\ (b => job[c.job].pc = "done")
    <2>1. CASE job[c.job].pc = "done" /\ Become(m, [c EXCEPT !.pc = "delete", !.ok = TRUE])
      BY <2>1
    <2>2. CASE Become(m, [c EXCEPT !.pc = "delete"])
      <3>1. ASSUME NEW e \in Command, e.ok = FALSE
            PROVE  [e EXCEPT !.pc = "delete"] = [e EXCEPT !.pc = "delete", !.ok = FALSE]
        BY <3>1 DEF Command
      <3>2. Become(m, [c EXCEPT !.pc = "delete", !.ok = FALSE])
        BY <1>2, <1>3, <2>2, <3>1
      <3>3. QED
        BY <3>2
    <2>3. QED
      BY <2>1, <2>2 DEF Poll
  <1> DEFINE d == [c EXCEPT !.pc = "delete", !.ok = b]
  <1>5. /\ d \in Command /\ d.pc = "delete" /\ d.ok = b /\ d.kind = c.kind /\ d.on = c.on /\ d.job = c.job
        /\ d.content = c.content /\ d.listed = c.listed /\ d.prev = c.prev /\ d.password = c.password
        /\ d.existed = c.existed /\ d.overtaken = c.overtaken /\ d.crossed = c.crossed
    BY <1>2, <1>4, ZenonT(60) DEF Command, PC
  <1>6. Become(m, d)
    BY <1>4
  <1> HIDE DEF d
  <1>7. Shape(d) /\ Known(d, secret)
    BY <1>1, <1>2, <1>5 DEF Shape, Known, Scaling, InJob, Copying
  <1>8. RestoreOK(d, want, pods, volume, job)
    <2>1. ASSUME CountsOK(c, want[c.on]) PROVE CountsOK(d, want[c.on])
      BY <1>1, <1>5, <2>1 DEF CountsOK, InJob, Seen, Stopped
    <2>2. ASSUME Undisturbed(c, pods[c.on], job) PROVE Undisturbed(d, pods[c.on], job)
      BY <1>1, <1>5, <2>2 DEF Undisturbed, InJob
    <2>3. ASSUME OwnJob(c, volume[c.on], job[c.job]) PROVE OwnJob(d, volume[c.on], job[c.job])
      BY <1>1, <1>4, <1>5, <2>3 DEF OwnJob, InJob
    <2>4. QED
      BY <1>2, <1>5, <2>1, <2>2, <2>3 DEF RestoreOK
  <1>9. d.kind = "copy" => CopyOK(d, volume[d.on])
    BY <1>5 DEF CopyOK, Streamed
  <1>10. d.job \in {cmd[m].job, None}
    BY <1>5
  <1>11. QED
    BY <1>1, <1>5, <1>6, <1>7, <1>8, <1>9, <1>10, LookStep

\* A Job that is deleted may go on, and is then nobody's.
LEMMA DeleteJobKeeps ==
  ASSUME Inv, NEW m \in Machine, DeleteJob(m)
  PROVE  Inv'
  <1> DEFINE c == cmd[m]
             t == c.job
             e == [c EXCEPT !.job = None]
             d == Deferred(e)
  <1>1. /\ c.pc = "delete" /\ Become(m, d)
        /\ UNCHANGED <<want, pods, volume, repo, secret, copied, fresh, others, kills, plan>>
    BY DEF DeleteJob, At, app, store, bounds
  <1>2. c \in Command /\ Shape(c) /\ Known(c, secret) /\ RestoreOK(c, want, pods, volume, job)
    BY AtWork
  <1>3. t \in Slot /\ job[t] # None /\ job[t] \in Job
    <2>1. t # None /\ t \in Slot
      BY <1>1, <1>2 DEF Shape, InJob, Command
    <2>2. job[t] # None
      BY <2>1 DEF Inv, JobsOK
    <2>3. QED
      BY <2>1, <2>2, Typed
  <1>4. PICK j \in Job \cup {None} :
          job' = [job EXCEPT ![t] = j] /\ (j # None => j.pc = job[t].pc /\ j.on = job[t].on /\ j.kind = job[t].kind)
    <2>1. [job[t] EXCEPT !.doomed = TRUE] \in Job
      BY <1>3 DEF Job
    <2>2. [job[t] EXCEPT !.doomed = TRUE].pc = job[t].pc /\ [job[t] EXCEPT !.doomed = TRUE].on = job[t].on
          /\ [job[t] EXCEPT !.doomed = TRUE].kind = job[t].kind
      BY <1>3 DEF Job
    <2>3. CASE job' = [job EXCEPT ![t] = IF @.pc = "running" THEN [@ EXCEPT !.doomed = TRUE] ELSE None]
      <3>1. CASE job[t].pc = "running"
        <4>1. job' = [job EXCEPT ![t] = [job[t] EXCEPT !.doomed = TRUE]]
          BY <1>3, <2>3, <3>1, Typed
        <4>2. QED
          BY <2>1, <2>2, <4>1
      <3>2. CASE job[t].pc # "running"
        <4>1. job' = [job EXCEPT ![t] = None]
          BY <1>3, <2>3, <3>2, Typed
        <4>2. QED
          BY <4>1
      <3>3. QED
        BY <3>1, <3>2
    <2>4. CASE job' = [job EXCEPT ![t] = IF @.pc \in {"created", "running"} THEN @ ELSE None]
      <3>1. CASE job[t].pc \in {"created", "running"}
        <4>1. job' = [job EXCEPT ![t] = job[t]]
          BY <1>3, <2>4, <3>1, Typed
        <4>2. QED
          BY <1>3, <4>1
      <3>2. CASE job[t].pc \notin {"created", "running"}
        <4>1. job' = [job EXCEPT ![t] = None]
          BY <1>3, <2>4, <3>2, Typed
        <4>2. QED
          BY <4>1
      <3>3. QED
        BY <3>1, <3>2
    <2>5. QED
      BY <2>3, <2>4 DEF DeleteJob
  <1>5. job' \in [Slot -> Job \cup {None}] /\ job'[t] = j /\ \A u \in Slot \ {t} : job'[u] = job[u]
    BY <1>3, <1>4, Typed
  <1>6. /\ e \in Command /\ e.job = None /\ e.pc = "delete" /\ e.kind = c.kind /\ e.on = c.on /\ e.overtaken = c.overtaken
        /\ e.listed = c.listed /\ e.prev = c.prev /\ e.existed = c.existed /\ e.password = c.password
    BY <1>1, <1>2 DEF Command
  <1> HIDE DEF e
  <1>7. e.on \in Server /\ e.kind \in {"now", "restore"} /\ (e.kind = "now" => e.listed = Nothing /\ e.prev = Nothing)
    BY <1>1, <1>2, <1>6 DEF Shape, InJob
  <1>8. Known(e, secret)
    BY <1>2, <1>6 DEF Known
  <1>9. /\ d \in Command /\ d.job = None /\ d.kind = e.kind /\ d.on = e.on /\ Shape(d) /\ Known(d, secret)
        /\ d.overtaken = e.overtaken /\ d.pc \in {"restart", "returned"}
        /\ \A W \in Counts : CountsOK(e, W) => CountsOK(d, W)
    <2>1. e.pc \in {"wait", "create"} \cup InJob
      BY <1>6 DEF InJob
    <2>2. QED
      BY <1>6, <1>7, <1>8, <2>1, DeferredOK
  <1> HIDE DEF d
  <1>10. RestoreOK(d, want, pods, volume, job')
    <2>1. ASSUME CountsOK(c, want[c.on]) PROVE CountsOK(d, want[c.on])
      <3>1. CountsOK(e, want[c.on])
        BY <1>1, <1>6, <2>1 DEF CountsOK, InJob, Seen, Stopped
      <3>2. want[c.on] \in Counts
        BY <1>6, <1>7, Typed
      <3>3. QED
        BY <1>9, <3>1, <3>2
    <2>2. d.pc \notin {"create"} \cup InJob
      BY <1>9 DEF InJob
    <2>3. d.kind = c.kind /\ d.on = c.on /\ d.overtaken = c.overtaken
      BY <1>6, <1>9
    <2>4. QED
      BY <1>2, <2>1, <2>2, <2>3, Later
  <1>11. /\ cmd \in [Machine -> Command] /\ cmd' = [cmd EXCEPT ![m] = d] /\ cmd'[m] = d
         /\ \A n \in Machine \ {m} : cmd'[n] = cmd[n]
    BY <1>1, Typed DEF Become
  <1>12. \A n \in Machine \ {m} : cmd[n].job # t
    BY <1>3, Some DEF Inv, JobsOK
  <1>13. TypeInv' /\ SnapshotsReadable'
    BY <1>1, <1>5, <1>9, <1>11 DEF Inv, TypeInv, SnapshotsReadable
  <1>14. ASSUME NEW n \in Machine \ {m}, cmd[n].job # None PROVE cmd[n].job \in Slot /\ job'[cmd[n].job] = job[cmd[n].job]
    <2>1. cmd[n].job \in Slot
      BY <1>14, Typed DEF Command
    <2>2. QED
      BY <1>5, <1>12, <2>1
  <1>15. JobsOK(cmd', job')
    <2>1. JobsOK(cmd, job)
      BY DEF Inv
    <2>2. \A n \in Machine : cmd'[n].job # None => job'[cmd'[n].job] # None /\ ~job'[cmd'[n].job].doomed
      BY <1>9, <1>11, <1>14, <2>1 DEF JobsOK
    <2>3. \A n, o \in Machine : n # o /\ cmd'[n].job # None => cmd'[o].job # cmd'[n].job
      BY <1>9, <1>11, <2>1 DEF JobsOK
    <2>4. QED
      BY <2>2, <2>3 DEF JobsOK
  <1>16. MachineOK(m)'
    <2>1. d.kind # "copy"
      BY <1>7, <1>9
    <2>2. QED
      BY <1>1, <1>9, <1>10, <1>11, <2>1 DEF MachineOK
  <1>17. ASSUME NEW n \in Machine \ {m}
         PROVE  /\ Touched(cmd[n], cmd'[n]) /\ Known(cmd[n], secret')
                /\ Spared(cmd[n], cmd'[n]) /\ Witnessed(cmd[n], cmd'[n])
    <2>1. cmd'[n] = cmd[n] /\ Touched(cmd[n], cmd'[n])
      BY <1>11, TouchedSelf
    <2>2. Known(cmd[n], secret')
      BY <1>1 DEF Inv
    <2>3. ASSUME NEW P, Undisturbed(cmd[n], P, job) PROVE Undisturbed(cmd[n], P, job')
      <3>1. ASSUME NEW u \in Slot, job'[u] # None
            PROVE  job[u] # None /\ job'[u].on = job[u].on /\ job'[u].pc = job[u].pc /\ job'[u].kind = job[u].kind
        BY <1>3, <1>4, <1>5, <3>1
      <3>2. QED
        BY <2>3, <3>1 DEF Undisturbed
    <2>4. ASSUME NEW V, OwnJob(cmd[n], V, job[cmd[n].job]) PROVE OwnJob(cmd[n], V, job'[cmd[n].job])
      <3>1. cmd[n].pc \in InJob => job'[cmd[n].job] = job[cmd[n].job]
        BY <1>14 DEF Inv, Shape
      <3>2. QED
        BY <2>4, <3>1 DEF OwnJob
    <2>5. Spared(cmd[n], cmd'[n])
      BY <1>1, <2>3, <2>4 DEF Spared
    <2>6. QED
      BY <1>1, <2>1, <2>2, <2>5 DEF Witnessed
  <1>18. QED
    BY <1>13, <1>15, <1>16, <1>17, MachineStep

LEMMA CreateJobKeeps ==
  ASSUME Inv, NEW m \in Machine, CreateJob(m)
  PROVE  Inv'
  <1> DEFINE c == cmd[m]
             s == c.on
             t == Min(Free)
             k == IF c.kind = "now" THEN "backup" ELSE "restore"
             j == NewJob(s, k, c.content, FALSE)
             d == [c EXCEPT !.pc = "poll", !.job = t]
  <1>1. /\ c.pc = "create" /\ secret # None /\ Free # {} /\ copied' = [copied EXCEPT ![s] = secret]
        /\ job' = [job EXCEPT ![t] = j] /\ Become(m, d)
        /\ UNCHANGED <<want, pods, volume, repo, secret, fresh, others, kills, plan>>
    BY DEF CreateJob, At, app, bounds
  <1>2. c \in Command /\ Shape(c) /\ Known(c, secret) /\ RestoreOK(c, want, pods, volume, job)
    BY AtWork
  <1>3. s \in Server /\ c.content \in Content /\ c.job = None /\ c.ok = FALSE /\ c.kind \in {"now", "restore"}
        /\ (c.kind = "now" => c.listed = Nothing /\ c.prev = Nothing)
    BY <1>1, <1>2 DEF Shape, Command, InJob
  <1>4. t \in Slot /\ t # None /\ job[t] = None /\ \A n \in Machine : cmd[n].job # t
    BY <1>1, FreeSlot, Some
  <1>5. /\ j \in Job /\ j.on = s /\ j.kind = k /\ j.pc = "created" /\ j.content = c.content /\ j.whole = TRUE
        /\ j.doomed = FALSE
    BY <1>3 DEF NewJob, Job
  <1>6. j # None
    BY <1>5, Some
  <1> HIDE DEF t, j
  <1>7. job' \in [Slot -> Job \cup {None}] /\ job'[t] = j /\ \A u \in Slot \ {t} : job'[u] = job[u]
    BY <1>1, <1>4, <1>5, Typed
  <1>8. /\ d \in Command /\ d.pc = "poll" /\ d.job = t /\ d.kind = c.kind /\ d.on = s /\ d.content = c.content
        /\ d.listed = c.listed /\ d.prev = c.prev /\ d.password = c.password /\ d.existed = c.existed
        /\ d.ok = FALSE /\ d.overtaken = c.overtaken /\ d.crossed = c.crossed
    BY <1>2, <1>3, <1>4 DEF Command, PC
  <1> HIDE DEF d
  <1>9. Shape(d) /\ Known(d, secret)
    BY <1>2, <1>3, <1>4, <1>8 DEF Shape, Known, Scaling, InJob, Copying, Commands
  <1>10. RestoreOK(d, want, pods, volume, job')
    <2>1. ASSUME CountsOK(c, want[s]) PROVE CountsOK(d, want[s])
      BY <1>1, <1>8, <2>1 DEF CountsOK, InJob, Seen, Stopped
    <2>2. SUFFICES ASSUME c.kind = "restore", Undisturbed(c, pods[s], job)
                   PROVE  Undisturbed(d, pods[s], job') /\ OwnJob(d, volume[s], job'[t])
      BY <1>2, <1>8, <2>1 DEF RestoreOK
    <2>3. Undisturbed(d, pods[s], job')
      <3>1. ASSUME NEW u \in Slot, job'[u] # None, job'[u].on = s, job'[u].pc = "running", job'[u].kind = "restore"
            PROVE  FALSE
        <4>1. u # t /\ job'[u] = job[u]
          BY <1>5, <1>7, <3>1
        <4>2. u = c.job
          BY <1>1, <2>2, <3>1, <4>1 DEF Undisturbed
        <4>3. QED
          BY <1>3, <4>2, Some
      <3>2. \A w \in Workload : pods[s][w] = 0
        BY <1>1, <2>2 DEF Undisturbed
      <3>3. QED
        BY <1>8, <3>1, <3>2 DEF Undisturbed
    <2>4. OwnJob(d, volume[s], job'[t])
      BY <1>5, <1>7, <1>8, <2>2 DEF OwnJob
    <2>5. QED
      BY <2>3, <2>4
  <1>11. /\ cmd \in [Machine -> Command] /\ cmd' = [cmd EXCEPT ![m] = d] /\ cmd'[m] = d
         /\ \A n \in Machine \ {m} : cmd'[n] = cmd[n]
    BY <1>1, Typed DEF Become
  <1>12. copied' \in [Server -> Content \cup {None}] /\ \A r \in Server : copied'[r] \in {copied[r], secret}
    BY <1>1, <1>3, Typed
  <1>13. TypeInv'
    BY <1>1, <1>7, <1>8, <1>11, <1>12 DEF Inv, TypeInv
  <1>14. SnapshotsReadable'
    BY <1>1, <1>12 DEF Inv, SnapshotsReadable
  <1>15. ASSUME NEW n \in Machine, cmd[n].job # None PROVE cmd[n].job \in Slot /\ job'[cmd[n].job] = job[cmd[n].job]
    <2>1. cmd[n].job \in Slot
      BY <1>15, Typed DEF Command
    <2>2. QED
      BY <1>4, <1>7, <2>1
  <1>16. JobsOK(cmd', job')
    <2>1. JobsOK(cmd, job)
      BY DEF Inv
    <2>2. ASSUME NEW n \in Machine, cmd'[n].job # None
          PROVE  job'[cmd'[n].job] # None /\ ~job'[cmd'[n].job].doomed
      <3>1. CASE n = m
        BY <1>5, <1>6, <1>7, <1>8, <1>11, <3>1
      <3>2. CASE n # m
        BY <1>11, <1>15, <2>1, <2>2, <3>2 DEF JobsOK
      <3>3. QED
        BY <3>1, <3>2
    <2>3. \A n, o \in Machine : n # o /\ cmd'[n].job # None => cmd'[o].job # cmd'[n].job
      BY <1>4, <1>8, <1>11, <2>1 DEF JobsOK
    <2>4. QED
      BY <2>2, <2>3 DEF JobsOK
  <1>17. MachineOK(m)'
    <2>1. d.kind # "copy"
      BY <1>3, <1>8
    <2>2. QED
      BY <1>1, <1>9, <1>10, <1>11, <2>1 DEF MachineOK
  <1>18. ASSUME NEW n \in Machine \ {m}
         PROVE  /\ Touched(cmd[n], cmd'[n]) /\ Known(cmd[n], secret')
                /\ Spared(cmd[n], cmd'[n]) /\ Witnessed(cmd[n], cmd'[n])
    <2>1. cmd'[n] = cmd[n] /\ Touched(cmd[n], cmd'[n])
      BY <1>11, TouchedSelf
    <2>2. Known(cmd[n], secret')
      BY <1>1 DEF Inv
    <2>3. ASSUME NEW P, Undisturbed(cmd[n], P, job) PROVE Undisturbed(cmd[n], P, job')
      <3>1. ASSUME NEW u \in Slot, job'[u] # None, job'[u].pc = "running"
            PROVE  job'[u] = job[u]
        BY <1>5, <1>7, <3>1
      <3>2. QED
        BY <2>3, <3>1 DEF Undisturbed
    <2>4. ASSUME NEW V, OwnJob(cmd[n], V, job[cmd[n].job]) PROVE OwnJob(cmd[n], V, job'[cmd[n].job])
      <3>1. cmd[n].pc \in InJob => job'[cmd[n].job] = job[cmd[n].job]
        BY <1>15 DEF Inv, Shape
      <3>2. QED
        BY <2>4, <3>1 DEF OwnJob
    <2>5. Spared(cmd[n], cmd'[n])
      BY <1>1, <2>3, <2>4 DEF Spared
    <2>6. QED
      BY <1>1, <2>1, <2>2, <2>5 DEF Witnessed
  <1>19. QED
    BY <1>13, <1>14, <1>16, <1>17, <1>18, MachineStep

-----------------------------------------------------------------------------
\* A restore goes on to its Job only when nothing is left that mounts the volume.
LEMMA NoPodsKeeps ==
  ASSUME Inv, NEW m \in Machine, NoPods(m)
  PROVE  Inv'
  <1> DEFINE c == cmd[m]
             d == [c EXCEPT !.pc = "create"]
  <1>1. c.pc = "wait" /\ ~Mounting(c.on) /\ Become(m, d) /\ UNCHANGED World
    BY DEF NoPods, At
  <1>2. c \in Command /\ Shape(c) /\ Known(c, secret) /\ RestoreOK(c, want, pods, volume, job)
    BY AtWork
  <1>3. d \in Command /\ d.pc = "create" /\ Same(c, d)
    BY <1>2, Onward DEF PC
  <1> HIDE DEF d
  <1>4. c.kind = "restore" /\ c.on \in Server
    BY <1>1, <1>2 DEF Shape, Scaling
  <1>5. Shape(d) /\ Known(d, secret)
    BY <1>1, <1>2, <1>3, <1>4 DEF Shape, Known, Same, Scaling, InJob, Copying, Commands
  <1>6. \A w \in Workload : pods[c.on][w] = 0
    <2>1. \A w \in Workload : pods[c.on][w] \in Nat /\ ~(pods[c.on][w] > 0)
      BY <1>1, <1>4, Typed DEF Mounting, PodsOf
    <2>2. QED
      BY <2>1
  <1>7. \A t \in Slot : ~(job[t] # None /\ job[t].on = c.on /\ job[t].pc = "running")
    BY <1>1 DEF Mounting, Running
  <1>8. RestoreOK(d, want, pods, volume, job)
    <2>1. ASSUME CountsOK(c, want[c.on]) PROVE CountsOK(d, want[c.on])
      BY <1>1, <1>3, <2>1 DEF CountsOK, InJob, Same, Seen, Stopped
    <2>2. Undisturbed(d, pods[c.on], job)
      BY <1>3, <1>6, <1>7 DEF Undisturbed, Same
    <2>3. OwnJob(d, volume[c.on], job[c.job])
      BY <1>3 DEF OwnJob, InJob
    <2>4. QED
      BY <1>2, <1>3, <2>1, <2>2, <2>3 DEF RestoreOK, Same
  <1>9. d.kind # "copy" /\ d.job \in {c.job, None}
    BY <1>3, <1>4 DEF Same
  <1>10. QED
    BY <1>1, <1>3, <1>5, <1>8, <1>9, LookStep

\* What an error of scaleMounters leaves at zero are workloads it has stopped.
LEMMA ScaleFailsKeeps ==
  ASSUME Inv, NEW m \in Machine, ScaleFails(m)
  PROVE  Inv'
  <1> DEFINE c == cmd[m]
             L == {w \in Workload : c.prev[w] # None}
             d == [c EXCEPT !.pc = "returned", !.lost = L]
  <1>1. c.pc \in {"scale", "listSts"} /\ Become(m, d) /\ UNCHANGED World
    BY DEF ScaleFails
  <1>2. c \in Command /\ Shape(c) /\ Known(c, secret) /\ RestoreOK(c, want, pods, volume, job)
    BY AtWork
  <1>3. /\ d \in Command /\ d.pc = "returned" /\ d.lost = L /\ d.kind = c.kind /\ d.on = c.on /\ d.job = c.job
        /\ d.existed = c.existed /\ d.password = c.password /\ d.listed = c.listed /\ d.prev = c.prev
        /\ d.overtaken = c.overtaken
    <2>1. PICK b : b = [c EXCEPT !.pc = "returned"]
      OBVIOUS
    <2>2. b \in Command /\ b.pc = "returned" /\ Same(c, b)
      BY <1>2, <2>1, Onward DEF PC
    <2>3. L \in SUBSET Workload /\ d = [b EXCEPT !.lost = L]
      BY <2>1
    <2> HIDE DEF L, d
    <2>4. QED
      BY <2>2, <2>3, NewLost DEF Same
  <1>4. \A w \in Workload : w \in d.lost <=> c.prev[w] # None
    BY <1>3
  <1> HIDE DEF d, L
  <1>5. c.kind = "restore" /\ c.on \in Server /\ c.job = None
    BY <1>1, <1>2 DEF Shape, Scaling, InJob
  <1>6. Shape(d) /\ Known(d, secret)
    BY <1>2, <1>3, <1>5 DEF Shape, Known, Scaling, InJob, Copying, Commands
  <1>7. ASSUME CountsOK(c, want[c.on]) PROVE CountsOK(d, want[c.on])
    <2> DEFINE W == want[c.on]
    <2> HIDE DEF W
    <2>1. CountsOK(c, W)
      BY <1>7 DEF W
    <2>2. ASSUME NEW w \in Workload PROVE Back(d, W, w)
      <3>1. \/ W[w] = c.listed[w]
            \/ c.prev[w] = c.listed[w] /\ (c.listed[w] # None => W[w] = 0)
        BY <1>1, <2>1 DEF CountsOK, Patching, Stopped
      <3>2. QED
        BY <1>3, <1>4, <3>1 DEF Back
    <2>3. CountsOK(d, W)
      BY <1>3, <2>2 DEF CountsOK, InJob
    <2>4. QED
      BY <2>3 DEF W
  <1>8. RestoreOK(d, want, pods, volume, job)
    <2>1. d.pc \notin {"create"} \cup InJob
      BY <1>3 DEF InJob
    <2>2. QED
      BY <1>2, <1>3, <1>7, <2>1, Later
  <1>9. d.kind # "copy" /\ d.job \in {c.job, None}
    BY <1>3, <1>5
  <1>10. QED
    BY <1>1, <1>3, <1>6, <1>8, <1>9, LookStep

\* The calls of a copy before its stream.
LEMMA CheckKeeps ==
  ASSUME Inv, NEW m \in Machine, cmd[m].pc \in {"source", "dest"}, NEW pc \in {"dest", "clear"},
         Become(m, [cmd[m] EXCEPT !.pc = pc]), UNCHANGED World
  PROVE  Inv'
  <1> DEFINE c == cmd[m]
             d == [c EXCEPT !.pc = pc]
  <1>1. c \in Command /\ Shape(c) /\ Known(c, secret) /\ Become(m, d)
    BY AtWork
  <1>2. d \in Command /\ d.pc = pc /\ Same(c, d)
    BY <1>1, Onward DEF PC
  <1> HIDE DEF d
  <1>3. c.kind = "copy" /\ c.on \in Server /\ c.to \in Server \ {c.on}
    BY <1>1 DEF Shape, Copying
  <1>4. Shape(d) /\ Known(d, secret)
    BY <1>1, <1>2, <1>3 DEF Shape, Known, Same, Scaling, InJob, Copying, Commands
  <1>5. RestoreOK(d, want, pods, volume, job) /\ CopyOK(d, volume[d.on]) /\ d.job \in {c.job, None}
    BY <1>2, <1>3 DEF RestoreOK, CopyOK, Same, Streamed
  <1>6. QED
    BY <1>1, <1>2, <1>4, <1>5, LookStep

LEMMA CheckSourceKeeps ==
  ASSUME Inv, NEW m \in Machine, CheckSource(m)
  PROVE  Inv'
  BY CheckKeeps DEF CheckSource, At

LEMMA CheckDestKeeps ==
  ASSUME Inv, NEW m \in Machine, CheckDest(m)
  PROVE  Inv'
  BY CheckKeeps DEF CheckDest, At

LEMMA SumSourceKeeps ==
  ASSUME Inv, NEW m \in Machine, SumSource(m)
  PROVE  Inv'
  <1> DEFINE c == cmd[m]
             x == volume[c.on]
             d == [c EXCEPT !.pc = "sumDest", !.content = x]
  <1>1. c.pc = "sumSource" /\ Become(m, d) /\ UNCHANGED World
    BY DEF SumSource, At
  <1>2. c \in Command /\ Shape(c) /\ Known(c, secret) /\ (c.kind = "copy" => CopyOK(c, x))
    BY AtWork
  <1>3. c.kind = "copy" /\ c.on \in Server /\ c.to \in Server \ {c.on} /\ c.job = None /\ x \in c.held
    BY <1>1, <1>2 DEF Shape, Copying, InJob, CopyOK, Streamed
  <1>4. x \in Content
    BY <1>3, Typed
  <1> HIDE DEF x
  <1>5. /\ d \in Command /\ d.pc = "sumDest" /\ d.content = x /\ d.kind = c.kind /\ d.on = c.on /\ d.to = c.to
        /\ d.job = c.job /\ d.existed = c.existed /\ d.password = c.password /\ d.ok = c.ok
        /\ d.listed = c.listed /\ d.prev = c.prev /\ d.held = c.held
    BY <1>2, <1>4 DEF Command, PC
  <1> HIDE DEF d
  <1>6. Shape(d) /\ Known(d, secret)
    BY <1>1, <1>2, <1>3, <1>5 DEF Shape, Known, Scaling, InJob, Copying, Commands
  <1>7. RestoreOK(d, want, pods, volume, job) /\ CopyOK(d, volume[d.on]) /\ d.job \in {c.job, None}
    BY <1>3, <1>5 DEF RestoreOK, CopyOK, x
  <1>8. QED
    BY <1>1, <1>5, <1>6, <1>7, LookStep

LEMMA SumDestKeeps ==
  ASSUME Inv, NEW m \in Machine, SumDest(m)
  PROVE  Inv'
  <1> DEFINE c == cmd[m]
             b == volume[c.to] = c.content
             d == [c EXCEPT !.pc = "returned", !.ok = b]
  <1>1. c.pc = "sumDest" /\ Become(m, d) /\ UNCHANGED World
    BY DEF SumDest, At
  <1>2. c \in Command /\ Shape(c) /\ Known(c, secret) /\ b \in BOOLEAN
    BY AtWork
  <1>3. c.kind = "copy" /\ c.on \in Server /\ c.to \in Server \ {c.on} /\ c.job = None
    BY <1>1, <1>2 DEF Shape, Copying, InJob
  <1> HIDE DEF b
  <1>4. /\ d \in Command /\ d.pc = "returned" /\ d.kind = c.kind /\ d.on = c.on /\ d.to = c.to
        /\ d.job = c.job /\ d.existed = c.existed /\ d.password = c.password
        /\ d.listed = c.listed /\ d.prev = c.prev
    BY <1>2, ZenonT(60) DEF Command, PC
  <1> HIDE DEF d
  <1>5. Shape(d) /\ Known(d, secret)
    BY <1>2, <1>3, <1>4 DEF Shape, Known, Scaling, InJob, Copying, Commands
  <1>6. RestoreOK(d, want, pods, volume, job) /\ CopyOK(d, volume[d.on]) /\ d.job \in {c.job, None}
    BY <1>3, <1>4 DEF RestoreOK, CopyOK, Streamed
  <1>7. QED
    BY <1>1, <1>4, <1>5, <1>6, LookStep

LEMMA NewListing ==
  ASSUME NEW c \in Command, NEW W \in Counts, NEW d, d = [c EXCEPT !.listed = W]
  PROVE  /\ d \in Command /\ d.pc = c.pc /\ d.listed = W /\ d.kind = c.kind /\ d.on = c.on /\ d.to = c.to
         /\ d.prev = c.prev /\ d.job = c.job /\ d.password = c.password /\ d.existed = c.existed /\ d.ok = c.ok
         /\ d.overtaken = c.overtaken
  BY DEF Command, Counts

\* Each listing adds what is deployed of its type.
LEMMA ListMountersKeeps ==
  ASSUME Inv, NEW m \in Machine, ListMounters(m)
  PROVE  Inv'
  <1> DEFINE c    == cmd[m]
             W    == want[c.on]
             type == IF c.pc = "list" THEN "deploy" ELSE "sts"
             ws   == {w \in Workload : Type[w] = type /\ W[w] # None}
             pc   == IF ws = {} THEN AfterType(type) ELSE "scale"
             L    == [w \in Workload |-> IF w \in ws THEN W[w] ELSE c.listed[w]]
             d    == [c EXCEPT !.pc = pc, !.todo = ws, !.listed = L]
  <1>1. c.pc \in {"list", "listSts"} /\ Become(m, d) /\ UNCHANGED World
    BY DEF ListMounters, At
  <1>2. c \in Command /\ Shape(c) /\ Known(c, secret) /\ RestoreOK(c, want, pods, volume, job)
    BY AtWork
  <1>3. c.kind = "restore" /\ c.on \in Server /\ c.job = None /\ ~c.ok
    BY <1>1, <1>2 DEF Shape, Scaling, InJob
  <1>4. W \in Counts /\ c.listed \in Counts
    BY <1>2, <1>3, Typed DEF Command, Counts
  <1>5. /\ ws \in SUBSET Workload /\ L \in Counts /\ pc \in {"listSts", "wait", "scale"}
        /\ \A w \in Workload : w \in ws <=> Type[w] = type /\ W[w] # None
        /\ \A w \in Workload : L[w] = IF w \in ws THEN W[w] ELSE c.listed[w]
        /\ IF ws = {} THEN pc = (IF type = "deploy" THEN "listSts" ELSE "wait") ELSE pc = "scale"
    BY <1>4 DEF Counts, AfterType
  <1>6. type = IF c.pc = "list" THEN "deploy" ELSE "sts"
    OBVIOUS
  <1> HIDE DEF W, type, ws, pc, L
  <1>7. /\ d \in Command /\ d.pc = pc /\ d.listed = L /\ d.todo = ws /\ d.kind = c.kind /\ d.on = c.on /\ d.to = c.to
        /\ d.prev = c.prev /\ d.job = c.job /\ d.password = c.password /\ d.existed = c.existed /\ d.ok = c.ok
        /\ d.overtaken = c.overtaken
    <2>1. PICK b : b = [c EXCEPT !.pc = pc]
      OBVIOUS
    <2>2. b \in Command /\ b.pc = pc /\ Same(c, b)
      BY <1>2, <1>5, <2>1, Onward DEF PC
    <2>3. PICK e : e = [b EXCEPT !.listed = L]
      OBVIOUS
    <2>4. /\ e \in Command /\ e.pc = b.pc /\ e.listed = L /\ e.kind = b.kind /\ e.on = b.on /\ e.to = b.to
          /\ e.prev = b.prev /\ e.job = b.job /\ e.password = b.password /\ e.existed = b.existed /\ e.ok = b.ok
          /\ e.overtaken = b.overtaken
      BY <1>5, <2>2, <2>3, NewListing
    <2>5. d = [e EXCEPT !.todo = ws]
      BY <2>1, <2>3
    <2> HIDE DEF d
    <2>6. QED
      BY <1>5, <2>2, <2>4, <2>5, NewTodo DEF Same
  <1> HIDE DEF d
  <1>8. Shape(d) /\ Known(d, secret)
    BY <1>2, <1>3, <1>5, <1>7 DEF Shape, Known, Scaling, InJob, Copying, Commands
  <1>9. ASSUME c.pc = "list" PROVE CountsOK(d, W)
    <2>1. type = "deploy" /\ \A w \in Workload : c.listed[w] = None /\ d.prev[w] = None
      BY <1>2, <1>6, <1>7, <1>9 DEF Shape, Nothing
    <2>2. ASSUME NEW w \in Workload
          PROVE  /\ Type[w] = "deploy" /\ d.listed[w] = None => W[w] = None
                 /\ Type[w] # "deploy" => d.listed[w] = None
                 /\ IF w \in ws THEN Type[w] = "deploy" /\ d.listed[w] # None /\ W[w] = d.listed[w] ELSE d.listed[w] = None
      BY <1>5, <1>7, <2>1
    <2>3. CASE ws = {}
      BY <1>5, <1>7, <2>1, <2>2, <2>3 DEF CountsOK, Seen, Stopped, InJob
    <2>4. CASE ws # {}
      <3>1. Patching(d, W, "deploy")
        BY <1>7, <2>1, <2>2, <2>4 DEF Patching, Seen, Stopped
      <3>2. QED
        BY <1>5, <1>7, <2>4, <3>1 DEF CountsOK, InJob
    <2>5. QED
      BY <2>3, <2>4
  <1>10. ASSUME c.pc = "listSts", CountsOK(c, W) PROVE CountsOK(d, W)
    <2>1. /\ type = "sts" /\ Seen(c, W, {"deploy"})
          /\ \A w \in Workload : Stopped(c, W, w) /\ (Type[w] # "deploy" => c.listed[w] = None)
      BY <1>6, <1>10 DEF CountsOK
    <2>2. ASSUME NEW w \in Workload
          PROVE  /\ Type[w] \in {"deploy", "sts"} /\ d.listed[w] = None => W[w] = None
                 /\ Type[w] \notin {"deploy", "sts"} => d.listed[w] = None
                 /\ IF w \in ws THEN Type[w] = "sts" /\ d.listed[w] # None /\ W[w] = d.listed[w] /\ d.prev[w] = None
                    ELSE Stopped(d, W, w)
      <3>1. Stopped(c, W, w) /\ (Type[w] # "deploy" => c.listed[w] = None)
            /\ (Type[w] = "deploy" /\ c.listed[w] = None => W[w] = None)
        BY <2>1 DEF Seen
      <3>2. CASE w \in ws
        BY <1>5, <1>7, <2>1, <3>1, <3>2 DEF Stopped
      <3>3. CASE w \notin ws
        BY <1>5, <1>7, <2>1, <3>1, <3>3 DEF Stopped
      <3>4. QED
        BY <3>2, <3>3
    <2>3. CASE ws = {}
      BY <1>5, <1>7, <2>1, <2>2, <2>3 DEF CountsOK, Seen, InJob
    <2>4. CASE ws # {}
      <3>1. Patching(d, W, "sts")
        BY <1>7, <2>2, <2>4 DEF Patching, Seen
      <3>2. QED
        BY <1>5, <1>7, <2>4, <3>1 DEF CountsOK, InJob
    <2>5. QED
      BY <2>3, <2>4
  <1>11. RestoreOK(d, want, pods, volume, job)
    <2>1. d.pc \notin {"create"} \cup InJob
      BY <1>5, <1>7 DEF InJob
    <2>2. CountsOK(c, want[c.on]) => CountsOK(d, want[c.on])
      BY <1>1, <1>9, <1>10 DEF W
    <2>3. QED
      BY <1>2, <1>7, <2>1, <2>2, Later
  <1>12. d.kind # "copy" /\ d.job \in {c.job, None}
    BY <1>3, <1>7
  <1>13. QED
    BY <1>1, <1>7, <1>8, <1>11, <1>12, LookStep

-----------------------------------------------------------------------------
\* A restore patches one workload of its server to the count k; the other
\* restores there are overtaken.
LEMMA PatchStep ==
  ASSUME Inv, NEW m \in Machine, NEW w \in Workload, NEW k \in Nat \cup {None}, NEW d \in Command,
         cmd[m].kind = "restore", cmd[m].on \in Server, d.kind = "restore", d.on = cmd[m].on, d.job = cmd[m].job,
         Patch(cmd[m].on, w, k), cmd' = Overtaken([cmd EXCEPT ![m] = d], cmd[m].on, m),
         Shape(d), Known(d, secret), RestoreOK(d, [want EXCEPT ![cmd[m].on][w] = k], pods, volume, job)
  PROVE  Inv'
  <1> DEFINE c == cmd[m]
             s == c.on
             mid == [cmd EXCEPT ![m] = d]
  <1>1. /\ want' = [want EXCEPT ![s][w] = k]
        /\ UNCHANGED <<pods, volume, repo, secret, copied, job, fresh, others, kills, plan>>
    BY DEF Patch, store, bounds
  <1>2. mid \in [Machine -> Command] /\ mid[m] = d /\ \A n \in Machine \ {m} : mid[n] = cmd[n]
    BY Typed
  <1>3. cmd' = Overtaken(mid, s, m)
    OBVIOUS
  <1> HIDE DEF mid
  <1>4. /\ cmd' \in [Machine -> Command] /\ cmd'[m] = d
        /\ \A n \in Machine \ {m} : /\ Touched(cmd[n], cmd'[n])
                                    /\ cmd[n].kind = "restore" /\ cmd[n].on = s => cmd'[n].overtaken
    <2>1. /\ cmd' \in [Machine -> Command] /\ cmd'[m] = mid[m]
          /\ \A n \in Machine : /\ Touched(mid[n], cmd'[n])
                                /\ n # m /\ mid[n].kind = "restore" /\ mid[n].on = s => cmd'[n].overtaken
      <3>1. PICK r : r = s
        OBVIOUS
      <3>2. /\ Overtaken(mid, r, m) \in [Machine -> Command] /\ Overtaken(mid, r, m)[m] = mid[m]
            /\ \A n \in Machine : /\ Touched(mid[n], Overtaken(mid, r, m)[n])
                                  /\ n # m /\ mid[n].kind = "restore" /\ mid[n].on = r => Overtaken(mid, r, m)[n].overtaken
        BY <1>2, OvertakenOK
      <3>3. QED
        BY <1>3, <3>1, <3>2
    <2>2. QED
      BY <1>2, <2>1
  <1>5. want' \in [Server -> Counts] /\ \A r \in Server \ {s} : want'[r] = want[r]
    <2>1. want[s] \in Counts /\ [want[s] EXCEPT ![w] = k] \in Counts
      BY Typed DEF Counts
    <2>2. want' = [want EXCEPT ![s] = [want[s] EXCEPT ![w] = k]]
      BY <1>1, Typed
    <2>3. QED
      BY <2>1, <2>2, Typed
  <1>6. TypeInv' /\ SnapshotsReadable'
    BY <1>1, <1>4, <1>5 DEF Inv, TypeInv, SnapshotsReadable
  <1>7. JobsOK(cmd', job')
    <2>1. JobsOK(cmd, job) /\ \A n \in Machine : cmd'[n].job = cmd[n].job
      BY <1>4 DEF Inv, Touched
    <2>2. QED
      BY <1>1, <2>1, ZenonT(60) DEF JobsOK
  <1>8. MachineOK(m)'
    BY <1>1, <1>4 DEF MachineOK
  <1>9. ASSUME NEW n \in Machine \ {m}
        PROVE  /\ Touched(cmd[n], cmd'[n]) /\ Known(cmd[n], secret')
               /\ Spared(cmd[n], cmd'[n]) /\ Witnessed(cmd[n], cmd'[n])
    <2>1. Known(cmd[n], secret')
      BY <1>1 DEF Inv
    <2>2. Spared(cmd[n], cmd'[n])
      <3>1. CASE cmd[n].kind = "restore" /\ cmd[n].on = s
        BY <1>4, <3>1 DEF Spared
      <3>2. CASE cmd[n].on # s
        <4>1. want'[cmd[n].on] = want[cmd[n].on]
          BY <1>1, <3>2, Typed
        <4>2. QED
          BY <1>1, <4>1 DEF Spared
      <3>3. QED
        BY <3>1, <3>2 DEF Spared
    <2>3. QED
      BY <1>1, <1>4, <2>1, <2>2 DEF Witnessed
  <1>10. QED
    BY <1>6, <1>7, <1>8, <1>9, MachineStep

LEMMA NewPrev ==
  ASSUME NEW c \in Command, NEW W \in Counts, NEW d, d = [c EXCEPT !.prev = W]
  PROVE  /\ d \in Command /\ d.pc = c.pc /\ d.prev = W /\ d.kind = c.kind /\ d.on = c.on /\ d.todo = c.todo
         /\ d.listed = c.listed /\ d.job = c.job /\ d.password = c.password /\ d.existed = c.existed /\ d.ok = c.ok
         /\ d.overtaken = c.overtaken
  BY DEF Command, Counts

LEMMA ScaleKeeps ==
  ASSUME Inv, NEW m \in Machine, NEW w \in Workload, Scale(m, w)
  PROVE  Inv'
  <1> DEFINE c  == cmd[m]
             p  == [c.prev EXCEPT ![w] = c.listed[w]]
             ws == c.todo \ {w}
             pc == IF c.todo = {w} THEN AfterType(Type[w]) ELSE "scale"
             d  == [c EXCEPT !.prev = p, !.todo = ws, !.pc = pc]
  <1>1. /\ c.pc = "scale" /\ w \in c.todo /\ Patch(c.on, w, 0)
        /\ cmd' = Overtaken([cmd EXCEPT ![m] = Scaled(c, w, c.listed[w])], c.on, m)
    BY DEF Scale, At
  <1>2. c \in Command /\ Shape(c) /\ Known(c, secret) /\ RestoreOK(c, want, pods, volume, job)
    BY AtWork
  <1>3. Scaled(c, w, c.listed[w]) = d
    <2> HIDE DEF pc
    <2>1. QED
      BY DEF Scaled, pc
  <1>4. c.kind = "restore" /\ c.on \in Server /\ c.job = None /\ ~c.ok
    BY <1>1, <1>2 DEF Shape, Scaling, InJob
  <1>5. p \in Counts /\ p[w] = c.listed[w] /\ \A v \in Workload \ {w} : p[v] = c.prev[v]
    <2>1. c.prev \in Counts /\ c.listed \in Counts
      BY <1>2 DEF Command, Counts
    <2>2. QED
      BY <2>1 DEF Counts
  <1>6. /\ ws \in SUBSET Workload /\ pc \in {"listSts", "wait", "scale"}
        /\ IF ws = {} THEN pc = (IF Type[w] = "deploy" THEN "listSts" ELSE "wait") ELSE pc = "scale"
        /\ w \notin ws /\ \A v \in Workload \ {w} : v \in ws <=> v \in c.todo
    BY <1>1, <1>2 DEF Command, AfterType
  <1> HIDE DEF p, ws, pc
  <1>7. /\ d \in Command /\ d.pc = pc /\ d.listed = c.listed /\ d.todo = ws /\ d.kind = c.kind /\ d.on = c.on
        /\ d.prev = p /\ d.job = c.job /\ d.password = c.password /\ d.existed = c.existed /\ d.ok = c.ok
        /\ d.overtaken = c.overtaken
    <2>1. PICK b : b = [c EXCEPT !.prev = p]
      OBVIOUS
    <2>2. /\ b \in Command /\ b.prev = p /\ b.kind = c.kind /\ b.on = c.on /\ b.todo = c.todo
          /\ b.listed = c.listed /\ b.job = c.job /\ b.password = c.password /\ b.existed = c.existed /\ b.ok = c.ok
          /\ b.overtaken = c.overtaken
      BY <1>2, <1>5, <2>1, NewPrev
    <2>3. PICK e : e = [b EXCEPT !.todo = ws]
      OBVIOUS
    <2>4. /\ e \in Command /\ e.todo = ws /\ e.listed = b.listed /\ e.kind = b.kind /\ e.on = b.on
          /\ e.prev = b.prev /\ e.job = b.job /\ e.password = b.password /\ e.existed = b.existed /\ e.ok = b.ok
          /\ e.overtaken = b.overtaken
      BY <1>6, <2>2, <2>3, NewTodo
    <2>5. d = [e EXCEPT !.pc = pc]
      BY <2>1, <2>3
    <2> HIDE DEF d
    <2>6. d \in Command /\ d.pc = pc /\ Same(e, d)
      BY <1>6, <2>4, <2>5, Onward DEF PC
    <2>7. QED
      BY <2>2, <2>4, <2>6 DEF Same
  <1>8. cmd' = Overtaken([cmd EXCEPT ![m] = d], c.on, m)
    BY <1>1, <1>3
  <1> HIDE DEF d
  <1>9. Shape(d) /\ Known(d, secret)
    BY <1>2, <1>4, <1>6, <1>7 DEF Shape, Known, Scaling, InJob, Copying, Commands
  <1> DEFINE W == want[c.on]
             V == [want EXCEPT ![c.on][w] = 0][c.on]
  <1>10. V[w] = 0 /\ \A v \in Workload \ {w} : V[v] = W[v]
    BY <1>4, Typed DEF Counts
  <1> HIDE DEF V, W
  <1>11. ASSUME CountsOK(c, W) PROVE CountsOK(d, V)
    <2>1. PICK type \in {"deploy", "sts"} : Patching(c, W, type)
      BY <1>1, <1>11 DEF CountsOK
    <2>2. Type[w] = type /\ c.listed[w] # None
      BY <1>1, <2>1 DEF Patching
    <2>3. ASSUME NEW v \in Workload
          PROVE  /\ IF v \in d.todo THEN Type[v] = type /\ d.listed[v] # None /\ V[v] = d.listed[v] /\ d.prev[v] = None
                    ELSE Stopped(d, V, v)
                 /\ Type[v] \notin {"deploy", type} => d.listed[v] = None
                 /\ Type[v] \in {"deploy", type} /\ d.listed[v] = None => V[v] = None
      <3>1. /\ IF v \in c.todo THEN Type[v] = type /\ c.listed[v] # None /\ W[v] = c.listed[v] /\ c.prev[v] = None
               ELSE Stopped(c, W, v)
            /\ Type[v] \notin {"deploy", type} => c.listed[v] = None
            /\ Type[v] \in {"deploy", type} /\ c.listed[v] = None => W[v] = None
        BY <2>1 DEF Patching, Seen
      <3>2. CASE v = w
        BY <1>5, <1>6, <1>7, <1>10, <2>2, <3>2 DEF Stopped
      <3>3. CASE v # w
        <4>1. V[v] = W[v] /\ d.prev[v] = c.prev[v] /\ d.listed[v] = c.listed[v] /\ (v \in d.todo <=> v \in c.todo)
          BY <1>5, <1>6, <1>7, <1>10, <3>3
        <4>2. QED
          BY <3>1, <4>1 DEF Stopped
      <3>4. QED
        BY <3>2, <3>3
    <2>4. CASE ws # {}
      <3>1. Patching(d, V, type)
        BY <1>7, <2>3, <2>4 DEF Patching, Seen
      <3>2. QED
        BY <1>6, <1>7, <2>4, <3>1 DEF CountsOK, InJob
    <2>5. CASE ws = {}
      <3>1. Seen(d, V, {"deploy", type}) /\ \A v \in Workload : Stopped(d, V, v)
        BY <1>7, <2>3, <2>5 DEF Seen
      <3>2. CASE type = "deploy"
        <4>1. Seen(d, V, {"deploy"}) /\ \A v \in Workload : Type[v] # "deploy" => d.listed[v] = None
          BY <2>3, <3>1, <3>2 DEF Seen
        <4>2. QED
          BY <1>6, <1>7, <2>2, <2>5, <3>1, <3>2, <4>1 DEF CountsOK, InJob
      <3>3. CASE type = "sts"
        BY <1>6, <1>7, <2>2, <2>5, <3>1, <3>3 DEF CountsOK, InJob
      <3>4. QED
        BY <3>2, <3>3
    <2>6. QED
      BY <2>4, <2>5
  <1>12. RestoreOK(d, [want EXCEPT ![c.on][w] = 0], pods, volume, job)
    BY <1>2, <1>6, <1>7, <1>11 DEF RestoreOK, Undisturbed, OwnJob, InJob, V, W
  <1>13. QED
    BY <1>1, <1>4, <1>7, <1>8, <1>9, <1>12, PatchStep

\* A patch of the restart that fails is noted, and what is left is tried.
LEMMA RestartKeeps ==
  ASSUME Inv, NEW m \in Machine, NEW w \in Workload, Restart(m, w)
  PROVE  Inv'
  <1> DEFINE c  == cmd[m]
             ws == c.todo \ {w}
             pc == IF c.todo = {w} THEN "returned" ELSE "restart"
             d  == [c EXCEPT !.todo = ws, !.pc = pc]
             f  == [d EXCEPT !.lost = @ \cup {w}]
  <1>1. /\ c.pc = "restart" /\ w \in c.todo
        /\ \/ Patch(c.on, w, c.prev[w]) /\ cmd' = Overtaken([cmd EXCEPT ![m] = d], c.on, m)
           \/ Become(m, f) /\ UNCHANGED World
    BY DEF Restart, At
  <1>2. c \in Command /\ Shape(c) /\ Known(c, secret) /\ RestoreOK(c, want, pods, volume, job)
    BY AtWork
  <1>3. c.kind = "restore" /\ c.on \in Server /\ c.job = None
    BY <1>1, <1>2 DEF Shape, Scaling, InJob
  <1>4. ws \in SUBSET Workload /\ w \notin ws /\ pc \in {"returned", "restart"} /\ (pc = "returned" => ws = {})
        /\ \A v \in Workload \ {w} : v \in ws <=> v \in c.todo
    BY <1>1, <1>2 DEF Command
  <1> HIDE DEF ws, pc
  <1>5. /\ d \in Command /\ d.pc = pc /\ d.listed = c.listed /\ d.todo = ws /\ d.kind = c.kind /\ d.on = c.on
        /\ d.prev = c.prev /\ d.job = c.job /\ d.password = c.password /\ d.existed = c.existed
        /\ d.overtaken = c.overtaken /\ d.lost = c.lost
    <2>1. PICK e : e = [c EXCEPT !.todo = ws]
      OBVIOUS
    <2>2. /\ e \in Command /\ e.todo = ws /\ e.listed = c.listed /\ e.kind = c.kind /\ e.on = c.on
          /\ e.prev = c.prev /\ e.job = c.job /\ e.password = c.password /\ e.existed = c.existed
          /\ e.overtaken = c.overtaken /\ e.lost = c.lost
      BY <1>2, <1>4, <2>1, NewTodo
    <2>3. d = [e EXCEPT !.pc = pc]
      BY <2>1
    <2> HIDE DEF d
    <2>4. d \in Command /\ d.pc = pc /\ Same(e, d)
      BY <1>4, <2>2, <2>3, Onward DEF PC
    <2>5. QED
      BY <2>2, <2>4 DEF Same
  <1> HIDE DEF d
  <1>6. /\ f \in Command /\ f.pc = pc /\ f.lost = c.lost \cup {w} /\ f.todo = ws /\ f.kind = c.kind /\ f.on = c.on
        /\ f.listed = c.listed /\ f.prev = c.prev /\ f.job = c.job /\ f.password = c.password /\ f.existed = c.existed
        /\ f.overtaken = c.overtaken
    <2>1. c.lost \cup {w} \in SUBSET Workload
      BY <1>2 DEF Command
    <2>2. f = [d EXCEPT !.lost = c.lost \cup {w}]
      BY <1>5
    <2> HIDE DEF f
    <2>3. QED
      BY <1>5, <2>1, <2>2, NewLost
  <1> HIDE DEF f
  <1>7. ASSUME NEW e \in {d, f} PROVE Shape(e) /\ Known(e, secret) /\ e.job \in {c.job, None} /\ e.kind # "copy"
    <2>1. e.pc = pc /\ e.kind = "restore" /\ e.on = c.on /\ e.job = None /\ e.existed = c.existed /\ e.password = c.password
      BY <1>3, <1>5, <1>6
    <2>2. QED
      BY <1>2, <1>3, <1>4, <2>1 DEF Shape, Known, Scaling, InJob, Copying, Commands
  <1>8. CASE Patch(c.on, w, c.prev[w]) /\ cmd' = Overtaken([cmd EXCEPT ![m] = d], c.on, m)
    <2> DEFINE k == c.prev[w]
               W == want[c.on]
               V == [want EXCEPT ![c.on][w] = k][c.on]
    <2>1. k \in Nat \cup {None}
      BY <1>2 DEF Command
    <2>2. V \in Counts /\ V[w] = k /\ \A v \in Workload \ {w} : V[v] = W[v]
      BY <1>3, <2>1, Typed DEF Counts
    <2> HIDE DEF V, W
    <2>3. ASSUME CountsOK(c, W) PROVE CountsOK(d, V)
      <3>1. \A v \in Workload : c.prev[v] = c.listed[v] /\ IF v \in c.todo THEN W[v] = 0 ELSE Back(c, W, v)
        BY <1>1, <2>3 DEF CountsOK
      <3>2. ASSUME NEW v \in Workload PROVE IF v \in ws THEN V[v] = 0 ELSE Back(d, V, v)
        <4>1. CASE v = w
          BY <1>4, <1>5, <2>2, <3>1, <4>1 DEF Back
        <4>2. CASE v # w
          BY <1>4, <1>5, <2>2, <3>1, <4>2 DEF Back
        <4>3. QED
          BY <4>1, <4>2
      <3>3. QED
        BY <1>4, <1>5, <3>1, <3>2 DEF CountsOK, InJob
    <2>4. RestoreOK(d, [want EXCEPT ![c.on][w] = k], pods, volume, job)
      BY <1>2, <1>4, <1>5, <2>3 DEF RestoreOK, Undisturbed, OwnJob, InJob, V, W
    <2>5. QED
      BY <1>3, <1>5, <1>7, <1>8, <2>1, <2>4, PatchStep
  <1>9. CASE Become(m, f) /\ UNCHANGED World
    <2> DEFINE W == want[c.on]
    <2> HIDE DEF W
    <2>1. ASSUME CountsOK(c, W) PROVE CountsOK(f, W)
      <3>1. \A v \in Workload : c.prev[v] = c.listed[v] /\ IF v \in c.todo THEN W[v] = 0 ELSE Back(c, W, v)
        BY <1>1, <2>1 DEF CountsOK
      <3>2. ASSUME NEW v \in Workload PROVE IF v \in ws THEN W[v] = 0 ELSE Back(f, W, v)
        <4>1. CASE v = w
          BY <1>1, <1>4, <1>6, <3>1, <4>1 DEF Back
        <4>2. CASE v # w
          BY <1>4, <1>6, <3>1, <4>2 DEF Back
        <4>3. QED
          BY <4>1, <4>2
      <3>3. QED
        BY <1>4, <1>6, <3>1, <3>2 DEF CountsOK, InJob
    <2>2. RestoreOK(f, want, pods, volume, job)
      <3>1. f.pc \notin {"create"} \cup InJob
        BY <1>4, <1>6 DEF InJob
      <3>2. CountsOK(c, want[c.on]) => CountsOK(f, want[c.on])
        BY <2>1 DEF W
      <3>3. QED
        BY <1>2, <1>6, <3>1, <3>2, Later
    <2>3. QED
      BY <1>6, <1>7, <1>9, <2>2, LookStep
  <1>10. QED
    BY <1>1, <1>8, <1>9

-----------------------------------------------------------------------------
\* A copy writes x to its destination and goes on as c: the restores there are
\* overtaken, and who watches that volume sees x.
LEMMA ArrivesStep ==
  ASSUME Inv, NEW m \in Machine, NEW x \in Content, NEW c \in Command, Arrives(m, x, c),
         cmd[m].to \in Server, c.job = None, Shape(c), Known(c, secret), c.kind # "restore",
         c.kind = "copy" => c.on \in Server \ {cmd[m].to} /\ CopyOK(c, volume[c.on]),
         fresh' \in 1..(MaxFresh + 1), kills' \in 0..MaxKills
  PROVE  Inv'
  <1> DEFINE s == cmd[m].to
             touched == SpoiltCommands(cmd, s, x)
             over == Overtaken(touched, s, m)
  <1>1. /\ volume' = [volume EXCEPT ![s] = x] /\ job' = SpoiltJobs(s, None) /\ cmd' = [over EXCEPT ![m] = c]
        /\ UNCHANGED <<want, pods, repo, secret, copied, others, plan>>
    BY DEF Arrives, app, store
  <1>2. volume' \in [Server -> Content] /\ \A r \in Server \ {s} : volume'[r] = volume[r]
    BY <1>1, Typed
  <1>3. /\ job' \in [Slot -> Job \cup {None}]
        /\ \A u \in Slot : Alike(job[u], job'[u]) /\ (u \notin Running(s) => job'[u] = job[u])
    BY <1>1, Typed, SpoiltJobsOK
  <1>4. /\ touched \in [Machine -> Command]
        /\ \A n \in Machine : /\ Touched(cmd[n], touched[n])
                              /\ cmd[n].pc \in Streamed /\ cmd[n].on = s => x \in touched[n].held
    BY Typed, SpoiltCommandsOK
  <1> HIDE DEF touched
  <1>5. /\ over \in [Machine -> Command]
        /\ \A n \in Machine : /\ Touched(touched[n], over[n]) /\ over[n].held = touched[n].held
                              /\ n # m /\ touched[n].kind = "restore" /\ touched[n].on = s => over[n].overtaken
    BY <1>4, OvertakenOK
  <1> HIDE DEF over
  <1>6. cmd' \in [Machine -> Command] /\ cmd'[m] = c /\ \A n \in Machine \ {m} : cmd'[n] = over[n]
    BY <1>1, <1>5
  <1>7. ASSUME NEW n \in Machine \ {m}
        PROVE  /\ Touched(cmd[n], cmd'[n])
               /\ cmd[n].kind = "restore" /\ cmd[n].on = s => cmd'[n].overtaken
               /\ cmd[n].pc \in Streamed /\ cmd[n].on = s => x \in cmd'[n].held
    <2>1. Touched(cmd[n], cmd'[n])
      BY <1>4, <1>5, <1>6, TouchedTwice
    <2>2. touched[n].kind = cmd[n].kind /\ touched[n].on = cmd[n].on
      BY <1>4 DEF Touched
    <2>3. QED
      BY <1>4, <1>5, <1>6, <2>1, <2>2
  <1>8. TypeInv' /\ SnapshotsReadable'
    BY <1>1, <1>2, <1>3, <1>6 DEF Inv, TypeInv, SnapshotsReadable
  <1>9. ASSUME NEW n \in Machine, cmd[n].job # None
        PROVE  job'[cmd[n].job] # None /\ (~job[cmd[n].job].doomed => ~job'[cmd[n].job].doomed)
    <2>1. job[cmd[n].job] # None /\ cmd[n].job \in Slot
      BY <1>9, Typed DEF Inv, JobsOK, Command
    <2>2. QED
      BY <1>3, <2>1 DEF Alike
  <1>10. JobsOK(cmd', job')
    <2>1. JobsOK(cmd, job)
      BY DEF Inv
    <2>2. cmd'[m].job = None /\ \A n \in Machine \ {m} : cmd'[n].job = cmd[n].job
      BY <1>6, <1>7 DEF Touched
    <2>3. QED
      BY <1>9, <2>1, <2>2 DEF JobsOK
  <1>11. MachineOK(m)'
    <2>1. c.kind = "copy" => volume'[c.on] = volume[c.on]
      BY <1>2
    <2>2. QED
      BY <1>1, <1>6, <2>1 DEF MachineOK, RestoreOK
  <1>12. ASSUME NEW n \in Machine \ {m}
         PROVE  /\ Touched(cmd[n], cmd'[n]) /\ Known(cmd[n], secret')
                /\ Spared(cmd[n], cmd'[n]) /\ Witnessed(cmd[n], cmd'[n])
    <2>1. Known(cmd[n], secret')
      BY <1>1 DEF Inv
    <2>2. Spared(cmd[n], cmd'[n])
      <3>1. CASE cmd[n].kind = "restore" /\ cmd[n].on = s
        BY <1>7, <3>1 DEF Spared
      <3>2. CASE cmd[n].on # s
        <4>1. ASSUME NEW u \in Slot
              PROVE  \/ job'[u] = job[u]
                     \/ job[u] # None /\ job[u].on = s /\ (job'[u] = None \/ job'[u].on = s)
          BY <1>3 DEF Running, Alike
        <4>2. QED
          BY <1>1, <1>2, <3>2, <4>1, Elsewhere
      <3>3. QED
        BY <3>1, <3>2 DEF Spared
    <2>3. Witnessed(cmd[n], cmd'[n])
      BY <1>1, <1>7, SeesWrite
    <2>4. QED
      BY <1>7, <2>1, <2>2, <2>3
  <1>13. QED
    BY <1>8, <1>10, <1>11, <1>12, MachineStep

\* The stream begins with what the source holds.
LEMMA ClearKeeps ==
  ASSUME Inv, NEW m \in Machine, Clear(m)
  PROVE  Inv'
  <1> DEFINE c == cmd[m]
             x == volume[c.on]
             d == [c EXCEPT !.pc = "stream", !.content = x, !.held = {x}]
  <1>1. c.pc = "clear" /\ Arrives(m, 0, d) /\ UNCHANGED <<fresh, kills>>
    BY DEF Clear, At
  <1>2. c \in Command /\ Shape(c) /\ Known(c, secret)
    BY AtWork
  <1>3. c.kind = "copy" /\ c.on \in Server /\ c.to \in Server \ {c.on} /\ c.job = None
    BY <1>1, <1>2 DEF Shape, Copying, InJob
  <1>4. x \in Content /\ 0 \in Content
    BY <1>3, Typed, Some
  <1> HIDE DEF x
  <1>5. /\ d \in Command /\ d.pc = "stream" /\ d.kind = c.kind /\ d.on = c.on /\ d.to = c.to
        /\ d.job = c.job /\ d.existed = c.existed /\ d.password = c.password /\ d.ok = c.ok /\ d.held = {x}
    <2>1. PICK a : a = [c EXCEPT !.pc = "stream"]
      OBVIOUS
    <2>2. a \in Command /\ a.pc = "stream" /\ Same(c, a)
      BY <1>2, <2>1, Onward DEF PC
    <2>3. PICK b : b = [a EXCEPT !.content = x]
      OBVIOUS
    <2>4. /\ b \in Command /\ b.pc = a.pc /\ b.kind = a.kind /\ b.on = a.on /\ b.to = a.to
          /\ b.job = a.job /\ b.existed = a.existed /\ b.password = a.password /\ b.ok = a.ok
      BY <1>4, <2>2, <2>3 DEF Command
    <2>5. ASSUME NEW h \in SUBSET Content, NEW g, g = [b EXCEPT !.held = h]
          PROVE  /\ g \in Command /\ g.pc = b.pc /\ g.kind = b.kind /\ g.on = b.on /\ g.to = b.to
                 /\ g.job = b.job /\ g.existed = b.existed /\ g.password = b.password /\ g.ok = b.ok /\ g.held = h
      BY <2>4, <2>5 DEF Command
    <2>6. {x} \in SUBSET Content /\ d = [b EXCEPT !.held = {x}]
      BY <1>4, <2>1, <2>3
    <2> HIDE DEF d
    <2>7. /\ d \in Command /\ d.pc = b.pc /\ d.kind = b.kind /\ d.on = b.on /\ d.to = b.to
          /\ d.job = b.job /\ d.existed = b.existed /\ d.password = b.password /\ d.ok = b.ok /\ d.held = {x}
      BY <2>5, <2>6
    <2>8. QED
      BY <2>2, <2>4, <2>7 DEF Same
  <1> HIDE DEF d
  <1>6. Shape(d) /\ Known(d, secret)
    BY <1>1, <1>2, <1>3, <1>5 DEF Shape, Known, Scaling, InJob, Copying, Commands
  <1>7. CopyOK(d, volume[d.on])
    BY <1>5 DEF CopyOK, x
  <1>8. fresh' \in 1..(MaxFresh + 1) /\ kills' \in 0..MaxKills
    BY <1>1, Typed
  <1>9. QED
    BY <1>1, <1>3, <1>4, <1>5, <1>6, <1>7, <1>8, ArrivesStep

\* The stream ends, well or not.
LEMMA StreamEnds ==
  ASSUME Inv, NEW m \in Machine, cmd[m].pc = "stream", NEW x \in Content, NEW pc \in {"sumSource", "returned"},
         Arrives(m, x, [cmd[m] EXCEPT !.pc = pc]), fresh' \in 1..(MaxFresh + 1), UNCHANGED kills
  PROVE  Inv'
  <1> DEFINE c == cmd[m]
             d == [c EXCEPT !.pc = pc]
  <1>1. c \in Command /\ Shape(c) /\ Known(c, secret) /\ (c.kind = "copy" => CopyOK(c, volume[c.on])) /\ Arrives(m, x, d)
    BY AtWork
  <1>2. d \in Command /\ d.pc = pc /\ Same(c, d)
    BY <1>1, Onward DEF PC
  <1> HIDE DEF d
  <1>3. c.kind = "copy" /\ c.on \in Server /\ c.to \in Server \ {c.on} /\ c.job = None
    BY <1>1 DEF Shape, Copying, InJob
  <1>4. Shape(d) /\ Known(d, secret)
    BY <1>1, <1>2, <1>3 DEF Shape, Known, Same, Scaling, InJob, Copying, Commands
  <1>5. CopyOK(d, volume[d.on]) /\ d.kind = "copy" /\ d.on = c.on /\ d.job = None
    BY <1>1, <1>2, <1>3 DEF CopyOK, Same, Streamed
  <1>6. kills' \in 0..MaxKills
    BY Typed
  <1>7. QED
    BY <1>1, <1>2, <1>3, <1>4, <1>5, <1>6, ArrivesStep

LEMMA ReceiveKeeps ==
  ASSUME Inv, NEW m \in Machine, Receive(m)
  PROVE  Inv'
  <1> DEFINE x == IF cmd[m].whole THEN cmd[m].content ELSE fresh
  <1>1. /\ cmd[m].pc = "stream" /\ Arrives(m, x, [cmd[m] EXCEPT !.pc = "sumSource"]) /\ UNCHANGED kills
        /\ IF cmd[m].whole THEN UNCHANGED fresh ELSE Fresh
    BY DEF Receive, At
  <1>2. x \in Content /\ fresh' \in 1..(MaxFresh + 1)
    <2>1. CASE cmd[m].whole
      BY <1>1, <2>1, Typed DEF Command
    <2>2. CASE ~cmd[m].whole
      BY <1>1, <2>2, FreshOK
    <2>3. QED
      BY <2>1, <2>2
  <1> HIDE DEF x
  <1>3. QED
    BY <1>1, <1>2, StreamEnds

LEMMA StreamFailsKeeps ==
  ASSUME Inv, NEW m \in Machine, StreamFails(m)
  PROVE  Inv'
  BY FreshOK, StreamEnds DEF StreamFails, At

LEMMA CutKeeps ==
  ASSUME Inv, NEW m \in Machine, Cut(m)
  PROVE  Inv'
  <1>1. cmd[m].pc = "stream" /\ Fresh /\ kills < MaxKills /\ kills' = kills + 1 /\ Arrives(m, fresh, Idle)
    BY DEF Cut, At
  <1>2. kills' \in 0..MaxKills
    <2>1. kills \in 0..MaxKills /\ MaxKills \in Nat
      BY Typed, Some
    <2>2. QED
      BY <1>1, <2>1
  <1>3. fresh \in Content /\ fresh' \in 1..(MaxFresh + 1)
    BY <1>1, FreshOK
  <1>4. cmd[m].to \in Server
    BY <1>1, AtWork DEF Shape, Copying
  <1>5. Idle.kind \notin {"copy", "restore"}
    BY IdleOK, NoneAssumption DEF Commands
  <1>6. QED
    BY <1>1, <1>2, <1>3, <1>4, <1>5, IdleOK, IdleFits, ArrivesStep

-----------------------------------------------------------------------------
LEMMA InitInv ==
  ASSUME Init
  PROVE  Inv
  <1>1. PICK p \in Plans :
          /\ want = [s \in Server |-> IF s \in p.up THEN Replicas[s] ELSE Nothing]
          /\ plan = p.runs /\ others = p.others
          /\ secret = IF p.backup THEN 0 ELSE None
          /\ copied = [s \in Server |-> IF s \in p.up THEN secret ELSE None]
          /\ repo = [s \in Server |-> [password |-> copied[s], snapshots |-> {copied[s]} \ {None}]]
    BY DEF Init
  <1>2. /\ pods = [s \in Server |-> [w \in Workload |-> Kept(want, s, w)]]
        /\ volume = [s \in Server |-> 0] /\ job = [t \in Slot |-> None] /\ cmd = [m \in Machine |-> Idle]
        /\ fresh = 1 /\ kills = 0
    BY DEF Init
  <1>3. plan \in [Machine -> Seq(Commands \X Server)] /\ others \in Nat
    <2>1. p \in [up : SUBSET Server, backup : BOOLEAN, runs : [Machine -> Seq(Commands \X Server)], others : Nat]
      BY VolumesAssumption
    <2>2. QED
      BY <1>1, <2>1
  <1>4. want \in [Server -> Counts]
    <2>1. Nothing \in Counts /\ \A s \in Server : Replicas[s] \in Counts
      BY VolumesAssumption, IdleOK DEF Counts
    <2>2. QED
      BY <1>1, <2>1
  <1>5. pods \in [Server -> [Workload -> Nat]]
    <2>1. \A s \in Server, w \in Workload : Kept(want, s, w) \in Nat
      BY <1>4 DEF Counts, Kept
    <2>2. QED
      BY <1>2, <2>1
  <1>6. secret \in Content \cup {None} /\ copied \in [Server -> Content \cup {None}]
        /\ \A s \in Server : copied[s] \in {None, secret}
    BY <1>1, Some
  <1>7. repo \in [Server -> Repo] /\ \A s \in Server : repo[s].password = copied[s]
    <2>1. \A s \in Server : [password |-> copied[s], snapshots |-> {copied[s]} \ {None}] \in Repo
      BY <1>6 DEF Repo
    <2>2. QED
      BY <1>1, <2>1
  <1>8. /\ volume \in [Server -> Content] /\ job \in [Slot -> Job \cup {None}] /\ cmd \in [Machine -> Command]
        /\ fresh \in 1..(MaxFresh + 1) /\ kills \in 0..MaxKills
    BY <1>2, Some, IdleOK
  <1>9. TypeInv
    BY <1>3, <1>4, <1>5, <1>6, <1>7, <1>8 DEF TypeInv
  <1>10. JobsOK(cmd, job)
    BY <1>2, IdleOK DEF JobsOK
  <1>11. SnapshotsReadable
    BY <1>6, <1>7 DEF SnapshotsReadable
  <1>12. \A m \in Machine : MachineOK(m)
    BY <1>2, IdleFits DEF MachineOK
  <1>13. QED
    BY <1>9, <1>10, <1>11, <1>12 DEF Inv, MachineOK

LEMMA StepKeeps ==
  ASSUME Inv, NEW m \in Machine, Step(m)
  PROVE  Inv'
  <1>1. CASE Start(m) \/ Return(m) \/ Abort(m) \/ GetTarget(m) \/ PutTarget(m)
    BY <1>1, StartKeeps, ReturnKeeps, AbortKeeps, GetTargetKeeps, PutTargetKeeps
  <1>2. CASE CreateJob(m) \/ CreateFails(m) \/ Poll(m) \/ DeleteJob(m)
    BY <1>2, CreateJobKeeps, CreateFailsKeeps, PollKeeps, DeleteJobKeeps
  <1>3. CASE ListMounters(m) \/ ScaleFails(m) \/ NoPods(m) \/ TooLong(m)
    BY <1>3, ListMountersKeeps, ScaleFailsKeeps, NoPodsKeeps, TooLongKeeps
  <1>4. CASE \E w \in Workload : Scale(m, w) \/ Restart(m, w)
    BY <1>4, ScaleKeeps, RestartKeeps
  <1>5. CASE CheckSource(m) \/ CheckDest(m) \/ Clear(m) \/ Receive(m) \/ StreamFails(m) \/ SumSource(m) \/ SumDest(m)
    BY <1>5, CheckSourceKeeps, CheckDestKeeps, ClearKeeps, ReceiveKeeps, StreamFailsKeeps, SumSourceKeeps, SumDestKeeps
  <1>6. QED
    BY <1>1, <1>2, <1>3, <1>4, <1>5 DEF Step

LEMMA NextInv ==
  ASSUME Inv, [Next]_vars
  PROVE  Inv'
  <1>1. ASSUME NEW m \in Machine, Step(m) \/ Kill(m) \/ Cut(m) PROVE Inv'
    BY <1>1, StepKeeps, KillKeeps, CutKeeps
  <1>2. ASSUME NEW s \in Server, Up(s) \/ Down(s) \/ Write(s) \/ Fire(s) PROVE Inv'
    BY <1>2, UpKeeps, DownKeeps, WriteKeeps, FireKeeps
  <1>3. ASSUME NEW s \in Server, NEW w \in Workload, AddPod(s, w) \/ RunScheduled(s, w) \/ EndPod(s, w) PROVE Inv'
    BY <1>3, AddPodKeeps, RunScheduledKeeps, EndPodKeeps
  <1>4. ASSUME NEW t \in Slot, RunJob(t) \/ EndJob(t) \/ StopJob(t) PROVE Inv'
    BY <1>4, RunJobKeeps, EndJobKeeps, StopJobKeeps
  <1>5. CASE UNCHANGED vars
    BY <1>5 DEF vars, Inv, TypeInv, SnapshotsReadable
  <1>6. QED
    BY <1>1, <1>2, <1>3, <1>4, <1>5 DEF Next

LEMMA AlwaysInv == Spec => []Inv
  <1>1. Init => Inv
    BY InitInv
  <1>2. Inv /\ [Next]_vars => Inv'
    BY NextInv
  <1>3. QED
    BY <1>1, <1>2, PTL DEF Spec

-----------------------------------------------------------------------------
\* Type correctness; and a restore finds the Job it waits for or deletes
\* (runBackupJob).
THEOREM VolumesTypeSafe == Spec => []TypeOK
  <1>1. Inv => TypeOK
    <2> SUFFICES ASSUME Inv PROVE TypeOK
      OBVIOUS
    <2>1. \A m \in Machine : cmd[m].pc \in {"poll", "delete"} => cmd[m].job # None /\ job[cmd[m].job] # None
      BY DEF Inv, JobsOK, Shape, InJob
    <2>2. \A s \in Server : repo[s].password \in Content \cup {None} /\ repo[s].snapshots \subseteq Content
      BY Typed DEF Repo
    <2>3. QED
      BY <2>1, <2>2, Typed DEF TypeOK, Counts
  <1>2. QED
    BY <1>1, AlwaysInv, PTL

\* Every repository opens with the backup target's password, however many
\* commands configure the target at once, are killed or fail (ensureBackupTarget).
THEOREM SnapshotsAlwaysReadable == Spec => []SnapshotsReadable
  <1>1. Inv => SnapshotsReadable
    BY DEF Inv
  <1>2. QED
    BY <1>1, AlwaysInv, PTL

\* A restore that has seen its Job succeed finds its snapshot in the volume,
\* whatever pods of services that it stops, scheduled backups and earlier
\* commands have left behind; not one that somebody has overtaken, nor one that
\* a scheduled service has crossed, which scaleMounters does not stop.
THEOREM RestoresExactly == Spec => []RestoreExact
  <1>1. Inv => RestoreExact
    <2> SUFFICES ASSUME Inv, NEW m \in Machine, cmd[m].kind = "restore", cmd[m].pc = "delete", cmd[m].ok,
                        ~cmd[m].overtaken, ~cmd[m].crossed
                 PROVE  volume[cmd[m].on] = cmd[m].content
      BY DEF RestoreExact, At
    <2>1. OwnJob(cmd[m], volume[cmd[m].on], job[cmd[m].job])
      BY AtWork DEF RestoreOK
    <2>2. QED
      BY <2>1 DEF OwnJob, InJob
  <1>2. QED
    BY <1>1, AlwaysInv, PTL

\* A restore that returns, on any path, leaves every count it found as it was
\* or, of the workloads whose counts a failed patch or listing has lost or whose
\* own restart failed, at zero.
THEOREM RestoresAsFound == Spec => []RestartsAsFound
  <1>1. Inv => RestartsAsFound
    <2> SUFFICES ASSUME Inv, NEW m \in Machine, cmd[m].kind = "restore", cmd[m].pc = "returned", ~cmd[m].overtaken,
                        NEW w \in Workload, cmd[m].listed[w] # None
                 PROVE  \/ want[cmd[m].on][w] = cmd[m].listed[w]
                        \/ w \in cmd[m].lost /\ want[cmd[m].on][w] = 0
      BY DEF RestartsAsFound, At
    <2>1. CountsOK(cmd[m], want[cmd[m].on])
      BY AtWork DEF RestoreOK
    <2>2. QED
      BY <2>1 DEF CountsOK, Back
  <1>2. QED
    BY <1>1, AlwaysInv, PTL

-----------------------------------------------------------------------------
\* What others do to a command is not its success.
LEMMA OthersStep ==
  ASSUME Inv, NEW m \in Machine, NEW n \in Machine, n # m, Step(n) \/ Kill(n) \/ Cut(n)
  PROVE  cmd'[m].ok = cmd[m].ok
  <1>1. cmd \in [Machine -> Command]
    BY Typed
  <1>2. ASSUME NEW c, Become(n, c) PROVE cmd'[m].ok = cmd[m].ok
    BY <1>1, <1>2 DEF Become
  <1>3. ASSUME NEW w \in Workload, Scale(n, w) \/ Restart(n, w) PROVE cmd'[m].ok = cmd[m].ok
    <2>1. ASSUME NEW d, NEW s, cmd' = Overtaken([cmd EXCEPT ![n] = d], s, n) PROVE cmd'[m].ok = cmd[m].ok
      <3>1. [cmd EXCEPT ![n] = d][m] = cmd[m]
        BY <1>1
      <3>2. cmd'[m] \in {cmd[m], [cmd[m] EXCEPT !.overtaken = TRUE]}
        BY <2>1, <3>1 DEF Overtaken
      <3>3. QED
        BY <1>1, <3>2 DEF Command
    <2>2. ASSUME Scale(n, w) PROVE cmd'[m].ok = cmd[m].ok
      BY <2>1, <2>2 DEF Scale
    <2>3. QED
      BY <1>2, <1>3, <2>1, <2>2 DEF Restart
  <1>4. ASSUME NEW x, NEW c, Arrives(n, x, c) PROVE cmd'[m].ok = cmd[m].ok
    <2>1. PICK s : cmd' = [Overtaken(SpoiltCommands(cmd, s, x), s, n) EXCEPT ![n] = c]
      BY <1>4 DEF Arrives
    <2>2. cmd'[m] = Overtaken(SpoiltCommands(cmd, s, x), s, n)[m]
      BY <2>1 DEF Overtaken
    <2>3. PICK e : e = SpoiltCommands(cmd, s, x)[m]
      OBVIOUS
    <2>4. e.ok = cmd[m].ok /\ "ok" \in DOMAIN e
      BY <1>1, <2>3 DEF SpoiltCommands, Command
    <2>5. PICK d : d = [e EXCEPT !.overtaken = TRUE]
      OBVIOUS
    <2>6. d.ok = e.ok
      BY <2>4, <2>5
    <2>7. cmd'[m] \in {e, d}
      BY <2>2, <2>3, <2>5 DEF Overtaken
    <2>8. QED
      BY <2>4, <2>6, <2>7
  <1>5. CASE Kill(n) \/ Cut(n)
    BY <1>2, <1>4, <1>5 DEF Kill, Cut
  <1>6. CASE Start(n) \/ Return(n) \/ Abort(n) \/ GetTarget(n) \/ PutTarget(n)
    BY <1>2, <1>6 DEF Start, Begin, Return, Abort, Fails, GetTarget, PutTarget
  <1>7. CASE CreateJob(n) \/ CreateFails(n) \/ Poll(n) \/ DeleteJob(n)
    BY <1>2, <1>7 DEF CreateJob, CreateFails, Poll, DeleteJob
  <1>8. CASE ListMounters(n) \/ ScaleFails(n) \/ NoPods(n) \/ TooLong(n) \/ CheckSource(n) \/ CheckDest(n)
    BY <1>2, <1>8 DEF ListMounters, ScaleFails, NoPods, TooLong, CheckSource, CheckDest
  <1>9. CASE Clear(n) \/ Receive(n) \/ StreamFails(n) \/ SumSource(n) \/ SumDest(n)
    BY <1>2, <1>4, <1>9 DEF Clear, Receive, StreamFails, SumSource, SumDest
  <1>10. QED
    BY <1>3, <1>5, <1>6, <1>7, <1>8, <1>9 DEF Step

\* Neither is what pods, Jobs, an up or a down do to it.
LEMMA WorldStep ==
  ASSUME Inv, NEW m \in Machine, Next, \A n \in Machine : ~(Step(n) \/ Kill(n) \/ Cut(n))
  PROVE  cmd'[m].ok = cmd[m].ok
  <1>1. ASSUME NEW s, NEW x, cmd' = SpoiltCommands(cmd, s, x) PROVE cmd'[m].ok = cmd[m].ok
    <2>1. cmd \in [Machine -> Command]
      BY Typed
    <2>2. PICK e : e = SpoiltCommands(cmd, s, x)[m]
      OBVIOUS
    <2>3. e.ok = cmd[m].ok
      BY <2>1, <2>2 DEF SpoiltCommands, Command
    <2>4. QED
      BY <1>1, <2>2, <2>3
  <1>2. ASSUME NEW s, NEW n, cmd' = Overtaken(cmd, s, n) PROVE cmd'[m].ok = cmd[m].ok
    BY <1>2, Typed DEF Overtaken, Command
  <1>3. ASSUME NEW t \in Slot, RunJob(t) PROVE cmd'[m].ok = cmd[m].ok
    <2>1. CASE job[t].kind # "restore"
      BY <1>3, <2>1 DEF RunJob
    <2>2. CASE job[t].kind = "restore"
      <3>1. Fresh /\ cmd' = [n \in Machine |-> IF cmd[n].job = t THEN cmd[n]
                              ELSE Overtaken(SpoiltCommands(cmd, job[t].on, fresh), job[t].on, None)[n]]
        BY <1>3, <2>2 DEF RunJob
      <3>2. PICK cs : cs = SpoiltCommands(cmd, job[t].on, fresh)
        OBVIOUS
      <3>3. cs \in [Machine -> Command] /\ cs[m].ok = cmd[m].ok
        <4>1. fresh \in Content /\ cmd \in [Machine -> Command]
          BY <3>1, FreshOK, Typed
        <4>2. cs \in [Machine -> Command] /\ Touched(cmd[m], cs[m])
          BY <3>2, <4>1, SpoiltCommandsOK
        <4>3. QED
          BY <4>2 DEF Touched
      <3>4. Overtaken(cs, job[t].on, None)[m].ok = cs[m].ok
        BY <3>3, OvertakenOK DEF Touched
      <3>5. QED
        BY <3>1, <3>2, <3>3, <3>4
    <2>3. QED
      BY <2>1, <2>2
  <1>4. ASSUME NEW t \in Slot, EndJob(t) \/ StopJob(t) PROVE cmd'[m].ok = cmd[m].ok
    <2>1. CASE StopJob(t)
      BY <2>1 DEF StopJob
    <2>2. CASE EndJob(t)
      <3>1. cmd' = cmd \/ cmd' = SpoiltCommands(cmd, job[t].on, Left(t))
        BY <2>2 DEF EndJob, Left
      <3>2. QED
        BY <1>1, <3>1
    <2>3. QED
      BY <1>4, <2>1, <2>2
  <1>5. ASSUME NEW s \in Server, Up(s) \/ Down(s) \/ Write(s) \/ Fire(s) PROVE cmd'[m].ok = cmd[m].ok
    BY <1>1, <1>2, <1>5 DEF Up, Down, Write, Fire
  <1>6. ASSUME NEW s \in Server, NEW w \in Workload, AddPod(s, w) \/ RunScheduled(s, w) \/ EndPod(s, w)
        PROVE  cmd'[m].ok = cmd[m].ok
    <2>1. ASSUME RunScheduled(s, w) PROVE cmd'[m].ok = cmd[m].ok
      <3>1. cmd'[m] \in {cmd[m], [cmd[m] EXCEPT !.crossed = TRUE]}
        BY <2>1 DEF RunScheduled
      <3>2. QED
        BY <3>1, Typed DEF Command
    <2>2. QED
      BY <1>6, <2>1 DEF AddPod, EndPod
  <1>7. QED
    BY <1>3, <1>4, <1>5, <1>6 DEF Next

\* A copy reports success only if its destination holds what the source has
\* held since the stream began: the checksum it compares with is of that.
THEOREM CopiesFaithfully == Spec => CopyFaithful
  <1> DEFINE A == \A m \in Machine : At(m, "sumDest") /\ cmd'[m].ok => volume[cmd[m].to] \in cmd[m].held
  <1>1. Inv /\ [Next]_vars => [A]_vars
    <2> SUFFICES ASSUME Inv, Next, NEW m \in Machine, cmd[m].pc = "sumDest", cmd'[m].ok
                 PROVE  volume[cmd[m].to] \in cmd[m].held
      BY DEF At
    <2>1. cmd[m] \in Command /\ Shape(cmd[m]) /\ (cmd[m].kind = "copy" => CopyOK(cmd[m], volume[cmd[m].on]))
      BY AtWork
    <2>2. ~cmd[m].ok /\ cmd[m].content \in cmd[m].held
      BY <2>1 DEF Shape, Copying, CopyOK
    <2>3. Step(m) \/ Kill(m) \/ Cut(m)
      BY <2>2, OthersStep, WorldStep
    <2>4. SumDest(m)
      <3>1. ASSUME Kill(m) \/ Return(m) PROVE FALSE
        <4>1. cmd'[m] = Idle
          BY <2>1, <3>1, Typed DEF Kill, Return, Become
        <4>2. QED
          BY <4>1, IdleOK
      <3>2. ~Abort(m)
        <4>1. ASSUME Abort(m) PROVE cmd'[m].ok = cmd[m].ok
          <5>1. cmd'[m] = [cmd[m] EXCEPT !.pc = "returned"]
            BY <4>1, Typed DEF Abort, Fails, Become
          <5>2. QED
            BY <2>1, <5>1 DEF Command
        <4>2. QED
          BY <2>2, <4>1
      <3>3. ~Start(m) /\ ~GetTarget(m) /\ ~PutTarget(m) /\ ~Cut(m)
        BY DEF Start, Begin, GetTarget, PutTarget, Cut, At
      <3>4. ~CreateJob(m) /\ ~CreateFails(m) /\ ~Poll(m) /\ ~DeleteJob(m)
        BY DEF CreateJob, CreateFails, Poll, DeleteJob, At
      <3>5. /\ ~ListMounters(m) /\ ~ScaleFails(m) /\ ~NoPods(m) /\ ~TooLong(m)
            /\ \A w \in Workload : ~Scale(m, w) /\ ~Restart(m, w)
        BY DEF ListMounters, ScaleFails, NoPods, TooLong, Scale, Restart, At
      <3>6. ~CheckSource(m) /\ ~CheckDest(m) /\ ~Clear(m) /\ ~Receive(m) /\ ~StreamFails(m) /\ ~SumSource(m)
        BY DEF CheckSource, CheckDest, Clear, Receive, StreamFails, SumSource, At
      <3>7. QED
        BY <2>3, <3>1, <3>2, <3>3, <3>4, <3>5, <3>6 DEF Step
    <2>5. volume[cmd[m].to] = cmd[m].content
      <3>1. cmd'[m] = [cmd[m] EXCEPT !.pc = "returned", !.ok = volume[cmd[m].to] = cmd[m].content]
        BY <2>4, Typed DEF SumDest, Become
      <3>2. PICK b : b = (volume[cmd[m].to] = cmd[m].content)
        OBVIOUS
      <3>3. cmd'[m].ok = b
        BY <2>1, <3>1, <3>2 DEF Command
      <3>4. QED
        BY <3>2, <3>3
    <2>6. QED
      BY <2>2, <2>5
  <1>2. QED
    BY <1>1, AlwaysInv, PTL DEF Spec, CopyFaithful
=============================================================================

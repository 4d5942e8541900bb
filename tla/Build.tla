-------------------------------- MODULE Build --------------------------------
(***************************************************************************)
(* From sources to running images: internal/build, cmd/jekyo/build.go and  *)
(* internal/registry, call by call, for one app that several machines      *)
(* deploy to one server, each from its own checkout.                       *)
(*                                                                         *)
(* A machine's sources are the versions of their parts: files, and what    *)
(* the manifest itself holds (an inline Dockerfile, arguments, secrets).   *)
(* An image is the versions docker built it from, a tag the versions that  *)
(* were hashed, in place of 12 digits of their SHA-256.                    *)
(***************************************************************************)
EXTENDS Naturals, Sequences, FiniteSets

CONSTANTS
  Machine,
  Part,
  Builds,        \* service or sidecar -> its build: block
  Order,         \* their names in order, a sequence
  Version,       \* bound: versions of a part, a set of numbers
  MaxEdits,      \* bound: edits of the sources
  MaxRuns,       \* bound: commands that are run
  None

Unit == DOMAIN Builds

\* files: what lies under the context directory; unhashed: what the hash leaves
\* out (.git, and what the lines of .dockerignore match that loadDockerignore
\* understands); unsent: what docker leaves out, by its own reading of the file;
\* inline, named: the Dockerfile, if the block has one; top, own: the file called
\* Dockerfile beside the manifest, and in the context directory.
Build == [files : SUBSET Part, unhashed : SUBSET Part, unsent : SUBSET Part,
          inline : Part \cup {None}, named : Part \cup {None}, top : Part, own : Part,
          args : SUBSET Part, secrets : SUBSET Part]

ASSUME BuildAssumption ==
  /\ None \notin Part
  /\ Unit # {} /\ \A u \in Unit : Builds[u] \in Build   \* else there is nothing to build
  /\ Order \in Seq(Unit) /\ \A u \in Unit : \E i \in 1..Len(Order) : Order[i] = u
  /\ Version \subseteq Nat /\ 0 \in Version /\ IsFiniteSet(Version)
  /\ MaxEdits \in Nat /\ MaxRuns \in Nat

VARIABLES
  source,      \* Machine -> Part -> version
  registry,    \* the in-cluster registry: a set of entries
  images,      \* containerd on the server: the same
  pushing,     \* containerd, under the name an image has while it is pushed
  deployed,    \* what the applied manifests name: Unit -> [tag, wanted]
  pods,        \* what runs: Unit -> [tag, wanted, image]
  cmd,         \* Machine -> the up or build it runs
  edits, runs

vars  == <<source, registry, images, pushing, deployed, pods, cmd, edits, runs>>
node  == <<images, pushing, pods>>

Sources == [Part -> Version]
Tag     == UNION {[S -> Version] : S \in SUBSET Part}
Image   == [from : Tag, spoilt : BOOLEAN]
Entry   == [repo : Unit, tag : Tag, image : Image]

PC == {"idle", "hash", "check", "buildx", "import", "tag", "push", "rm", "apply"}
\* seen: the sources as they were hashed; refs: the units that have their image.
Command == [pc : PC, next : Nat, tag : Tag \cup {None}, seen : Sources \cup {None},
            image : Image \cup {None}, refs : [Unit -> [tag : Tag, wanted : Tag] \cup {None}]]
Idle == [pc |-> "idle", next |-> 1, tag |-> None, seen |-> None, image |-> None,
         refs |-> [u \in Unit |-> None]]

Named(S, u, t) == {e \in S : e.repo = u /\ e.tag = t}
Runs(u, t)     == pods[u] # None /\ pods[u].tag = t

TypeOK ==
  /\ source \in [Machine -> Sources]
  /\ registry \subseteq Entry /\ images \subseteq Entry /\ pushing \subseteq Entry
  /\ \A S \in {registry, images, pushing} : \A d, e \in S : d.repo = e.repo /\ d.tag = e.tag => d = e
  /\ deployed \in [Unit -> [tag : Tag, wanted : Tag] \cup {None}]
  /\ pods \in [Unit -> [tag : Tag, wanted : Tag, image : Image] \cup {None}]
  /\ cmd \in [Machine -> Command]
  /\ edits \in 0..MaxEdits /\ runs \in 0..MaxRuns

Init ==
  /\ source = [m \in Machine |-> [p \in Part |-> 0]]
  /\ registry = {} /\ images = {} /\ pushing = {}
  /\ deployed = [u \in Unit |-> None]
  /\ pods = [u \in Unit |-> None]
  /\ cmd = [m \in Machine |-> Idle]
  /\ edits = 0 /\ runs = 0

-----------------------------------------------------------------------------
(***************************************************************************)
(* What determines a tag, and an image.                                    *)
(***************************************************************************)

\* The Dockerfile contentHash reads, and the one docker reads.
HashedDockerfile(b) == IF b.inline # None THEN b.inline ELSE IF b.named # None THEN b.named ELSE b.top
BuiltDockerfile(b)  == IF b.inline # None THEN b.inline ELSE IF b.named # None THEN b.named ELSE b.own

\* Slips (bugs that could have been in the code): without the Dockerfile, or with the values of the secrets.
HashedFiles(b)   == (b.files \ b.unhashed) \cup b.args
HashedSecrets(b) == (b.files \ b.unhashed) \cup {HashedDockerfile(b)} \cup b.args \cup b.secrets

\* Two readings of one .dockerignore: loadDockerignore skips lines with !, and
\* its patterns are a subset of docker's (no **/x, no /x).
Hashed(b) == (b.files \ b.unhashed) \cup {HashedDockerfile(b)} \cup b.args
Sent(b)   == (b.files \ b.unsent) \cup {BuiltDockerfile(b)} \cup b.args

\* Read for the tag although docker does not get it.
Extra(b) == ((b.files \ b.unhashed) \cup {HashedDockerfile(b)}) \ Sent(b)

Of(S, src) == [p \in S |-> src[p]]

contentHash(u, src) == Of(Hashed(Builds[u]), src)
Built(u, src)       == Of(Sent(Builds[u]), src)

\* A name is given to one image at a time.  PutBeside (a slip): to several.
PutBeside(S, u, t, i) == S \cup {[repo |-> u, tag |-> t, image |-> i]}
Put(S, u, t, i) == (S \ Named(S, u, t)) \cup {[repo |-> u, tag |-> t, image |-> i]}

-----------------------------------------------------------------------------
(***************************************************************************)
(* The people with the checkouts, and the server's kubelet.                *)
(***************************************************************************)

Edit(m, p, v) ==
  /\ source[m][p] # v /\ edits < MaxEdits
  /\ source' = [source EXCEPT ![m][p] = v]
  /\ edits' = edits + 1
  /\ UNCHANGED <<registry, deployed, cmd, runs>> /\ UNCHANGED node

\* A pod starts with the image the node has, or pulls it; its image is kept.
StartPod(u) ==
  LET d == deployed[u]
      run(i) == pods' = [pods EXCEPT ![u] = [tag |-> d.tag, wanted |-> d.wanted, image |-> i]]
  IN  /\ d # None /\ ~Runs(u, d.tag)
      /\ \/ \E e \in Named(images, u, d.tag) : run(e.image) /\ UNCHANGED images
         \/ /\ Named(images, u, d.tag) = {}
            /\ \E e \in Named(registry, u, d.tag) : run(e.image) /\ images' = Put(images, u, d.tag, e.image)
      /\ UNCHANGED <<source, registry, pushing, deployed, cmd, edits, runs>>

\* The kubelet removes an image no pod uses, under all its names.
CollectImage(e) ==
  /\ e \in images \cup pushing
  /\ ~Runs(e.repo, e.tag)
  /\ images' = images \ {e} /\ pushing' = pushing \ {e}
  /\ UNCHANGED <<source, registry, deployed, pods, cmd, edits, runs>>

-----------------------------------------------------------------------------
(***************************************************************************)
(* up and build.                                                           *)
(***************************************************************************)

At(m, pc)    == cmd[m].pc = pc
Become(m, c) == cmd' = [cmd EXCEPT ![m] = c]
Name(m)      == Order[cmd[m].next]
World        == <<source, registry, images, pushing, deployed, pods, edits, runs>>

\* The manifest is read; without build: blocks nothing would be built.
Begin(m) ==
  /\ At(m, "idle") /\ runs < MaxRuns /\ runs' = runs + 1
  /\ Become(m, [Idle EXCEPT !.pc = "hash"])
  /\ UNCHANGED <<source, registry, deployed, edits>> /\ UNCHANGED node

Hash(m) ==
  /\ At(m, "hash")
  /\ Become(m, [cmd[m] EXCEPT !.pc = "check", !.tag = contentHash(Name(m), source[m]), !.seen = source[m]])
  /\ UNCHANGED World

\* set: the unit has its image; then the next unit, or the end.
Done(m) ==
  LET c == cmd[m]
  IN  [c EXCEPT !.refs[Name(m)] = [tag |-> c.tag, wanted |-> Built(Name(m), c.seen)],
                !.next = @ + 1, !.tag = None, !.seen = None, !.image = None,
                !.pc = IF c.next = Len(Order) THEN "apply" ELSE "hash"]

HasTag(u, t) == Named(registry, u, t) # {}

Check(m) ==
  /\ At(m, "check")
  /\ Become(m, IF HasTag(Name(m), cmd[m].tag) THEN Done(m) ELSE [cmd[m] EXCEPT !.pc = "buildx"])
  /\ UNCHANGED World

\* docker reads the sources when it is their turn, edited since or not.
Buildx(m) ==
  LET c == cmd[m]
      i == [from |-> Built(Name(m), source[m]), spoilt |-> Of(Part, source[m]) # c.seen]
  IN  /\ At(m, "buildx")
      /\ Become(m, [c EXCEPT !.pc = "import", !.image = i]) /\ UNCHANGED World

\* Deliver: the archive goes into containerd.
Import(m) ==
  LET c == cmd[m]
  IN  /\ At(m, "import")
      /\ images' = Put(images, Name(m), c.tag, c.image)
      /\ Become(m, [c EXCEPT !.pc = "tag"])
      /\ UNCHANGED <<source, registry, pushing, deployed, pods, edits, runs>>

TagForce(m) ==
  LET c == cmd[m]
  IN  /\ At(m, "tag")
      /\ \E e \in Named(images, Name(m), c.tag) : pushing' = Put(pushing, Name(m), c.tag, e.image)
      /\ Become(m, [c EXCEPT !.pc = "push"])
      /\ UNCHANGED <<source, registry, images, deployed, pods, edits, runs>>

\* PushIgnored (a slip): a push that fails is not an error.
PushIgnored(m) ==
  LET c == cmd[m]
  IN  /\ At(m, "push")
      /\ \/ \E e \in Named(pushing, Name(m), c.tag) : registry' = Put(registry, Name(m), c.tag, e.image)
         \/ UNCHANGED registry
      /\ Become(m, [c EXCEPT !.pc = "rm"])
      /\ UNCHANGED <<source, deployed, edits, runs>> /\ UNCHANGED node

Push(m) ==
  LET c == cmd[m]
  IN  /\ At(m, "push")
      /\ \E e \in Named(pushing, Name(m), c.tag) : registry' = Put(registry, Name(m), c.tag, e.image)
      /\ Become(m, [c EXCEPT !.pc = "rm"])
      /\ UNCHANGED <<source, deployed, edits, runs>> /\ UNCHANGED node

\* ctr images rm does not mind a name that is gone.
Rm(m) ==
  /\ At(m, "rm")
  /\ pushing' = pushing \ Named(pushing, Name(m), cmd[m].tag)
  /\ Become(m, Done(m))
  /\ UNCHANGED <<source, registry, images, deployed, pods, edits, runs>>

\* up applies the manifests with the images' names (its steps: module Deploy);
\* build ends here.
Apply(m) ==
  /\ At(m, "apply")
  /\ deployed' = cmd[m].refs
  /\ Become(m, Idle)
  /\ UNCHANGED <<source, registry, edits, runs>> /\ UNCHANGED node
EndBuild(m) == At(m, "apply") /\ Become(m, Idle) /\ UNCHANGED World

\* A call fails, or the command is killed: nothing is undone, nothing applied.
Fails(m) ==
  /\ cmd[m].pc \notin {"idle", "apply"}
  /\ Become(m, Idle) /\ UNCHANGED World

Step(m) ==
  \/ Hash(m) \/ Check(m) \/ Buildx(m) \/ Import(m)
  \/ TagForce(m) \/ Push(m) \/ Rm(m) \/ Apply(m) \/ EndBuild(m)

Next ==
  \/ \E m \in Machine : Begin(m) \/ Step(m) \/ Fails(m)
  \/ \E m \in Machine, p \in Part, v \in Version : Edit(m, p, v)
  \/ \E u \in Unit : StartPod(u)
  \/ \E e \in images \cup pushing : CollectImage(e)

\* A kubelet goes on trying to start what is deployed (back-off, not an end).
Spec == Init /\ [][Next]_vars /\ \A u \in Unit : WF_vars(StartPod(u))

-----------------------------------------------------------------------------
(***************************************************************************)
(* Properties.                                                             *)
(***************************************************************************)

\* Every image the manifests name can be pulled, whatever has failed, whoever
\* else was delivering it, and whatever the node has collected since
\* (EnsureAll returns before Apply unless the push went through).
Pullable ==
  \A u \in Unit : deployed[u] # None => Named(registry, u, deployed[u].tag) # {}

\* What runs, and what a new pod would pull, is what docker makes of the
\* sources the tag was computed from, built now or skipped as unchanged, on
\* this machine or on another; an edit between the hash and docker's read
\* spoils an image (the check by HasTag is exact).
RunsSources ==
  /\ \A u \in Unit : pods[u] # None => pods[u].image.spoilt \/ pods[u].image.from = pods[u].wanted
  /\ \A u \in Unit : deployed[u] # None =>
       \A e \in Named(registry, u, deployed[u].tag) : e.image.spoilt \/ e.image.from = deployed[u].wanted

\* Nothing is rolled out anew unless docker would make another image of it, or
\* a file has changed that the hash reads and docker does not get: no restart for
\* a rotated secret, for a file both leave out, for another machine's build, or
\* for a build that is done again (contentHash, loadDockerignore).
RolloutsMatter ==
  [][\A u \in Unit : deployed[u] # None /\ deployed'[u] # None /\ deployed'[u].tag # deployed[u].tag
       => \/ deployed'[u].wanted # deployed[u].wanted
          \/ \E p \in Extra(Builds[u]) : deployed'[u].tag[p] # deployed[u].tag[p]]_vars

\* Whatever is deployed gets to run, though images are collected before their
\* pods start and pushes fail.
PodsRun ==
  \A u \in Unit : []<>(deployed[u] = None \/ Runs(u, deployed[u].tag))
=============================================================================

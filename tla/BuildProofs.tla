------------------------------ MODULE BuildProofs ------------------------------
(***************************************************************************)
(* Theorems about Build, for any machines, builds, versions, and number of *)
(* edits and commands.  The argument is about pairs of a tag and what      *)
(* docker makes of the same sources: every image in the registry, on the   *)
(* node or in a pod is one of those made of sources that hash to its tag,  *)
(* or was spoilt by an edit.                                               *)
(***************************************************************************)
EXTENDS Build, TLAPS

Ref == [tag : Tag, wanted : Tag]
Pod == [tag : Tag, wanted : Tag, image : Image]

\* Some sources hash to the tag t of u, and docker makes w of them.
Fit(u, t, w) == \E src \in Sources : t = contentHash(u, src) /\ w = Built(u, src)

Unique(S) == \A d, e \in S : d.repo = e.repo /\ d.tag = e.tag => d = e
Sound(S)  == \A e \in S : e.image.spoilt \/ Fit(e.repo, e.tag, e.image.from)

\* What is to be deployed fits, and is in the registry.
RefOK(reg, u, r) == r # None => Fit(u, r.tag, r.wanted) /\ Named(reg, u, r.tag) # {}
PodOK(u, d) == d # None => Fit(u, d.tag, d.wanted) /\ (d.image.spoilt \/ Fit(u, d.tag, d.image.from))

\* A command knows the tag of the sources it has hashed.
CommandOK(reg, c) ==
  /\ c.pc \notin {"idle", "apply"} => c.next \in 1..Len(Order)
  /\ c.pc \notin {"idle", "hash", "apply"} => c.seen \in Sources /\ c.tag = contentHash(Order[c.next], c.seen)
  /\ c.pc = "import" => c.image \in Image /\ (c.image.spoilt \/ c.image.from = Built(Order[c.next], c.seen))
  /\ c.pc = "rm" => Named(reg, Order[c.next], c.tag) # {}
  /\ \A u \in Unit : RefOK(reg, u, c.refs[u])

StoreOK(S) == S \subseteq Entry /\ Unique(S) /\ Sound(S)

TypeInv ==
  /\ source \in [Machine -> Sources]
  /\ deployed \in [Unit -> Ref \cup {None}]
  /\ pods \in [Unit -> Pod \cup {None}]
  /\ cmd \in [Machine -> Command]
  /\ edits \in 0..MaxEdits /\ runs \in 0..MaxRuns

\* The inductive invariant.
Inv ==
  /\ TypeInv
  /\ StoreOK(registry) /\ StoreOK(images) /\ StoreOK(pushing)
  /\ \A m \in Machine : CommandOK(registry, cmd[m])
  /\ \A u \in Unit : RefOK(registry, u, deployed[u]) /\ PodOK(u, pods[u])

-----------------------------------------------------------------------------
LEMMA Assumed ==
  /\ Unit # {} /\ \A u \in Unit : Builds[u] \in Build
  /\ Order \in Seq(Unit) /\ \A u \in Unit : \E i \in 1..Len(Order) : Order[i] = u
  BY BuildAssumption

LEMMA Ordered ==
  /\ Len(Order) \in Nat /\ 1 \in 1..Len(Order)
  /\ \A i \in 1..Len(Order) : Order[i] \in Unit
  <1>1. PICK u \in Unit : TRUE
    BY Assumed
  <1>2. \E i \in 1..Len(Order) : Order[i] = u
    BY <1>1, Assumed, Zenon
  <1>3. Len(Order) \in Nat /\ \A j \in 1..Len(Order) : Order[j] \in Unit
    BY Assumed
  <1>4. QED
    BY <1>2, <1>3

LEMMA Ons ==
  ASSUME NEW S \in SUBSET Part, NEW src \in Sources
  PROVE  Of(S, src) \in Tag
  <1>1. Of(S, src) \in [S -> Version]
    BY DEF Of, Sources
  <1>2. QED
    BY <1>1 DEF Tag

LEMMA HashTypes ==
  ASSUME NEW u \in Unit, NEW src \in Sources
  PROVE  contentHash(u, src) \in Tag /\ Built(u, src) \in Tag
  <1>1. Builds[u] \in Build
    BY Assumed
  <1>2. Hashed(Builds[u]) \subseteq Part /\ Sent(Builds[u]) \subseteq Part
    BY <1>1 DEF Build, Hashed, Sent, HashedDockerfile, BuiltDockerfile
  <1>3. QED
    BY <1>2, Ons DEF contentHash, Built

\* Giving a name to an image takes no name away.
LEMMA PutKeeps ==
  ASSUME NEW S, StoreOK(S), NEW u \in Unit, NEW t \in Tag, NEW i \in Image,
         i.spoilt \/ Fit(u, t, i.from)
  PROVE  /\ StoreOK(Put(S, u, t, i)) /\ Named(Put(S, u, t, i), u, t) # {}
         /\ \A v, w : Named(S, v, w) # {} => Named(Put(S, u, t, i), v, w) # {}
  <1> DEFINE e == [repo |-> u, tag |-> t, image |-> i]
             P == Put(S, u, t, i)
  <1>1. P = (S \ Named(S, u, t)) \cup {e}
    BY DEF Put
  <1>2. e \in Entry /\ e.repo = u /\ e.tag = t /\ e.image = i
    BY DEF Entry
  <1> HIDE DEF e, P
  <1>3. \A d \in P : d = e \/ (d \in S /\ ~(d.repo = u /\ d.tag = t))
    BY <1>1 DEF Named
  <1>4. e \in P
    BY <1>1
  <1>5. P \subseteq Entry
    BY <1>2, <1>3 DEF StoreOK
  <1>6. Unique(P)
    BY <1>2, <1>3 DEF StoreOK, Unique
  <1>7. Sound(P)
    BY <1>2, <1>3 DEF StoreOK, Sound
  <1>8. Named(P, u, t) # {}
    BY <1>2, <1>4 DEF Named
  <1>9. ASSUME NEW v, NEW w, Named(S, v, w) # {} PROVE Named(P, v, w) # {}
    <2>1. PICK d \in S : d.repo = v /\ d.tag = w
      BY <1>9 DEF Named
    <2>2. CASE v = u /\ w = t
      BY <1>8, <2>2
    <2>3. CASE ~(v = u /\ w = t)
      <3>1. d \in P
        BY <1>1, <2>1, <2>3 DEF Named
      <3>2. QED
        BY <2>1, <3>1 DEF Named
    <2>4. QED
      BY <2>2, <2>3
  <1>10. QED
    BY <1>5, <1>6, <1>7, <1>8, <1>9 DEF StoreOK, P

LEMMA FewerOK ==
  ASSUME NEW S, StoreOK(S), NEW T \in SUBSET S
  PROVE  StoreOK(T)
  BY DEF StoreOK, Unique, Sound

\* What m had in hand stays so while the registry loses no name.
LEMMA HandKept ==
  ASSUME NEW R, NEW S, \A v, w : Named(R, v, w) # {} => Named(S, v, w) # {},
         NEW c, CommandOK(R, c)
  PROVE  CommandOK(S, c)
  BY DEF CommandOK, RefOK

\* Commands leave the pods alone; the rest stays sound if each part does.
LEMMA StepOK ==
  ASSUME Inv, NEW m \in Machine, NEW c \in Command, CommandOK(registry', c),
         cmd' = [cmd EXCEPT ![m] = c], UNCHANGED <<source, pods, edits>>, runs' \in 0..MaxRuns,
         StoreOK(registry'), StoreOK(images'), StoreOK(pushing'),
         \A v, w : Named(registry, v, w) # {} => Named(registry', v, w) # {},
         deployed' \in [Unit -> Ref \cup {None}],
         \A u \in Unit : RefOK(registry', u, deployed'[u])
  PROVE  Inv'
  <1>1. TypeInv'
    BY DEF Inv, TypeInv
  <1>2. ASSUME NEW n \in Machine PROVE CommandOK(registry', cmd'[n])
    <2>1. CASE n = m
      BY <2>1 DEF Inv, TypeInv
    <2>2. CASE n # m
      BY <2>2, HandKept DEF Inv, TypeInv
    <2>3. QED
      BY <2>1, <2>2
  <1>3. \A u \in Unit : PodOK(u, pods'[u])
    BY DEF Inv
  <1>4. QED
    BY <1>1, <1>2, <1>3 DEF Inv

\* The same, for a step that touches only the command.
LEMMA CommandStepOK ==
  ASSUME Inv, NEW m \in Machine, NEW c \in Command, CommandOK(registry, c), Become(m, c),
         UNCHANGED <<source, registry, images, pushing, deployed, pods, edits>>, runs' \in 0..MaxRuns
  PROVE  Inv'
  <1>1. deployed' \in [Unit -> Ref \cup {None}] /\ \A u \in Unit : RefOK(registry', u, deployed'[u])
    BY DEF Inv, TypeInv
  <1>2. StoreOK(registry') /\ StoreOK(images') /\ StoreOK(pushing')
    BY DEF Inv
  <1>3. QED
    BY <1>1, <1>2, StepOK DEF Become

LEMMA IdleOK == Idle \in Command /\ \A R : CommandOK(R, Idle)
  BY DEF Idle, Command, PC, CommandOK, RefOK

LEMMA AtWork ==
  ASSUME Inv, NEW m \in Machine, cmd[m].pc \notin {"idle", "apply"}
  PROVE  /\ cmd[m] \in Command /\ CommandOK(registry, cmd[m])
         /\ cmd[m].next \in 1..Len(Order) /\ Name(m) \in Unit /\ Name(m) = Order[cmd[m].next]
         /\ cmd[m].pc # "hash" =>
              /\ cmd[m].seen \in Sources /\ cmd[m].tag = contentHash(Name(m), cmd[m].seen)
              /\ cmd[m].tag \in Tag
  <1>1. cmd[m] \in Command /\ CommandOK(registry, cmd[m])
    BY DEF Inv, TypeInv
  <1>2. cmd[m].next \in 1..Len(Order) /\ Name(m) \in Unit /\ Name(m) = Order[cmd[m].next]
    BY <1>1, Ordered DEF CommandOK, Name
  <1>3. ASSUME cmd[m].pc # "hash"
        PROVE  cmd[m].seen \in Sources /\ cmd[m].tag = contentHash(Name(m), cmd[m].seen)
    BY <1>1, <1>2, <1>3 DEF CommandOK
  <1>4. QED
    BY <1>1, <1>2, <1>3, HashTypes

\* A unit has its image when the registry has its tag.
LEMMA DoneOK ==
  ASSUME Inv, NEW m \in Machine, cmd[m].pc \notin {"idle", "hash", "apply"},
         Named(registry, Name(m), cmd[m].tag) # {}
  PROVE  Done(m) \in Command /\ CommandOK(registry, Done(m))
  <1> DEFINE c == cmd[m]
             r == [tag |-> c.tag, wanted |-> Built(Name(m), c.seen)]
             d == Done(m)
  <1>1. /\ c \in Command /\ CommandOK(registry, c) /\ c.next \in 1..Len(Order) /\ Name(m) \in Unit
        /\ c.seen \in Sources /\ c.tag = contentHash(Name(m), c.seen) /\ c.tag \in Tag
    BY AtWork
  <1>2. r \in Ref /\ r.tag = c.tag /\ r.wanted = Built(Name(m), c.seen)
    BY <1>1, HashTypes DEF Ref
  <1>3. Fit(Name(m), r.tag, r.wanted)
    BY <1>1, <1>2 DEF Fit
  <1>4. /\ d.pc = (IF c.next = Len(Order) THEN "apply" ELSE "hash")
        /\ d.next = c.next + 1 /\ d.tag = None /\ d.seen = None /\ d.image = None
        /\ d.refs = [c.refs EXCEPT ![Name(m)] = r]
    BY <1>1 DEF Done, Command
  <1>5. c.next + 1 \in Nat /\ (c.next # Len(Order) => c.next + 1 \in 1..Len(Order))
    BY <1>1, Ordered
  <1>6. c.refs \in [Unit -> Ref \cup {None}]
    BY <1>1 DEF Command, Ref
  <1>7. d.refs \in [Unit -> Ref \cup {None}]
    BY <1>1, <1>2, <1>4, <1>6
  <1>8. d \in Command
    <2>1. d = [c EXCEPT !.refs[Name(m)] = r, !.next = @ + 1, !.tag = None, !.seen = None, !.image = None,
                        !.pc = IF c.next = Len(Order) THEN "apply" ELSE "hash"]
      BY DEF Done
    <2> HIDE DEF d, r, c
    <2>2. QED
      BY <1>1, <1>2, <1>4, <1>5, <1>6, <1>7, <2>1 DEF Command, PC, Ref
  <1> HIDE DEF d, r
  <1>9. ASSUME NEW u \in Unit PROVE RefOK(registry, u, d.refs[u])
    <2>1. CASE u = Name(m)
      BY <1>1, <1>2, <1>3, <1>4, <1>6, <2>1 DEF RefOK
    <2>2. CASE u # Name(m)
      BY <1>1, <1>4, <1>6, <2>2 DEF RefOK, CommandOK
    <2>3. QED
      BY <2>1, <2>2
  <1>10. QED
    BY <1>4, <1>5, <1>8, <1>9 DEF CommandOK, d

-----------------------------------------------------------------------------
LEMMA CommandsKeep ==
  ASSUME Inv, NEW m \in Machine, Begin(m) \/ Hash(m) \/ Check(m) \/ Buildx(m) \/ EndBuild(m) \/ Fails(m)
  PROVE  Inv'
  <1>1. runs \in 0..MaxRuns /\ MaxRuns \in Nat /\ cmd[m] \in Command /\ CommandOK(registry, cmd[m])
    BY BuildAssumption DEF Inv, TypeInv
  <1>2. CASE Begin(m)
    <2> DEFINE c == [Idle EXCEPT !.pc = "hash"]
    <2>1. Become(m, c) /\ UNCHANGED <<source, registry, images, pushing, deployed, pods, edits>>
      BY <1>2 DEF Begin, node
    <2>2. runs' \in 0..MaxRuns
      BY <1>1, <1>2 DEF Begin
    <2>3. c \in Command /\ CommandOK(registry, c)
      BY Ordered DEF Idle, Command, PC, CommandOK, RefOK
    <2>4. QED
      BY <2>1, <2>2, <2>3, CommandStepOK
  <1>3. CASE Hash(m)
    <2> DEFINE u == Name(m)
               c == [cmd[m] EXCEPT !.pc = "check", !.tag = contentHash(u, source[m]), !.seen = source[m]]
    <2>1. Become(m, c) /\ UNCHANGED <<source, registry, images, pushing, deployed, pods, edits, runs>>
      BY <1>3 DEF Hash, World
    <2>2. /\ cmd[m].pc = "hash" /\ cmd[m].next \in 1..Len(Order) /\ u \in Unit /\ u = Order[cmd[m].next]
          /\ source[m] \in Sources
      BY <1>3, AtWork DEF Hash, At, Inv, TypeInv
    <2>3. contentHash(u, source[m]) \in Tag
      BY <2>2, HashTypes
    <2>4. /\ c.pc = "check" /\ c.tag = contentHash(u, source[m]) /\ c.seen = source[m]
          /\ c.next = cmd[m].next /\ c.refs = cmd[m].refs
      BY <1>1 DEF Command
    <2>5. c \in Command
      BY <1>1, <2>2, <2>3 DEF Command, PC
    <2>6. CommandOK(registry, c)
      BY <1>1, <2>2, <2>4 DEF CommandOK
    <2>7. QED
      BY <1>1, <2>1, <2>5, <2>6, CommandStepOK
  <1>4. CASE Check(m)
    <2>1. cmd[m].pc = "check" /\ UNCHANGED <<source, registry, images, pushing, deployed, pods, edits, runs>>
      BY <1>4 DEF Check, At, World
    <2>2. CASE HasTag(Name(m), cmd[m].tag)
      <3>1. Done(m) \in Command /\ CommandOK(registry, Done(m))
        BY <2>1, <2>2, DoneOK DEF HasTag
      <3>2. Become(m, Done(m))
        BY <1>4, <2>2 DEF Check
      <3>3. QED
        BY <1>1, <2>1, <3>1, <3>2, CommandStepOK
    <2>3. CASE ~HasTag(Name(m), cmd[m].tag)
      <3> DEFINE c == [cmd[m] EXCEPT !.pc = "buildx"]
      <3>1. Become(m, c)
        BY <1>4, <2>3 DEF Check
      <3>2. /\ c.pc = "buildx" /\ c.tag = cmd[m].tag /\ c.seen = cmd[m].seen
            /\ c.next = cmd[m].next /\ c.refs = cmd[m].refs /\ c \in Command
        BY <1>1 DEF Command, PC
      <3>3. CommandOK(registry, c)
        BY <1>1, <2>1, <3>2 DEF CommandOK
      <3>4. QED
        BY <1>1, <2>1, <3>1, <3>2, <3>3, CommandStepOK
    <2>4. QED
      BY <2>2, <2>3
  <1>5. CASE Buildx(m)
    <2> DEFINE u == Name(m)
               i == [from |-> Built(u, source[m]), spoilt |-> Of(Part, source[m]) # cmd[m].seen]
               c == [cmd[m] EXCEPT !.pc = "import", !.image = i]
    <2>1. Become(m, c) /\ UNCHANGED <<source, registry, images, pushing, deployed, pods, edits, runs>>
      BY <1>5 DEF Buildx, World
    <2>2. /\ cmd[m].pc = "buildx" /\ cmd[m].next \in 1..Len(Order) /\ u \in Unit /\ u = Order[cmd[m].next]
          /\ source[m] \in Sources /\ cmd[m].seen \in Sources
      BY <1>5, AtWork DEF Buildx, At, Inv, TypeInv
    <2>3. i \in Image
      BY <2>2, HashTypes DEF Image
    <2>4. Of(Part, source[m]) = source[m]
      BY <2>2 DEF Of, Sources
    <2>5. i.spoilt \/ i.from = Built(u, cmd[m].seen)
      BY <2>4
    <2> HIDE DEF i
    <2>6. /\ c.pc = "import" /\ c.tag = cmd[m].tag /\ c.seen = cmd[m].seen /\ c.image = i
          /\ c.next = cmd[m].next /\ c.refs = cmd[m].refs /\ c \in Command
      BY <1>1, <2>3 DEF Command, PC
    <2>7. CommandOK(registry, c)
      BY <1>1, <2>2, <2>3, <2>5, <2>6 DEF CommandOK
    <2>8. QED
      BY <1>1, <2>1, <2>6, <2>7, CommandStepOK
  <1>6. CASE EndBuild(m) \/ Fails(m)
    <2>1. Become(m, Idle) /\ UNCHANGED <<source, registry, images, pushing, deployed, pods, edits, runs>>
      BY <1>6 DEF EndBuild, Fails, World
    <2>2. QED
      BY <1>1, <2>1, IdleOK, CommandStepOK
  <1>7. QED
    BY <1>2, <1>3, <1>4, <1>5, <1>6

LEMMA ImportKeeps ==
  ASSUME Inv, NEW m \in Machine, Import(m)
  PROVE  Inv'
  <1> DEFINE u == Name(m)
             c == [cmd[m] EXCEPT !.pc = "tag"]
  <1>1. /\ cmd[m].pc = "import" /\ Become(m, c) /\ images' = Put(images, u, cmd[m].tag, cmd[m].image)
        /\ UNCHANGED <<source, registry, pushing, deployed, pods, edits, runs>>
    BY DEF Import, At
  <1>2. /\ cmd[m] \in Command /\ CommandOK(registry, cmd[m]) /\ u \in Unit /\ u = Order[cmd[m].next]
        /\ cmd[m].tag = contentHash(u, cmd[m].seen) /\ cmd[m].tag \in Tag /\ cmd[m].seen \in Sources
    BY <1>1, AtWork
  <1>3. cmd[m].image \in Image /\ (cmd[m].image.spoilt \/ cmd[m].image.from = Built(u, cmd[m].seen))
    BY <1>1, <1>2 DEF CommandOK
  <1>4. cmd[m].image.spoilt \/ Fit(u, cmd[m].tag, cmd[m].image.from)
    BY <1>2, <1>3 DEF Fit
  <1>5. StoreOK(images')
    BY <1>1, <1>2, <1>3, <1>4, PutKeeps DEF Inv
  <1>6. /\ c.pc = "tag" /\ c.tag = cmd[m].tag /\ c.seen = cmd[m].seen
        /\ c.next = cmd[m].next /\ c.refs = cmd[m].refs /\ c \in Command
    BY <1>2 DEF Command, PC
  <1>7. CommandOK(registry', c)
    BY <1>1, <1>2, <1>6 DEF CommandOK
  <1>8. /\ deployed' \in [Unit -> Ref \cup {None}] /\ \A v \in Unit : RefOK(registry', v, deployed'[v])
        /\ runs' \in 0..MaxRuns /\ StoreOK(registry') /\ StoreOK(pushing')
    BY <1>1 DEF Inv, TypeInv
  <1>9. QED
    BY <1>1, <1>5, <1>6, <1>7, <1>8, StepOK DEF Become

LEMMA TagForceKeeps ==
  ASSUME Inv, NEW m \in Machine, TagForce(m)
  PROVE  Inv'
  <1> DEFINE u == Name(m)
             c == [cmd[m] EXCEPT !.pc = "push"]
  <1>1. /\ cmd[m].pc = "tag" /\ Become(m, c)
        /\ UNCHANGED <<source, registry, images, deployed, pods, edits, runs>>
    BY DEF TagForce, At
  <1>2. /\ cmd[m] \in Command /\ CommandOK(registry, cmd[m]) /\ u \in Unit /\ cmd[m].tag \in Tag
    BY <1>1, AtWork
  <1>3. PICK e \in Named(images, u, cmd[m].tag) : pushing' = Put(pushing, u, cmd[m].tag, e.image)
    BY DEF TagForce
  <1>4. /\ e.image \in Image /\ (e.image.spoilt \/ Fit(u, cmd[m].tag, e.image.from))
    BY <1>3 DEF Inv, StoreOK, Sound, Named, Entry
  <1>5. StoreOK(pushing')
    BY <1>2, <1>3, <1>4, PutKeeps DEF Inv
  <1>6. /\ c.pc = "push" /\ c.tag = cmd[m].tag /\ c.seen = cmd[m].seen
        /\ c.next = cmd[m].next /\ c.refs = cmd[m].refs /\ c \in Command
    BY <1>2 DEF Command, PC
  <1>7. CommandOK(registry', c)
    BY <1>1, <1>2, <1>6 DEF CommandOK
  <1>8. /\ deployed' \in [Unit -> Ref \cup {None}] /\ \A v \in Unit : RefOK(registry', v, deployed'[v])
        /\ runs' \in 0..MaxRuns /\ StoreOK(registry') /\ StoreOK(images')
    BY <1>1 DEF Inv, TypeInv
  <1>9. QED
    BY <1>1, <1>5, <1>6, <1>7, <1>8, StepOK DEF Become

LEMMA PushKeeps ==
  ASSUME Inv, NEW m \in Machine, Push(m)
  PROVE  Inv'
  <1> DEFINE u == Name(m)
             c == [cmd[m] EXCEPT !.pc = "rm"]
  <1>1. /\ cmd[m].pc = "push" /\ Become(m, c)
        /\ UNCHANGED <<source, images, pushing, deployed, pods, edits, runs>>
    BY DEF Push, At, node
  <1>2. /\ cmd[m] \in Command /\ CommandOK(registry, cmd[m]) /\ u \in Unit /\ u = Order[cmd[m].next]
        /\ cmd[m].tag \in Tag
    BY <1>1, AtWork
  <1>3. PICK e \in Named(pushing, u, cmd[m].tag) : registry' = Put(registry, u, cmd[m].tag, e.image)
    BY DEF Push
  <1>4. /\ e.image \in Image /\ (e.image.spoilt \/ Fit(u, cmd[m].tag, e.image.from))
    BY <1>3 DEF Inv, StoreOK, Sound, Named, Entry
  <1>5. /\ StoreOK(registry') /\ Named(registry', u, cmd[m].tag) # {}
        /\ \A v, w : Named(registry, v, w) # {} => Named(registry', v, w) # {}
    BY <1>2, <1>3, <1>4, PutKeeps DEF Inv
  <1>6. /\ c.pc = "rm" /\ c.tag = cmd[m].tag /\ c.seen = cmd[m].seen
        /\ c.next = cmd[m].next /\ c.refs = cmd[m].refs /\ c \in Command
    BY <1>2 DEF Command, PC
  <1>7. CommandOK(registry', cmd[m])
    BY <1>2, <1>5, HandKept
  <1>8. CommandOK(registry', c)
    BY <1>1, <1>2, <1>5, <1>6, <1>7 DEF CommandOK
  <1>9. /\ deployed' \in [Unit -> Ref \cup {None}] /\ \A v \in Unit : RefOK(registry', v, deployed'[v])
        /\ runs' \in 0..MaxRuns /\ StoreOK(pushing') /\ StoreOK(images')
    BY <1>1, <1>5 DEF Inv, TypeInv, RefOK
  <1>10. QED
    BY <1>1, <1>5, <1>6, <1>8, <1>9, StepOK DEF Become

LEMMA RmKeeps ==
  ASSUME Inv, NEW m \in Machine, Rm(m)
  PROVE  Inv'
  <1>1. /\ cmd[m].pc = "rm" /\ Become(m, Done(m))
        /\ UNCHANGED <<source, registry, images, deployed, pods, edits, runs>>
    BY DEF Rm, At
  <1>2. cmd[m] \in Command /\ CommandOK(registry, cmd[m]) /\ Name(m) = Order[cmd[m].next]
    BY <1>1, AtWork
  <1>3. Named(registry, Name(m), cmd[m].tag) # {}
    BY <1>1, <1>2 DEF CommandOK
  <1>4. Done(m) \in Command /\ CommandOK(registry', Done(m))
    BY <1>1, <1>3, DoneOK
  <1>5. StoreOK(pushing')
    BY FewerOK DEF Rm, Inv
  <1>6. /\ deployed' \in [Unit -> Ref \cup {None}] /\ \A v \in Unit : RefOK(registry', v, deployed'[v])
        /\ runs' \in 0..MaxRuns /\ StoreOK(registry') /\ StoreOK(images')
    BY <1>1 DEF Inv, TypeInv
  <1>7. QED
    BY <1>1, <1>4, <1>5, <1>6, StepOK DEF Become

LEMMA ApplyKeeps ==
  ASSUME Inv, NEW m \in Machine, Apply(m)
  PROVE  Inv'
  <1>1. /\ Become(m, Idle) /\ deployed' = cmd[m].refs
        /\ UNCHANGED <<source, registry, images, pushing, pods, edits, runs>>
    BY DEF Apply, node
  <1>2. cmd[m] \in Command /\ CommandOK(registry, cmd[m])
    BY DEF Inv, TypeInv
  <1>3. deployed' \in [Unit -> Ref \cup {None}] /\ \A v \in Unit : RefOK(registry', v, deployed'[v])
    BY <1>1, <1>2 DEF Command, CommandOK, Ref
  <1>4. runs' \in 0..MaxRuns /\ StoreOK(registry') /\ StoreOK(images') /\ StoreOK(pushing')
    BY <1>1 DEF Inv, TypeInv
  <1>5. QED
    BY <1>1, <1>3, <1>4, IdleOK, StepOK DEF Become

-----------------------------------------------------------------------------
LEMMA EditKeeps ==
  ASSUME Inv, NEW m \in Machine, NEW p \in Part, NEW v \in Version, Edit(m, p, v)
  PROVE  Inv'
  <1>1. /\ source' = [source EXCEPT ![m][p] = v] /\ edits < MaxEdits /\ edits' = edits + 1
        /\ UNCHANGED <<registry, deployed, cmd, runs, images, pushing, pods>>
    BY DEF Edit, node
  <1>2. source' \in [Machine -> Sources]
    BY <1>1 DEF Inv, TypeInv, Sources
  <1>3. edits' \in 0..MaxEdits
    BY <1>1, BuildAssumption DEF Inv, TypeInv
  <1>4. QED
    BY <1>1, <1>2, <1>3 DEF Inv, TypeInv

LEMMA StartPodKeeps ==
  ASSUME Inv, NEW u \in Unit, StartPod(u)
  PROVE  Inv'
  <1> DEFINE d == deployed[u]
             pod(i) == [tag |-> d.tag, wanted |-> d.wanted, image |-> i]
  <1>1. /\ d \in Ref /\ Fit(u, d.tag, d.wanted)
        /\ UNCHANGED <<source, registry, pushing, deployed, cmd, edits, runs>>
    BY DEF StartPod, Inv, TypeInv, RefOK
  <1>2. PICK e \in Named(images, u, d.tag) \cup Named(registry, u, d.tag) :
          /\ pods' = [pods EXCEPT ![u] = pod(e.image)]
          /\ images' = images \/ images' = Put(images, u, d.tag, e.image)
    BY DEF StartPod
  <1>3. e.image \in Image /\ (e.image.spoilt \/ Fit(u, d.tag, e.image.from))
    BY <1>2 DEF Inv, StoreOK, Sound, Named, Entry
  <1>4. StoreOK(images')
    BY <1>1, <1>2, <1>3, PutKeeps DEF Inv, Ref
  <1>5. pod(e.image) \in Pod /\ pod(e.image).tag = d.tag /\ pod(e.image).wanted = d.wanted /\ pod(e.image).image = e.image
    BY <1>1, <1>3 DEF Pod, Ref
  <1> HIDE DEF pod
  <1>6. pods' \in [Unit -> Pod \cup {None}]
    BY <1>2, <1>5 DEF Inv, TypeInv
  <1>7. ASSUME NEW v \in Unit PROVE PodOK(v, pods'[v])
    <2>1. CASE v = u
      BY <1>1, <1>2, <1>3, <1>5, <2>1 DEF Inv, TypeInv, PodOK
    <2>2. CASE v # u
      BY <1>2, <2>2 DEF Inv, TypeInv
    <2>3. QED
      BY <2>1, <2>2
  <1>8. QED
    BY <1>1, <1>4, <1>6, <1>7 DEF Inv, TypeInv

LEMMA CollectKeeps ==
  ASSUME Inv, NEW e, CollectImage(e)
  PROVE  Inv'
  <1>1. StoreOK(images') /\ StoreOK(pushing')
    BY FewerOK DEF CollectImage, Inv
  <1>2. QED
    BY <1>1 DEF CollectImage, Inv, TypeInv

LEMMA InitInv == Init => Inv
  <1> SUFFICES ASSUME Init PROVE Inv
    OBVIOUS
  <1>1. source \in [Machine -> Sources]
    BY BuildAssumption DEF Init, Sources
  <1>2. /\ edits \in 0..MaxEdits /\ runs \in 0..MaxRuns
        /\ deployed \in [Unit -> Ref \cup {None}] /\ pods \in [Unit -> Pod \cup {None}]
        /\ cmd \in [Machine -> Command]
    BY BuildAssumption, IdleOK DEF Init
  <1>3. StoreOK(registry) /\ StoreOK(images) /\ StoreOK(pushing)
    BY DEF Init, StoreOK, Unique, Sound
  <1>4. \A m \in Machine : CommandOK(registry, cmd[m])
    BY IdleOK DEF Init
  <1>5. \A u \in Unit : RefOK(registry, u, deployed[u]) /\ PodOK(u, pods[u])
    BY DEF Init, RefOK, PodOK
  <1>6. QED
    BY <1>1, <1>2, <1>3, <1>4, <1>5 DEF Inv, TypeInv

LEMMA NextInv == Inv /\ [Next]_vars => Inv'
  <1> SUFFICES ASSUME Inv, [Next]_vars PROVE Inv'
    OBVIOUS
  <1>1. ASSUME NEW m \in Machine, Begin(m) \/ Step(m) \/ Fails(m) PROVE Inv'
    BY <1>1, CommandsKeep, ImportKeeps, TagForceKeeps, PushKeeps, RmKeeps, ApplyKeeps DEF Step
  <1>2. ASSUME NEW m \in Machine, NEW p \in Part, NEW v \in Version, Edit(m, p, v) PROVE Inv'
    BY <1>2, EditKeeps
  <1>3. ASSUME NEW u \in Unit, StartPod(u) PROVE Inv'
    BY <1>3, StartPodKeeps
  <1>4. ASSUME NEW e \in images \cup pushing, CollectImage(e) PROVE Inv'
    BY <1>4, CollectKeeps
  <1>5. CASE UNCHANGED vars
    BY <1>5 DEF vars, node, Inv, TypeInv
  <1>6. QED
    BY <1>1, <1>2, <1>3, <1>4, <1>5 DEF Next

LEMMA AlwaysInv == Spec => []Inv
  BY InitInv, NextInv, PTL DEF Spec

-----------------------------------------------------------------------------
\* What docker gets of a build is hashed: no line with ! in its .dockerignore, no
\* .git in its context, and not one Dockerfile hashed and another built.
Exact == \A u \in Unit : Sent(Builds[u]) \subseteq Hashed(Builds[u])

\* A tag says what docker makes of the sources.
LEMMA TagSays ==
  ASSUME Exact, NEW u \in Unit, NEW t, NEW v, NEW w, Fit(u, t, v), Fit(u, t, w)
  PROVE  v = w
  <1>1. PICK src \in Sources : t = contentHash(u, src) /\ v = Built(u, src)
    BY DEF Fit
  <1>2. PICK other \in Sources : t = contentHash(u, other) /\ w = Built(u, other)
    BY DEF Fit
  <1>3. \A p \in Hashed(Builds[u]) : src[p] = other[p]
    <2>1. ASSUME NEW p \in Hashed(Builds[u]) PROVE src[p] = other[p]
      <3>1. Of(Hashed(Builds[u]), src)[p] = src[p] /\ Of(Hashed(Builds[u]), other)[p] = other[p]
        BY DEF Of
      <3>2. QED
        BY <1>1, <1>2, <3>1 DEF contentHash
    <2>2. QED
      BY <2>1
  <1>4. \A p \in Sent(Builds[u]) : src[p] = other[p]
    BY <1>3 DEF Exact
  <1>5. QED
    BY <1>1, <1>2, <1>4 DEF Built, Of

\* Two tags of a build are of sources that docker makes two images of, or that
\* differ in a file docker does not get.
LEMMA TagsMatter ==
  ASSUME NEW u \in Unit, NEW t, NEW s, NEW v, NEW w, Fit(u, t, v), Fit(u, s, w), t # s
  PROVE  v # w \/ \E p \in Extra(Builds[u]) : t[p] # s[p]
  <1>1. PICK src \in Sources : t = contentHash(u, src) /\ v = Built(u, src)
    BY DEF Fit
  <1>2. PICK other \in Sources : s = contentHash(u, other) /\ w = Built(u, other)
    BY DEF Fit
  <1> SUFFICES ASSUME v = w, \A p \in Extra(Builds[u]) : t[p] = s[p]
               PROVE  FALSE
    OBVIOUS
  <1>3. ASSUME NEW p \in Sent(Builds[u]) PROVE src[p] = other[p]
    <2>1. Of(Sent(Builds[u]), src)[p] = src[p] /\ Of(Sent(Builds[u]), other)[p] = other[p]
      BY DEF Of
    <2>2. QED
      BY <1>1, <1>2, <2>1 DEF Built
  <1>4. Hashed(Builds[u]) \subseteq Sent(Builds[u]) \cup Extra(Builds[u]) /\ Extra(Builds[u]) \subseteq Hashed(Builds[u])
    BY DEF Hashed, Sent, Extra
  <1>5. ASSUME NEW p \in Extra(Builds[u]) PROVE src[p] = other[p]
    <2>1. Of(Hashed(Builds[u]), src)[p] = src[p] /\ Of(Hashed(Builds[u]), other)[p] = other[p]
      BY <1>4 DEF Of
    <2>2. QED
      BY <1>1, <1>2, <2>1 DEF contentHash
  <1>6. t = s
    BY <1>1, <1>2, <1>3, <1>4, <1>5 DEF contentHash, Of
  <1>7. QED
    BY <1>6

\* The registry, the node, the pods and the commands are of the types declared,
\* and a name stands for one image at a time.
THEOREM BuildTypeSafe == Spec => []TypeOK
  <1>1. Inv => TypeOK
    BY DEF Inv, TypeInv, TypeOK, StoreOK, Unique, Ref, Pod
  <1>2. QED
    BY <1>1, AlwaysInv, PTL

\* Every image that applied manifests name is in the registry, whatever failed
\* on the way and whatever the node has collected since: EnsureAll has pushed
\* it, or has seen its tag, before anything is applied.
THEOREM ImagesPullable == Spec => []Pullable
  <1>1. Inv => Pullable
    BY DEF Inv, RefOK, Pullable
  <1>2. QED
    BY <1>1, AlwaysInv, PTL

\* What runs and what would be pulled is what docker makes of the sources that
\* were hashed, unless it was spoilt by an edit, for builds whose hash covers
\* all that docker gets (contentHash, HasTag).
THEOREM RunsItsSources ==
  ASSUME Exact
  PROVE  Spec => []RunsSources
  <1>1. ASSUME Inv PROVE RunsSources
    <2>1. ASSUME NEW u \in Unit, pods[u] # None
          PROVE  pods[u].image.spoilt \/ pods[u].image.from = pods[u].wanted
      BY <1>1, <2>1, TagSays DEF Inv, PodOK
    <2>2. ASSUME NEW u \in Unit, deployed[u] # None, NEW e \in Named(registry, u, deployed[u].tag)
          PROVE  e.image.spoilt \/ e.image.from = deployed[u].wanted
      <3>1. Fit(u, deployed[u].tag, deployed[u].wanted)
        BY <1>1, <2>2 DEF Inv, RefOK
      <3>2. e \in registry /\ e.repo = u /\ e.tag = deployed[u].tag
        BY <2>2 DEF Named
      <3>3. e.image.spoilt \/ Fit(u, deployed[u].tag, e.image.from)
        BY <1>1, <3>2 DEF Inv, StoreOK, Sound
      <3>4. QED
        BY <3>1, <3>3, TagSays
    <2>3. QED
      BY <2>1, <2>2 DEF RunsSources
  <1>2. QED
    BY <1>1, AlwaysInv, PTL

\* An up rolls out another image only if docker makes another of the sources, or
\* one of the files differs that the hash reads and docker does not get, for any
\* builds and any .dockerignore (contentHash, loadDockerignore).
THEOREM RolloutsJustified == Spec => RolloutsMatter
  <1>1. ASSUME Inv, Inv', NEW u \in Unit, deployed[u] # None, deployed'[u] # None,
               deployed'[u].tag # deployed[u].tag
        PROVE  \/ deployed'[u].wanted # deployed[u].wanted
               \/ \E p \in Extra(Builds[u]) : deployed'[u].tag[p] # deployed[u].tag[p]
    <2>1. Fit(u, deployed[u].tag, deployed[u].wanted)
      BY <1>1 DEF Inv, RefOK
    <2>2. Fit(u, deployed'[u].tag, deployed'[u].wanted)
      BY <1>1 DEF Inv, RefOK
    <2>3. QED
      BY <1>1, <2>1, <2>2, TagsMatter
  <1>2. Inv /\ Inv' => [\A u \in Unit :
                          deployed[u] # None /\ deployed'[u] # None /\ deployed'[u].tag # deployed[u].tag
                          => \/ deployed'[u].wanted # deployed[u].wanted
                             \/ \E p \in Extra(Builds[u]) : deployed'[u].tag[p] # deployed[u].tag[p]]_vars
    BY <1>1
  <1>3. QED
    BY <1>2, AlwaysInv, PTL DEF RolloutsMatter
=============================================================================

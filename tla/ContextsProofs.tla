--------------------------- MODULE ContextsProofs ---------------------------
(***************************************************************************)
(* Theorems about Contexts, for any processes, names, servers and number   *)
(* of commands.  What a command has achieved is stated of one record; a    *)
(* command that nobody runs beside owns the names it is about.             *)
(***************************************************************************)
EXTENDS Contexts, TLAPS

Command == [pc : PC, kind : Kind \cup {None}, name : Name \cup {None}, to : Name \cup {None},
            m : Meta \cup {None}, on : Name \cup {None}, names : SUBSET Name, beside : BOOLEAN]

\* The fields of a command fit the call it makes next.
JobOK(c) ==
  /\ c.pc = "idle" => c.names = {} /\ c.beside = FALSE
  /\ c.pc # "idle" => c.kind \in Kind /\ c.name \in Name /\ c.name \in c.names
  /\ (c.pc # "idle" /\ c.kind = "rename") => c.to \in Name \ {c.name} /\ c.to \in c.names
  /\ (c.pc # "idle" /\ c.kind \in Made) => c.m \in Meta /\ c.m.name = c.name /\ c.names = {c.name}
  /\ c.pc \in {"move", "save", "sync", "deploy"} => c.m \in Meta /\ c.m.name \in c.names
  /\ (c.pc # "idle" /\ c.kind = "up") => c.to \in {None, c.name}
  /\ c.pc \in {"again", "getAgain", "deploy"} => c.kind = "up" /\ c.m \in Meta /\ c.m.name \in c.names
  /\ c.pc \in {"getAgain", "deploy"} => c.on \in Name /\ c.on \in c.names
  /\ c.pc = "save" => c.kind \in Made \/ (c.kind = "rename" /\ c.m.name = c.to)
  /\ c.pc \in {"kubeconfig", "lookUp"} => c.kind \in Made
  /\ c.pc = "removeAll" => c.kind = "rm"
  /\ c.pc = "move" => c.kind = "rename"
  /\ c.pc = "current" => c.kind \in {"rm", "rename"}
  /\ c.pc = "sync" => c.kind \in {"up", "install", "add"}
  /\ c.pc = "setCurrent" => c.kind \in Made \cup {"use", "rm", "rename"}

TypeInv ==
  /\ meta \in [Name -> Meta \cup {None}]
  /\ kubeconfig \in [Name -> Server \cup {None}]
  /\ current \in Name \cup {None}
  /\ proc \in [Process -> Command]
  /\ \A p \in Process : JobOK(proc[p])
  /\ tainted \subseteq Name /\ runs \in 0..MaxRuns

\* Commands about one name run beside each other, and beside means tainted;
\* a command's names are tainted together.
Apart(pr) ==
  \A p, q \in Process : (p # q /\ pr[p].names \cap pr[q].names # {}) => pr[p].beside /\ pr[q].beside

Tainting(pr, t) ==
  \A p \in Process : /\ pr[p].beside => pr[p].names \subseteq t
                     /\ pr[p].names \cap t = {} \/ pr[p].names \subseteq t

Clean(c, t) == c.names \cap t = {}

\* The names a command is in the middle of writing.
Mid(c) ==
  IF c.pc = "kubeconfig" THEN {c.name}
  ELSE IF c.pc = "save" /\ c.kind = "rename" THEN {c.to} ELSE {}

\* A context and its kubeconfig are of one server.
Consistent(n, me, ku) == me[n] # None => me[n].name = n /\ ku[n] = me[n].server

\* What a command c has achieved, alone with its names or with good ones.
Progress(c, t, me, ku) ==
  /\ (c.kind \in Made /\ ~c.beside) =>
       /\ c.pc = "kubeconfig" => me[c.name] = c.m
       /\ c.pc \in {"lookUp", "setCurrent", "sync", "done"} =>
            me[c.name] = c.m /\ ku[c.name] = c.m.server
  /\ Clean(c, t) =>
       /\ c.pc = "move" => me[c.name] = c.m
       /\ (c.pc = "save" /\ c.kind = "rename") => me[c.to] # None /\ ku[c.to] = c.m.server
       /\ (c.pc \in {"current", "setCurrent"} /\ c.kind = "rename") => me[c.to] # None
       /\ (c.pc = "setCurrent" /\ c.kind = "use") => me[c.name] # None
       /\ (c.pc \in {"sync", "again", "getAgain", "deploy"} /\ c.kind = "up") => me[c.name] = c.m /\ c.m.name = c.name
       /\ c.pc \in {"getAgain", "deploy"} => c.on = c.name \/ c.to = None
       /\ c.pc = "deploy" => me[c.on] # None /\ me[c.on].name = c.on

\* The command has taken its name away and still has to look at config.yaml.
Gone(c) ==
  \/ c.kind = "rm" /\ c.pc \in {"current", "setCurrent"}
  \/ c.kind = "rename" /\ c.pc \in {"save", "current", "setCurrent"}

Names(pr, t, me, ku) ==
  \A n \in Name \ t : (\A p \in Process : n \notin Mid(pr[p])) => Consistent(n, me, ku)

Current(pr, t, me, cu) ==
  \A n \in Name \ t : cu = n =>
    me[n] # None \/ \E p \in Process : pr[p].name = n /\ Gone(pr[p])

\* The inductive invariant.
Inv ==
  /\ TypeInv /\ Apart(proc) /\ Tainting(proc, tainted)
  /\ \A p \in Process : Progress(proc[p], tainted, meta, kubeconfig)
  /\ Names(proc, tainted, meta, kubeconfig)
  /\ Current(proc, tainted, meta, current)

-----------------------------------------------------------------------------
LEMMA IdleOK == Idle \in Command /\ JobOK(Idle) /\ Idle.pc = "idle" /\ Idle.names = {} /\ Idle.beside = FALSE
  BY DEF Idle, Command, JobOK, PC, Made, Kind

LEMMA Kinds ==
  /\ Made = {"import", "install", "add"}
  /\ Kind = {"import", "install", "add", "use", "rm", "rename", "up"}
  BY DEF Made, Kind

LEMMA MidNames ==
  ASSUME NEW c, JobOK(c)
  PROVE  Mid(c) \subseteq c.names
  BY DEF Mid, JobOK

\* Whoever runs beside nobody, or with good names, shares none.
LEMMA Alone ==
  ASSUME Inv, NEW p \in Process, ~proc[p].beside \/ Clean(proc[p], tainted)
  PROVE  \A q \in Process \ {p} : proc[q].names \cap proc[p].names = {}
  BY DEF Inv, Apart, Tainting, Clean

LEMMA CleanAlone ==
  ASSUME Inv, NEW p \in Process, proc[p].pc # "idle", Clean(proc[p], tainted)
  PROVE  ~proc[p].beside
  BY DEF Inv, TypeInv, JobOK, Tainting, Clean

\* What a command has achieved stays while its names are left alone.
LEMMA ProgressKept ==
  ASSUME NEW c, JobOK(c), NEW t, NEW me, NEW ku, NEW me2, NEW ku2, Progress(c, t, me, ku),
         (~c.beside \/ Clean(c, t)) => \A n \in c.names : me2[n] = me[n] /\ ku2[n] = ku[n]
  PROVE  Progress(c, t, me2, ku2)
  <1>1. CASE ~c.beside \/ Clean(c, t)
    <2>1. \A n \in c.names : me2[n] = me[n] /\ ku2[n] = ku[n]
      BY <1>1
    <2>2. CASE c.pc = "idle"
      BY <2>2 DEF Progress
    <2>3. CASE c.pc # "idle"
      <3>1. /\ c.name \in c.names /\ (c.kind = "rename" => c.to \in c.names)
            /\ c.pc = "deploy" => c.on \in c.names
        BY <2>3 DEF JobOK
      <3>2. QED
        BY <2>1, <3>1 DEF Progress
    <2>4. QED
      BY <2>2, <2>3
  <1>2. CASE ~(~c.beside \/ Clean(c, t))
    BY <1>2 DEF Progress
  <1>3. QED
    BY <1>1, <1>2

\* A step of p that writes, at most, contexts of its own names, and goes on.
LEMMA OwnStep ==
  ASSUME Inv, NEW p \in Process, NEW c \in Command, JobOK(c),
         c.names = proc[p].names, c.beside = proc[p].beside,
         proc' = [proc EXCEPT ![p] = c], UNCHANGED <<tainted, runs>>,
         meta' \in [Name -> Meta \cup {None}], kubeconfig' \in [Name -> Server \cup {None}],
         current' \in Name \cup {None},
         \A n \in Name \ c.names : meta'[n] = meta[n] /\ kubeconfig'[n] = kubeconfig[n],
         Progress(c, tainted, meta', kubeconfig'),
         Clean(c, tainted) => \A n \in c.names \ Mid(c) : Consistent(n, meta', kubeconfig'),
         \A n \in Name \ tainted : current' = n =>
            \/ meta'[n] # None
            \/ c.name = n /\ Gone(c)
            \/ /\ current = n /\ meta'[n] = meta[n]
               /\ ~(proc[p].name = n /\ Gone(proc[p]))
  PROVE  Inv'
  <1>1. /\ proc \in [Process -> Command] /\ \A q \in Process : JobOK(proc[q])
        /\ tainted \subseteq Name /\ runs \in 0..MaxRuns
    BY DEF Inv, TypeInv
  <1>2. proc'[p] = c /\ \A q \in Process \ {p} : proc'[q] = proc[q]
    BY <1>1
  <1>3. \A q \in Process : proc'[q].names = proc[q].names /\ proc'[q].beside = proc[q].beside
    BY <1>2
  <1>4. TypeInv'
    BY <1>1, <1>2 DEF TypeInv
  <1>5. Apart(proc')
    BY <1>3 DEF Inv, Apart
  <1>6. Tainting(proc', tainted')
    BY <1>3 DEF Inv, Tainting
  <1>7. ASSUME NEW q \in Process PROVE Progress(proc'[q], tainted', meta', kubeconfig')
    <2>1. CASE q = p
      BY <1>2, <2>1
    <2>2. CASE q # p
      <3>1. Progress(proc[q], tainted, meta, kubeconfig) /\ JobOK(proc[q])
        BY <1>1 DEF Inv
      <3>2. ASSUME ~proc[q].beside \/ Clean(proc[q], tainted), NEW n \in proc[q].names
            PROVE  meta'[n] = meta[n] /\ kubeconfig'[n] = kubeconfig[n]
        <4>1. proc[p].names \cap proc[q].names = {}
          BY <2>2, <3>2, Alone
        <4>2. n \in Name \ c.names
          BY <1>1, <3>2, <4>1 DEF Command
        <4>3. QED
          BY <4>2
      <3>3. QED
        BY <1>2, <2>2, <3>1, <3>2, ProgressKept
    <2>3. QED
      BY <2>1, <2>2
  <1>8. Names(proc', tainted', meta', kubeconfig')
    <2>1. SUFFICES ASSUME NEW n \in Name \ tainted, \A q \in Process : n \notin Mid(proc'[q])
                   PROVE  Consistent(n, meta', kubeconfig')
      BY DEF Names
    <2>2. CASE n \in c.names
      <3>1. Clean(c, tainted)
        BY <2>1, <2>2 DEF Inv, Tainting, Clean
      <3>2. n \notin Mid(c)
        BY <1>2, <2>1
      <3>3. QED
        BY <2>2, <3>1, <3>2
    <2>3. CASE n \notin c.names
      <3>1. \A q \in Process : n \notin Mid(proc[q])
        BY <1>1, <1>2, <2>1, <2>3, MidNames
      <3>2. Consistent(n, meta, kubeconfig)
        BY <2>1, <3>1 DEF Inv, Names
      <3>3. QED
        BY <2>1, <2>3, <3>2 DEF Consistent
    <2>4. QED
      BY <2>2, <2>3
  <1>9. Current(proc', tainted', meta', current')
    <2>1. SUFFICES ASSUME NEW n \in Name \ tainted, current' = n, meta'[n] = None
                   PROVE  \E q \in Process : proc'[q].name = n /\ Gone(proc'[q])
      BY DEF Current
    <2>2. CASE c.name = n /\ Gone(c)
      BY <1>2, <2>2
    <2>3. CASE /\ current = n /\ meta'[n] = meta[n]
               /\ ~(proc[p].name = n /\ Gone(proc[p]))
      <3>1. PICK q \in Process : proc[q].name = n /\ Gone(proc[q])
        BY <2>1, <2>3 DEF Inv, Current
      <3>2. q # p
        BY <2>3, <3>1
      <3>3. QED
        BY <1>2, <3>1, <3>2
    <2>4. QED
      BY <2>1, <2>2, <2>3
  <1>10. QED
    BY <1>4, <1>5, <1>6, <1>7, <1>8, <1>9 DEF Inv

\* Names that are good, and that their command is not in the middle of writing.
LEMMA OwnNames ==
  ASSUME Inv, NEW p \in Process, Clean(proc[p], tainted), NEW n \in proc[p].names, n \notin Mid(proc[p])
  PROVE  Consistent(n, meta, kubeconfig)
  <1>1. proc[p] \in Command /\ \A q \in Process : JobOK(proc[q])
    BY DEF Inv, TypeInv
  <1>2. n \in Name \ tainted
    BY <1>1 DEF Clean, Command
  <1>3. ASSUME NEW q \in Process PROVE n \notin Mid(proc[q])
    <2>1. q # p => n \notin proc[q].names
      BY Alone
    <2>2. QED
      BY <1>1, <2>1, MidNames
  <1>4. QED
    BY <1>2, <1>3 DEF Inv, Names

\* A step of p that only takes it to another call.
LEMMA OwnTo ==
  ASSUME Inv, NEW p \in Process, NEW c \in Command, JobOK(c),
         c.names = proc[p].names, c.beside = proc[p].beside, Mid(c) = {},
         proc' = [proc EXCEPT ![p] = c], UNCHANGED <<tainted, runs, meta, kubeconfig, current>>,
         Mid(proc[p]) = {},
         Progress(c, tainted, meta, kubeconfig),
         Gone(proc[p]) => (Gone(c) /\ c.name = proc[p].name) \/ current # proc[p].name
  PROVE  Inv'
  <1>1. /\ meta \in [Name -> Meta \cup {None}] /\ kubeconfig \in [Name -> Server \cup {None}]
        /\ current \in Name \cup {None}
    BY DEF Inv, TypeInv
  <1>2. ASSUME Clean(c, tainted), NEW n \in c.names PROVE Consistent(n, meta, kubeconfig)
    BY <1>2, OwnNames DEF Clean
  <1>3. ASSUME NEW n \in Name \ tainted, current = n, meta[n] = None
        PROVE  (c.name = n /\ Gone(c)) \/ ~(proc[p].name = n /\ Gone(proc[p]))
    BY <1>3
  <1>4. QED
    BY <1>1, <1>2, <1>3, OwnStep

\* The next call of a command.
LEMMA Onward ==
  ASSUME NEW c \in Command, NEW pc \in PC, NEW d, d = [c EXCEPT !.pc = pc]
  PROVE  /\ d \in Command /\ d.pc = pc
         /\ d.kind = c.kind /\ d.name = c.name /\ d.to = c.to /\ d.m = c.m /\ d.on = c.on
         /\ d.names = c.names /\ d.beside = c.beside
  BY DEF Command

LEMMA SomeMeta == None \notin Meta /\ None \notin Name
  BY ContextsAssumption DEF Meta

-----------------------------------------------------------------------------
LEMMA DeployKeeps ==
  ASSUME Inv, NEW p \in Process, Deploy(p)
  PROVE  Inv'
  <1> DEFINE c == [proc[p] EXCEPT !.pc = "done"]
  <1>1. proc[p] \in Command /\ JobOK(proc[p]) /\ proc[p].pc = "deploy"
    BY DEF Inv, TypeInv, Deploy, At
  <1>2. /\ c \in Command /\ c.pc = "done"
        /\ c.kind = proc[p].kind /\ c.name = proc[p].name /\ c.to = proc[p].to /\ c.m = proc[p].m /\ c.on = proc[p].on
        /\ c.names = proc[p].names /\ c.beside = proc[p].beside
    BY <1>1, Onward DEF PC
  <1>3. proc' = [proc EXCEPT ![p] = c] /\ UNCHANGED <<tainted, runs, meta, kubeconfig, current>>
    BY DEF Deploy, To, Goes, store
  <1> HIDE DEF c
  <1>4. proc[p].kind = "up"
    BY <1>1 DEF JobOK
  <1>5. JobOK(c) /\ Mid(c) = {} /\ Mid(proc[p]) = {} /\ ~Gone(proc[p])
    BY <1>1, <1>2, <1>4, Kinds DEF JobOK, Mid, Gone
  <1>6. Progress(c, tainted, meta, kubeconfig)
    BY <1>2, <1>4, Kinds DEF Progress
  <1>7. QED
    BY <1>2, <1>3, <1>5, <1>6, OwnTo

\* A command that fails has written nothing it would have to finish.
LEMMA RefuseKeeps ==
  ASSUME Inv, NEW p \in Process, Refuse(p), proc[p].pc # "idle", Mid(proc[p]) = {}, ~Gone(proc[p])
  PROVE  Inv'
  <1> DEFINE c == [proc[p] EXCEPT !.pc = "failed"]
  <1>1. proc[p] \in Command /\ JobOK(proc[p])
    BY DEF Inv, TypeInv
  <1>2. /\ c \in Command /\ c.pc = "failed"
        /\ c.kind = proc[p].kind /\ c.name = proc[p].name /\ c.to = proc[p].to /\ c.m = proc[p].m /\ c.on = proc[p].on
        /\ c.names = proc[p].names /\ c.beside = proc[p].beside
    BY <1>1, Onward DEF PC
  <1>3. proc' = [proc EXCEPT ![p] = c] /\ UNCHANGED <<tainted, runs, meta, kubeconfig, current>>
    BY DEF Refuse, To, Goes, store
  <1> HIDE DEF c
  <1>4. JobOK(c) /\ Mid(c) = {} /\ Progress(c, tainted, meta, kubeconfig)
    BY <1>1, <1>2 DEF JobOK, Mid, Progress
  <1>5. QED
    BY <1>2, <1>3, <1>4, OwnTo

LEMMA LookUpKeeps ==
  ASSUME Inv, NEW p \in Process, LookUp(p)
  PROVE  Inv'
  <1>1. proc[p] \in Command /\ JobOK(proc[p]) /\ proc[p].pc = "lookUp" /\ proc[p].kind \in Made
    BY DEF Inv, TypeInv, LookUp, At, JobOK
  <1>2. Mid(proc[p]) = {} /\ ~Gone(proc[p])
    BY <1>1 DEF Mid, Gone
  <1>3. CASE meta[proc[p].name] = None
    BY <1>1, <1>2, <1>3, RefuseKeeps DEF LookUp, Refuse
  <1>4. CASE meta[proc[p].name] # None
    <2> DEFINE c == [proc[p] EXCEPT !.pc = "setCurrent"]
    <2>1. /\ c \in Command /\ c.pc = "setCurrent"
          /\ c.kind = proc[p].kind /\ c.name = proc[p].name /\ c.to = proc[p].to /\ c.m = proc[p].m /\ c.on = proc[p].on
          /\ c.names = proc[p].names /\ c.beside = proc[p].beside
      BY <1>1, Onward DEF PC
    <2>2. proc' = [proc EXCEPT ![p] = c] /\ UNCHANGED <<tainted, runs, meta, kubeconfig, current>>
      BY <1>4 DEF LookUp, To, Goes, store
    <2> HIDE DEF c
    <2>3. JobOK(c) /\ Mid(c) = {}
      BY <1>1, <2>1 DEF JobOK, Mid
    <2>4. Progress(proc[p], tainted, meta, kubeconfig)
      BY DEF Inv
    <2>5. Progress(c, tainted, meta, kubeconfig)
      BY <1>1, <2>1, <2>4, Kinds DEF Progress, Clean
    <2>6. QED
      BY <1>2, <2>1, <2>2, <2>3, <2>5, OwnTo
  <1>5. QED
    BY <1>3, <1>4

LEMMA IsCurrentKeeps ==
  ASSUME Inv, NEW p \in Process, IsCurrent(p)
  PROVE  Inv'
  <1> DEFINE pc == IF current = proc[p].name THEN "setCurrent" ELSE "done"
             c == [proc[p] EXCEPT !.pc = pc]
  <1>1. proc[p] \in Command /\ JobOK(proc[p]) /\ proc[p].pc = "current" /\ proc[p].kind \in {"rm", "rename"}
    BY DEF Inv, TypeInv, IsCurrent, At, JobOK
  <1>2. /\ c \in Command /\ c.pc = pc
        /\ c.kind = proc[p].kind /\ c.name = proc[p].name /\ c.to = proc[p].to /\ c.m = proc[p].m /\ c.on = proc[p].on
        /\ c.names = proc[p].names /\ c.beside = proc[p].beside
    BY <1>1, Onward DEF PC
  <1>3. proc' = [proc EXCEPT ![p] = c] /\ UNCHANGED <<tainted, runs, meta, kubeconfig, current>>
    BY DEF IsCurrent, To, Goes, store
  <1> HIDE DEF c
  <1>4. JobOK(c) /\ Mid(c) = {} /\ Mid(proc[p]) = {}
    BY <1>1, <1>2 DEF JobOK, Mid
  <1>5. Progress(proc[p], tainted, meta, kubeconfig)
    BY DEF Inv
  <1>6. Progress(c, tainted, meta, kubeconfig)
    BY <1>1, <1>2, <1>5, Kinds DEF Progress, Clean
  <1>7. Gone(proc[p]) => (Gone(c) /\ c.name = proc[p].name) \/ current # proc[p].name
    BY <1>1, <1>2 DEF Gone
  <1>8. QED
    BY <1>2, <1>3, <1>4, <1>6, <1>7, OwnTo

LEMMA SetCurrentKeeps ==
  ASSUME Inv, NEW p \in Process, SetCurrent(p)
  PROVE  Inv'
  <1> DEFINE pc == IF proc[p].kind \in {"install", "add"} THEN "sync" ELSE "done"
             c == [proc[p] EXCEPT !.pc = pc]
  <1>1. /\ proc[p] \in Command /\ JobOK(proc[p]) /\ proc[p].pc = "setCurrent"
        /\ proc[p].kind \in Made \cup {"use", "rm", "rename"}
        /\ meta \in [Name -> Meta \cup {None}] /\ kubeconfig \in [Name -> Server \cup {None}]
    BY DEF Inv, TypeInv, SetCurrent, At, JobOK
  <1>2. /\ c \in Command /\ c.pc = pc
        /\ c.kind = proc[p].kind /\ c.name = proc[p].name /\ c.to = proc[p].to /\ c.m = proc[p].m /\ c.on = proc[p].on
        /\ c.names = proc[p].names /\ c.beside = proc[p].beside
    BY <1>1, Onward DEF PC
  <1>3. proc' = [proc EXCEPT ![p] = c] /\ UNCHANGED <<tainted, runs, meta, kubeconfig>>
    BY DEF SetCurrent, To, Goes
  <1>4. current' = CASE proc[p].kind = "rm" -> None
                     [] proc[p].kind = "rename" -> proc[p].to
                     [] OTHER -> proc[p].name
    BY DEF SetCurrent
  <1> HIDE DEF c
  <1>5. JobOK(c) /\ Mid(c) = {} /\ Mid(proc[p]) = {}
    BY <1>1, <1>2, Kinds DEF JobOK, Mid
  <1>6. Progress(proc[p], tainted, meta, kubeconfig)
    BY DEF Inv
  <1>7. Progress(c, tainted, meta, kubeconfig)
    BY <1>1, <1>2, <1>6, Kinds DEF Progress, Clean
  <1>8. proc[p].name \in proc[p].names /\ (proc[p].kind = "rename" => proc[p].to \in proc[p].names)
    BY <1>1 DEF JobOK
  <1>9. current' \in Name \cup {None}
    BY <1>1, <1>4, <1>8 DEF Command
  <1>10. ASSUME NEW n \in Name \ tainted, current' = n PROVE meta'[n] # None
    <2>1. proc[p].kind # "rm"
      BY <1>4, <1>10, SomeMeta
    <2>2. n \in proc[p].names
      BY <1>4, <1>8, <1>10, <2>1
    <2>3. Clean(proc[p], tainted)
      BY <1>10, <2>2 DEF Inv, Tainting, Clean
    <2>4. CASE proc[p].kind = "rename"
      BY <1>1, <1>3, <1>4, <1>6, <1>10, <2>3, <2>4 DEF Progress
    <2>5. CASE proc[p].kind = "use"
      BY <1>1, <1>3, <1>4, <1>6, <1>10, <2>3, <2>5 DEF Progress
    <2>6. CASE proc[p].kind \in Made
      <3>1. meta[proc[p].name] = proc[p].m /\ proc[p].m \in Meta
        BY <1>1, <1>6, <2>3, <2>6, CleanAlone DEF Progress, JobOK
      <3>2. QED
        BY <1>3, <1>4, <1>10, <2>6, <3>1, SomeMeta, Kinds
    <2>7. QED
      BY <1>1, <2>1, <2>4, <2>5, <2>6
  <1>11. ASSUME Clean(c, tainted), NEW n \in c.names PROVE Consistent(n, meta', kubeconfig')
    BY <1>2, <1>3, <1>5, <1>11, OwnNames DEF Clean
  <1>12. QED
    BY <1>1, <1>2, <1>3, <1>5, <1>7, <1>9, <1>10, <1>11, OwnStep

LEMMA RemoveAllKeeps ==
  ASSUME Inv, NEW p \in Process, RemoveAll(p)
  PROVE  Inv'
  <1> DEFINE c == [proc[p] EXCEPT !.pc = "current"]
  <1>1. /\ proc[p] \in Command /\ JobOK(proc[p]) /\ proc[p].pc = "removeAll" /\ proc[p].kind = "rm"
        /\ meta \in [Name -> Meta \cup {None}] /\ kubeconfig \in [Name -> Server \cup {None}]
        /\ current \in Name \cup {None}
    BY DEF Inv, TypeInv, RemoveAll, At, JobOK
  <1>2. /\ c \in Command /\ c.pc = "current"
        /\ c.kind = proc[p].kind /\ c.name = proc[p].name /\ c.to = proc[p].to /\ c.m = proc[p].m /\ c.on = proc[p].on
        /\ c.names = proc[p].names /\ c.beside = proc[p].beside
    BY <1>1, Onward DEF PC
  <1>3. proc' = [proc EXCEPT ![p] = c] /\ UNCHANGED <<tainted, runs, current>>
    BY DEF RemoveAll, To, Goes
  <1>4. /\ meta' = [meta EXCEPT ![c.name] = None]
        /\ kubeconfig' = [kubeconfig EXCEPT ![c.name] = None]
    BY DEF RemoveAll
  <1> HIDE DEF c
  <1>5. c.name \in Name /\ c.name \in c.names
    BY <1>1, <1>2 DEF JobOK
  <1>6. JobOK(c) /\ Mid(proc[p]) = {} /\ Progress(c, tainted, meta', kubeconfig') /\ Gone(c)
    BY <1>1, <1>2, Kinds DEF JobOK, Mid, Progress, Gone
  <1>7. /\ meta' \in [Name -> Meta \cup {None}] /\ kubeconfig' \in [Name -> Server \cup {None}]
        /\ \A n \in Name \ {c.name} : meta'[n] = meta[n] /\ kubeconfig'[n] = kubeconfig[n]
        /\ meta'[c.name] = None
    BY <1>1, <1>4, <1>5
  <1>8. ASSUME Clean(c, tainted), NEW n \in c.names PROVE Consistent(n, meta', kubeconfig')
    <2>1. CASE n = c.name
      BY <1>7, <2>1 DEF Consistent
    <2>2. CASE n # c.name
      <3>1. Consistent(n, meta, kubeconfig)
        BY <1>2, <1>6, <1>8, OwnNames DEF Clean
      <3>2. n \in Name \ {c.name}
        BY <1>2, <2>2 DEF Command
      <3>3. QED
        BY <1>7, <3>1, <3>2 DEF Consistent
    <2>3. QED
      BY <2>1, <2>2
  <1>9. ASSUME NEW n \in Name \ tainted, current' = n
        PROVE  \/ meta'[n] # None
               \/ c.name = n /\ Gone(c)
               \/ /\ current = n /\ meta'[n] = meta[n]
                  /\ ~(proc[p].name = n /\ Gone(proc[p]))
    BY <1>2, <1>3, <1>6, <1>7, <1>9
  <1>10. QED
    BY <1>1, <1>2, <1>3, <1>5, <1>6, <1>7, <1>8, <1>9, OwnStep

LEMMA SaveKeeps ==
  ASSUME Inv, NEW p \in Process, Save(p)
  PROVE  Inv'
  <1> DEFINE pc == IF proc[p].kind = "rename" THEN "current" ELSE "kubeconfig"
             c == [proc[p] EXCEPT !.pc = pc]
  <1>1. /\ proc[p] \in Command /\ JobOK(proc[p]) /\ proc[p].pc = "save"
        /\ proc[p].kind \in Made \cup {"rename"}
        /\ meta \in [Name -> Meta \cup {None}] /\ kubeconfig \in [Name -> Server \cup {None}]
        /\ current \in Name \cup {None}
    BY DEF Inv, TypeInv, Save, At, JobOK
  <1>2. /\ c \in Command /\ c.pc = pc
        /\ c.kind = proc[p].kind /\ c.name = proc[p].name /\ c.to = proc[p].to /\ c.m = proc[p].m /\ c.on = proc[p].on
        /\ c.names = proc[p].names /\ c.beside = proc[p].beside
    BY <1>1, Onward DEF PC
  <1>3. proc' = [proc EXCEPT ![p] = c] /\ UNCHANGED <<tainted, runs, current, kubeconfig>>
    BY DEF Save, To, Goes
  <1>4. meta' = [meta EXCEPT ![c.m.name] = c.m]
    BY DEF Save
  <1> HIDE DEF c
  <1>5. c.m \in Meta /\ c.m.name \in Name /\ c.m.name \in c.names
    BY <1>1, <1>2 DEF JobOK, Command
  <1>6. /\ meta' \in [Name -> Meta \cup {None}]
        /\ \A n \in Name \ {c.m.name} : meta'[n] = meta[n]
        /\ meta'[c.m.name] = c.m /\ c.m # None
    BY <1>1, <1>4, <1>5, SomeMeta
  <1>7. /\ c.kind \in Made => c.pc = "kubeconfig" /\ c.m.name = c.name /\ c.names = {c.name} /\ ~Gone(proc[p])
        /\ c.kind = "rename" => c.pc = "current" /\ c.m.name = c.to /\ Mid(proc[p]) = {c.to} /\ Gone(c)
        /\ c.kind \in Made \/ c.kind = "rename"
        /\ c.kind = "rename" => c.kind \notin Made
    BY <1>1, <1>2, Kinds DEF JobOK, Gone, Mid
  <1>8. JobOK(c)
    BY <1>1, <1>2, Kinds DEF JobOK
  <1>9. Progress(proc[p], tainted, meta, kubeconfig)
    BY DEF Inv
  <1>10. Progress(c, tainted, meta', kubeconfig')
    BY <1>6, <1>7 DEF Progress
  <1>11. ASSUME Clean(c, tainted), NEW n \in c.names \ Mid(c) PROVE Consistent(n, meta', kubeconfig')
    <2>1. c.kind = "rename"
      BY <1>7, <1>11 DEF Mid
    <2>2. CASE n = c.to
      <3>1. kubeconfig[c.to] = c.m.server
        BY <1>1, <1>2, <1>9, <1>11, <2>1 DEF Progress, Clean
      <3>2. QED
        BY <1>3, <1>6, <1>7, <2>1, <2>2, <3>1 DEF Consistent
    <2>3. CASE n # c.to
      <3>1. Consistent(n, meta, kubeconfig)
        BY <1>2, <1>7, <1>11, <2>1, <2>3, OwnNames DEF Clean
      <3>2. n \in Name \ {c.m.name}
        BY <1>2, <1>7, <2>1, <2>3 DEF Command
      <3>3. QED
        BY <1>3, <1>6, <3>1, <3>2 DEF Consistent
    <2>4. QED
      BY <2>2, <2>3
  <1>12. ASSUME NEW n \in Name \ tainted, current' = n
         PROVE  \/ meta'[n] # None
                \/ c.name = n /\ Gone(c)
                \/ /\ current = n /\ meta'[n] = meta[n]
                   /\ ~(proc[p].name = n /\ Gone(proc[p]))
    BY <1>2, <1>3, <1>6, <1>7, <1>12
  <1>13. QED
    BY <1>1, <1>2, <1>3, <1>5, <1>6, <1>8, <1>10, <1>11, <1>12, OwnStep

LEMMA WriteKubeconfigKeeps ==
  ASSUME Inv, NEW p \in Process, WriteKubeconfig(p)
  PROVE  Inv'
  <1> DEFINE pc == IF ~Exists(proc[p].name) THEN "failed" ELSE "lookUp"
             c == [proc[p] EXCEPT !.pc = pc]
  <1>1. /\ proc[p] \in Command /\ JobOK(proc[p]) /\ proc[p].pc = "kubeconfig" /\ proc[p].kind \in Made
        /\ meta \in [Name -> Meta \cup {None}] /\ kubeconfig \in [Name -> Server \cup {None}]
        /\ current \in Name \cup {None}
    BY DEF Inv, TypeInv, WriteKubeconfig, At, JobOK
  <1>2. /\ c \in Command /\ c.pc = pc
        /\ c.kind = proc[p].kind /\ c.name = proc[p].name /\ c.to = proc[p].to /\ c.m = proc[p].m /\ c.on = proc[p].on
        /\ c.names = proc[p].names /\ c.beside = proc[p].beside
    BY <1>1, Onward DEF PC
  <1>3. proc' = [proc EXCEPT ![p] = c] /\ UNCHANGED <<tainted, runs, current, meta>>
    BY DEF WriteKubeconfig, Refuse, To, Goes, store
  <1>4. /\ ~Exists(c.name) => kubeconfig' = kubeconfig
        /\ Exists(c.name) => kubeconfig' = [kubeconfig EXCEPT ![c.name] = c.m.server]
    BY DEF WriteKubeconfig, Refuse, store
  <1> HIDE DEF c
  <1>5. c.name \in Name /\ c.m \in Meta /\ c.m.server \in Server /\ c.m.name = c.name /\ c.names = {c.name}
    BY <1>1, <1>2 DEF JobOK, Meta
  <1>6. /\ kubeconfig' \in [Name -> Server \cup {None}]
        /\ \A n \in Name \ {c.name} : kubeconfig'[n] = kubeconfig[n]
        /\ Exists(c.name) => kubeconfig'[c.name] = c.m.server
    BY <1>1, <1>4, <1>5
  <1>7. Progress(proc[p], tainted, meta, kubeconfig)
    BY DEF Inv
  <1>8. c.beside \/ (meta[c.name] = c.m /\ Exists(c.name))
    BY <1>1, <1>2, <1>5, <1>7, SomeMeta DEF Progress, Exists
  <1>9. JobOK(c) /\ Mid(c) = {}
    BY <1>1, <1>2 DEF JobOK, Mid
  <1>10. Progress(c, tainted, meta', kubeconfig')
    BY <1>1, <1>2, <1>3, <1>6, <1>8, Kinds DEF Progress
  <1>11. ASSUME Clean(c, tainted), NEW n \in c.names PROVE Consistent(n, meta', kubeconfig')
    <2>1. ~proc[p].beside
      BY <1>1, <1>2, <1>11, CleanAlone DEF Clean
    <2>2. QED
      BY <1>2, <1>3, <1>5, <1>6, <1>8, <2>1 DEF Consistent
  <1>12. ~Gone(proc[p])
    BY <1>1 DEF Gone
  <1>13. ASSUME NEW n \in Name \ tainted, current' = n
         PROVE  \/ meta'[n] # None
                \/ c.name = n /\ Gone(c)
                \/ /\ current = n /\ meta'[n] = meta[n]
                   /\ ~(proc[p].name = n /\ Gone(proc[p]))
    BY <1>3, <1>12, <1>13
  <1>14. /\ meta' \in [Name -> Meta \cup {None}] /\ current' \in Name \cup {None}
         /\ \A n \in Name \ c.names : meta'[n] = meta[n] /\ kubeconfig'[n] = kubeconfig[n]
    BY <1>1, <1>3, <1>5, <1>6
  <1>15. QED
    BY <1>2, <1>3, <1>6, <1>9, <1>10, <1>11, <1>13, <1>14, OwnStep

LEMMA SyncKeeps ==
  ASSUME Inv, NEW p \in Process, Sync(p)
  PROVE  Inv'
  <1> DEFINE pc == IF proc[p].kind = "up" THEN "again" ELSE "done"
             c == [proc[p] EXCEPT !.pc = pc]
  <1>1. /\ proc[p] \in Command /\ JobOK(proc[p]) /\ proc[p].pc = "sync"
        /\ proc[p].kind \in {"up", "install", "add"}
        /\ meta \in [Name -> Meta \cup {None}] /\ kubeconfig \in [Name -> Server \cup {None}]
        /\ current \in Name \cup {None}
    BY DEF Inv, TypeInv, Sync, At, JobOK
  <1>2. /\ c \in Command /\ c.pc = pc
        /\ c.kind = proc[p].kind /\ c.name = proc[p].name /\ c.to = proc[p].to /\ c.m = proc[p].m /\ c.on = proc[p].on
        /\ c.names = proc[p].names /\ c.beside = proc[p].beside
    BY <1>1, Onward DEF PC
  <1>3. proc' = [proc EXCEPT ![p] = c] /\ UNCHANGED <<tainted, runs, current, kubeconfig>>
    BY DEF Sync, To, Goes
  <1>4. meta' \in {meta, [meta EXCEPT ![c.m.name] = c.m]}
    BY DEF Sync
  <1> HIDE DEF c
  <1>5. c.m \in Meta /\ c.m # None /\ c.m.name \in Name /\ c.m.name \in c.names /\ c.name \in c.names
    BY <1>1, <1>2, SomeMeta DEF JobOK, Command
  <1>6. /\ meta' \in [Name -> Meta \cup {None}]
        /\ \A n \in Name \ {c.m.name} : meta'[n] = meta[n]
        /\ meta'[c.m.name] \in {meta[c.m.name], c.m}
    BY <1>1, <1>4, <1>5
  <1>7. Progress(proc[p], tainted, meta, kubeconfig)
    BY DEF Inv
  <1>8. (~c.beside \/ Clean(c, tainted)) => (c.kind = "up" /\ ~Clean(c, tainted)) \/ (meta[c.m.name] = c.m /\ c.m.name = c.name)
    <2>1. CASE c.kind = "up"
      BY <1>1, <1>2, <1>7, <2>1 DEF Progress, Clean
    <2>2. CASE c.kind \in Made
      <3>1. c.m.name = c.name
        BY <1>1, <1>2, <2>2 DEF JobOK
      <3>2. Clean(c, tainted) => ~c.beside
        BY <1>1, <1>2, CleanAlone DEF Clean
      <3>3. QED
        BY <1>1, <1>2, <1>7, <2>2, <3>1, <3>2 DEF Progress
    <2>3. QED
      BY <1>1, <1>2, <2>1, <2>2, Kinds
  <1>9. JobOK(c) /\ Mid(c) = {} /\ Mid(proc[p]) = {} /\ ~Gone(proc[p])
    BY <1>1, <1>2, Kinds DEF JobOK, Mid, Gone
  <1>10. ASSUME Clean(c, tainted) PROVE meta' = meta
    <2>1. meta[c.m.name] = c.m
      BY <1>2, <1>8, <1>10
    <2>2. QED
      BY <1>1, <1>4, <1>5, <2>1
  <1>11. Progress(c, tainted, meta', kubeconfig')
    <2>1. CASE c.kind = "up"
      BY <1>1, <1>2, <1>3, <1>7, <1>10, <2>1, Kinds DEF Progress, Clean
    <2>2. CASE c.kind \in Made
      <3>1. c.pc = "done"
        BY <1>2, <2>2, Kinds
      <3>2. ~c.beside => meta[c.name] = c.m /\ kubeconfig[c.name] = c.m.server
        BY <1>1, <1>2, <1>7, <2>2 DEF Progress
      <3>3. ~c.beside => meta'[c.name] = c.m
        BY <1>4, <1>1, <1>2, <2>2, <3>2 DEF JobOK
      <3>4. QED
        BY <1>3, <2>2, <3>1, <3>2, <3>3 DEF Progress
    <2>3. QED
      BY <1>1, <1>2, <2>1, <2>2, Kinds
  <1>12. ASSUME Clean(c, tainted), NEW n \in c.names PROVE Consistent(n, meta', kubeconfig')
    BY <1>2, <1>3, <1>9, <1>10, <1>12, OwnNames DEF Clean
  <1>13. ASSUME NEW n \in Name \ tainted, current' = n
         PROVE  \/ meta'[n] # None
                \/ c.name = n /\ Gone(c)
                \/ /\ current = n /\ meta'[n] = meta[n]
                   /\ ~(proc[p].name = n /\ Gone(proc[p]))
    BY <1>3, <1>5, <1>6, <1>9, <1>13
  <1>14. /\ current' \in Name \cup {None} /\ kubeconfig' \in [Name -> Server \cup {None}]
         /\ \A n \in Name \ c.names : meta'[n] = meta[n] /\ kubeconfig'[n] = kubeconfig[n]
    BY <1>1, <1>3, <1>5, <1>6
  <1>15. QED
    BY <1>2, <1>3, <1>6, <1>9, <1>11, <1>12, <1>13, <1>14, OwnStep

LEMMA MoveKeeps ==
  ASSUME Inv, NEW p \in Process, Move(p)
  PROVE  Inv'
  <1>1. /\ proc[p] \in Command /\ JobOK(proc[p]) /\ proc[p].pc = "move" /\ proc[p].kind = "rename"
        /\ meta \in [Name -> Meta \cup {None}] /\ kubeconfig \in [Name -> Server \cup {None}]
        /\ current \in Name \cup {None}
    BY DEF Inv, TypeInv, Move, At, JobOK
  <1>2. Mid(proc[p]) = {} /\ ~Gone(proc[p])
    BY <1>1 DEF Mid, Gone
  <1>3. CASE Exists(proc[p].to) \/ ~Exists(proc[p].name)
    BY <1>1, <1>2, <1>3, RefuseKeeps DEF Move
  <1>4. CASE ~(Exists(proc[p].to) \/ ~Exists(proc[p].name))
    <2> DEFINE c == [proc[p] EXCEPT !.m.name = proc[p].to, !.pc = "save"]
    <2>1. /\ proc[p].m \in Meta /\ proc[p].to \in Name /\ proc[p].name \in Name /\ proc[p].to # proc[p].name
          /\ proc[p].to \in proc[p].names /\ proc[p].name \in proc[p].names
      BY <1>1 DEF JobOK
    <2>2. /\ c \in Command /\ c.pc = "save"
          /\ c.kind = proc[p].kind /\ c.name = proc[p].name /\ c.to = proc[p].to
          /\ c.names = proc[p].names /\ c.beside = proc[p].beside
          /\ c.m \in Meta /\ c.m.name = c.to /\ c.m.server = proc[p].m.server
      BY <1>1, <2>1 DEF Command, Meta, PC
    <2>3. proc' = [proc EXCEPT ![p] = c] /\ UNCHANGED <<tainted, runs, current>>
      BY <1>4 DEF Move, Goes
    <2>4. /\ meta' = [meta EXCEPT ![c.to] = meta[c.name], ![c.name] = None]
          /\ kubeconfig' = [kubeconfig EXCEPT ![c.to] = kubeconfig[c.name], ![c.name] = None]
      BY <1>4 DEF Move
    <2> HIDE DEF c
    <2>5. /\ meta' \in [Name -> Meta \cup {None}] /\ kubeconfig' \in [Name -> Server \cup {None}]
          /\ meta'[c.to] = meta[c.name] /\ kubeconfig'[c.to] = kubeconfig[c.name]
          /\ meta'[c.name] = None
          /\ \A n \in Name \ {c.name, c.to} : meta'[n] = meta[n] /\ kubeconfig'[n] = kubeconfig[n]
      BY <1>1, <2>1, <2>2, <2>4
    <2>6. JobOK(c) /\ Mid(c) = {c.to} /\ Gone(c)
      BY <1>1, <2>1, <2>2, Kinds DEF JobOK, Mid, Gone
    <2>7. ASSUME Clean(c, tainted) PROVE meta'[c.to] # None /\ kubeconfig'[c.to] = c.m.server
      <3>1. meta[c.name] = proc[p].m
        BY <1>1, <2>2, <2>7 DEF Inv, Progress, Clean
      <3>2. Consistent(c.name, meta, kubeconfig)
        BY <1>2, <2>1, <2>2, <2>7, OwnNames DEF Clean
      <3>3. QED
        BY <2>1, <2>2, <2>5, <3>1, <3>2, SomeMeta DEF Consistent
    <2>8. Progress(c, tainted, meta', kubeconfig')
      BY <1>1, <2>2, <2>7, Kinds DEF Progress
    <2>9. ASSUME Clean(c, tainted), NEW n \in c.names \ Mid(c) PROVE Consistent(n, meta', kubeconfig')
      <3>1. CASE n = c.name
        BY <2>5, <3>1 DEF Consistent
      <3>2. CASE n # c.name
        <4>1. Consistent(n, meta, kubeconfig)
          BY <1>2, <2>2, <2>9, OwnNames DEF Clean
        <4>2. n \in Name \ {c.name, c.to}
          BY <2>2, <2>6, <2>9, <3>2 DEF Command
        <4>3. QED
          BY <2>5, <4>1, <4>2 DEF Consistent
      <3>3. QED
        BY <3>1, <3>2
    <2>10. ASSUME NEW n \in Name \ tainted, current' = n
           PROVE  \/ meta'[n] # None
                  \/ c.name = n /\ Gone(c)
                  \/ /\ current = n /\ meta'[n] = meta[n]
                     /\ ~(proc[p].name = n /\ Gone(proc[p]))
      <3>1. CASE n = c.to
        <4>1. Clean(c, tainted)
          BY <2>1, <2>2, <2>10, <3>1 DEF Inv, Tainting, Clean
        <4>2. QED
          BY <2>7, <3>1, <4>1
      <3>2. CASE n # c.to
        BY <1>2, <2>3, <2>5, <2>6, <2>10, <3>2
      <3>3. QED
        BY <3>1, <3>2
    <2>11. /\ current' \in Name \cup {None}
           /\ \A n \in Name \ c.names : meta'[n] = meta[n] /\ kubeconfig'[n] = kubeconfig[n]
      BY <1>1, <2>1, <2>2, <2>3, <2>5
    <2>12. QED
      BY <2>2, <2>3, <2>5, <2>6, <2>8, <2>9, <2>10, <2>11, OwnStep
  <1>5. QED
    BY <1>3, <1>4

-----------------------------------------------------------------------------
\* Spoilt names or company can only ask less of what a command has achieved.
LEMMA ProgressLess ==
  ASSUME NEW c, NEW d, NEW t, NEW u, NEW me, NEW ku, Progress(c, t, me, ku),
         d.pc = c.pc, d.kind = c.kind, d.name = c.name, d.to = c.to, d.m = c.m, d.on = c.on,
         ~d.beside => ~c.beside, Clean(d, u) => Clean(c, t)
  PROVE  Progress(d, u, me, ku)
  BY DEF Progress

\* A command takes up names: all of them are spoilt, or nobody else's.
LEMMA TakesKeeps ==
  ASSUME Inv, NEW p \in Process, NEW c \in Command, NEW ns \in SUBSET Name,
         Takes(p, c, ns), UNCHANGED <<meta, kubeconfig, current>>, runs' \in 0..MaxRuns,
         c.names = proc[p].names, c.beside = proc[p].beside,
         Mid(proc[p]) = {}, ~Gone(proc[p]),
         \A d \in Command :
           (/\ d.pc = c.pc /\ d.kind = c.kind /\ d.name = c.name /\ d.to = c.to /\ d.m = c.m /\ d.on = c.on
            /\ d.names = c.names \cup ns) => JobOK(d) /\ Progress(d, tainted, meta, kubeconfig)
  PROVE  Inv'
  <1> DEFINE all == c.names \cup ns
             hit == {q \in Process \ {p} : proc[q].names \cap all # {}}
             met == all \cup UNION {proc[q].names : q \in hit}
             j == [c EXCEPT !.names = all, !.beside = @ \/ hit # {}]
             with(q) == [proc[q] EXCEPT !.beside = TRUE]
  <1>1. /\ proc \in [Process -> Command] /\ \A q \in Process : JobOK(proc[q])
        /\ tainted \subseteq Name /\ all \subseteq Name
    BY DEF Inv, TypeInv, Command
  <1>2. /\ j \in Command /\ j.names = all /\ j.beside = (c.beside \/ hit # {})
        /\ j.pc = c.pc /\ j.kind = c.kind /\ j.name = c.name /\ j.to = c.to /\ j.m = c.m /\ j.on = c.on
    <2>1. j.beside \in BOOLEAN /\ j.names = all /\ j.beside = (c.beside \/ hit # {})
      BY DEF Command
    <2>2. j.pc = c.pc /\ j.kind = c.kind /\ j.name = c.name /\ j.to = c.to /\ j.m = c.m /\ j.on = c.on
      BY DEF Command
    <2>3. j \in Command
      BY <1>1, <2>1 DEF Command
    <2>4. QED
      BY <2>1, <2>2, <2>3
  <1>3. proc' = [q \in Process |-> IF q = p THEN j ELSE IF q \in hit THEN with(q) ELSE proc[q]]
    BY DEF Takes
  <1>4. tainted' = tainted \cup (IF hit # {} \/ all \cap tainted # {} THEN met ELSE {})
    BY DEF Takes
  <1> HIDE DEF j
  <1>5. JobOK(j) /\ Progress(j, tainted, meta, kubeconfig)
    BY <1>2
  <1>6. ASSUME NEW q \in Process \ {p}
        PROVE  /\ proc'[q] \in Command /\ JobOK(proc'[q])
               /\ proc'[q].pc = proc[q].pc /\ proc'[q].kind = proc[q].kind /\ proc'[q].name = proc[q].name
               /\ proc'[q].to = proc[q].to /\ proc'[q].m = proc[q].m /\ proc'[q].on = proc[q].on
               /\ proc'[q].names = proc[q].names
               /\ proc'[q].beside = (proc[q].beside \/ q \in hit)
    <2>1. CASE q \in hit
      <3>1. proc'[q] = with(q) /\ proc[q] \in Command /\ JobOK(proc[q])
        BY <1>1, <1>3, <2>1
      <3>2. proc[q].pc # "idle"
        BY <2>1, <3>1 DEF JobOK
      <3>3. /\ with(q).pc = proc[q].pc /\ with(q).kind = proc[q].kind /\ with(q).name = proc[q].name
            /\ with(q).to = proc[q].to /\ with(q).m = proc[q].m /\ with(q).on = proc[q].on
            /\ with(q).names = proc[q].names
            /\ with(q).beside = TRUE /\ with(q) \in Command
        BY <3>1 DEF Command
      <3> HIDE DEF with
      <3>4. JobOK(with(q))
        BY <3>1, <3>2, <3>3 DEF JobOK
      <3>5. QED
        BY <2>1, <3>1, <3>3, <3>4
    <2>2. CASE q \notin hit
      <3>1. proc'[q] = proc[q] /\ proc[q].beside \in BOOLEAN
        BY <1>1, <1>3, <2>2 DEF Command
      <3>2. QED
        BY <1>1, <2>2, <3>1
    <2>3. QED
      BY <2>1, <2>2
  <1>7. proc'[p] = j
    BY <1>3
  <1>8. proc' \in [Process -> Command]
    <2>1. \A q \in Process : proc'[q] \in Command
      BY <1>2, <1>6, <1>7
    <2>2. proc' = [q \in Process |-> proc'[q]]
      BY <1>3
    <2>3. QED
      BY <2>1, <2>2
  <1>9. \A q \in hit : q \in Process \ {p} /\ proc[q].names \subseteq met /\ proc[q].names \cap all # {}
    OBVIOUS
  <1>10. \A q \in Process \ {p} : q \notin hit => proc[q].names \cap all = {}
    OBVIOUS
  <1>11. \A x \in met : x \in all \/ \E q \in hit : x \in proc[q].names
    OBVIOUS
  <1>12. all \subseteq met /\ met \subseteq Name
    BY <1>1 DEF Command
  <1> HIDE DEF hit, met, with, all
  <1>13. TypeInv'
    <2>1. \A q \in Process : JobOK(proc'[q])
      BY <1>6, <1>7, <1>5
    <2>2. tainted' \subseteq Name
      BY <1>1, <1>4, <1>12
    <2>3. QED
      BY <1>8, <2>1, <2>2 DEF TypeInv, Inv
  <1>14. tainted \subseteq tainted'
    BY <1>4
  <1>15. Apart(proc')
    <2>1. SUFFICES ASSUME NEW q \in Process, NEW r \in Process, q # r, proc'[q].names \cap proc'[r].names # {}
                   PROVE  proc'[q].beside
      BY DEF Apart
    <2>2. CASE q = p
      <3>1. proc[r].names \cap all # {}
        BY <1>2, <1>6, <1>7, <2>1, <2>2
      <3>2. r \in hit
        BY <1>10, <2>1, <2>2, <3>1
      <3>3. QED
        BY <1>2, <1>7, <2>2, <3>2
    <2>3. CASE r = p
      <3>1. proc[q].names \cap all # {}
        BY <1>2, <1>6, <1>7, <2>1, <2>3
      <3>2. q \in hit
        BY <1>10, <2>1, <2>3, <3>1
      <3>3. QED
        BY <1>6, <2>1, <2>3, <3>2
    <2>4. CASE q # p /\ r # p
      <3>1. proc[q].names \cap proc[r].names # {}
        BY <1>6, <2>1, <2>4
      <3>2. proc[q].beside
        BY <2>1, <3>1 DEF Inv, Apart
      <3>3. QED
        BY <1>6, <2>4, <3>2
    <2>5. QED
      BY <2>2, <2>3, <2>4
  <1>16. Tainting(proc', tainted')
    <2>1. SUFFICES ASSUME NEW q \in Process
                   PROVE  /\ proc'[q].beside => proc'[q].names \subseteq tainted'
                          /\ proc'[q].names \cap tainted' = {} \/ proc'[q].names \subseteq tainted'
      BY DEF Tainting
    <2>2. CASE q = p
      <3>1. CASE hit # {} \/ all \cap tainted # {}
        BY <1>2, <1>4, <1>7, <1>12, <2>2, <3>1
      <3>2. CASE ~(hit # {} \/ all \cap tainted # {})
        <4>1. tainted' = tainted /\ all \cap tainted = {} /\ hit = {}
          BY <1>4, <3>2
        <4>2. ~c.beside
          <5>1. proc[p].names \subseteq all
            BY DEF all
          <5>2. proc[p].beside => proc[p].names \subseteq tainted
            BY DEF Inv, Tainting
          <5>3. proc[p].beside => proc[p].names # {}
            BY <1>1 DEF JobOK
          <5>4. QED
            BY <4>1, <5>1, <5>2, <5>3
        <4>3. QED
          BY <1>2, <1>7, <2>2, <4>1, <4>2
      <3>3. QED
        BY <3>1, <3>2
    <2>3. CASE q \in hit
      BY <1>4, <1>6, <1>9, <2>3
    <2>4. CASE q # p /\ q \notin hit
      <3>1. /\ proc'[q].names = proc[q].names /\ proc'[q].beside = proc[q].beside
            /\ proc[q].beside => proc[q].names \subseteq tainted
            /\ proc[q].names \cap tainted = {} \/ proc[q].names \subseteq tainted
        BY <1>6, <1>8, <1>1, <2>4 DEF Inv, Tainting, Command
      <3>2. CASE proc[q].names \subseteq tainted
        BY <1>14, <3>1, <3>2
      <3>3. CASE proc[q].names \cap tainted = {} /\ ~proc[q].beside
        <4>1. proc[q].names \cap all = {}
          BY <1>10, <2>4
        <4>2. ASSUME NEW r \in hit PROVE proc[q].names \cap proc[r].names = {}
          BY <1>9, <2>4, <3>3, <4>2 DEF Inv, Apart
        <4>3. proc[q].names \cap met = {}
          BY <1>11, <4>1, <4>2
        <4>4. proc[q].names \cap tainted' = {}
          BY <1>4, <3>3, <4>3
        <4>5. QED
          BY <3>1, <3>3, <4>4
      <3>4. QED
        BY <3>1, <3>2, <3>3
    <2>5. QED
      BY <2>2, <2>3, <2>4
  <1>17. ASSUME NEW q \in Process PROVE Progress(proc'[q], tainted', meta', kubeconfig')
    <2>1. CASE q = p
      <3>1. Clean(j, tainted') => Clean(j, tainted)
        BY <1>14 DEF Clean
      <3>2. Progress(j, tainted', meta, kubeconfig)
        BY <1>5, <3>1, ProgressLess
      <3>3. QED
        BY <1>7, <2>1, <3>2
    <2>2. CASE q # p
      <3>1. Progress(proc[q], tainted, meta, kubeconfig)
        BY DEF Inv
      <3>2. Clean(proc'[q], tainted') => Clean(proc[q], tainted)
        BY <1>6, <1>14, <2>2 DEF Clean
      <3>3. ~proc'[q].beside => ~proc[q].beside
        BY <1>6, <2>2
      <3>4. Progress(proc'[q], tainted', meta, kubeconfig)
        BY <1>6, <2>2, <3>1, <3>2, <3>3, ProgressLess
      <3>5. QED
        BY <3>4
    <2>3. QED
      BY <2>1, <2>2
  <1>18. Names(proc', tainted', meta', kubeconfig')
    <2>1. SUFFICES ASSUME NEW n \in Name \ tainted', \A q \in Process : n \notin Mid(proc'[q])
                   PROVE  Consistent(n, meta, kubeconfig)
      BY DEF Names
    <2>2. ASSUME NEW q \in Process PROVE n \notin Mid(proc[q])
      <3>1. q # p => Mid(proc'[q]) = Mid(proc[q])
        BY <1>6 DEF Mid
      <3>2. QED
        BY <2>1, <3>1
    <2>3. QED
      BY <1>14, <2>1, <2>2 DEF Inv, Names
  <1>19. Current(proc', tainted', meta', current')
    <2>1. SUFFICES ASSUME NEW n \in Name \ tainted', current = n, meta[n] = None
                   PROVE  \E q \in Process : proc'[q].name = n /\ Gone(proc'[q])
      BY DEF Current
    <2>2. PICK q \in Process : proc[q].name = n /\ Gone(proc[q])
      BY <1>14, <2>1 DEF Inv, Current
    <2>3. q # p
      BY <2>2
    <2>4. proc'[q].name = n /\ Gone(proc'[q])
      BY <1>6, <2>2, <2>3 DEF Gone
    <2>5. QED
      BY <2>4
  <1>20. QED
    BY <1>13, <1>15, <1>16, <1>17, <1>18, <1>19 DEF Inv

LEMMA StartKeeps ==
  ASSUME Inv, NEW p \in Process, Start(p)
  PROVE  Inv'
  <1>1. PICK k \in Kind, n \in Name, to \in Name \cup {None}, m \in Meta \cup {None} :
          /\ Begin(p, k, n, to, m)
          /\ k = "rename" => to \in Name \ {n}
          /\ k \notin {"rename", "up"} => to = None
          /\ k = "up" => to \in {None, n}
          /\ k \in Made => m \in Meta /\ m.name = n
    <2>1. CASE \E k \in {"use", "rm"}, n \in Name : Begin(p, k, n, None, None)
      BY <2>1, Kinds
    <2>5. CASE \E n \in Name : Begin(p, "up", n, n, None)
      <3>1. PICK n \in Name : Begin(p, "up", n, n, None)
        BY <2>5
      <3>2. "up" \in Kind /\ "up" \notin Made
        BY Kinds
      <3>3. QED
        BY <3>1, <3>2
    <2>6. CASE current # None /\ Begin(p, "up", current, None, None)
      <3>1. current \in Name
        BY <2>6 DEF Inv, TypeInv
      <3>2. "up" \in Kind /\ "up" \notin Made
        BY Kinds
      <3>3. QED
        BY <2>6, <3>1, <3>2
    <2>2. CASE \E n, to \in Name : n # to /\ Begin(p, "rename", n, to, None)
      <3>1. PICK n \in Name : \E to \in Name : n # to /\ Begin(p, "rename", n, to, None)
        BY <2>2
      <3>2. PICK to \in Name : n # to /\ Begin(p, "rename", n, to, None)
        BY <3>1
      <3>3. "rename" \in Kind /\ "rename" \notin Made
        BY Kinds
      <3>4. QED
        BY <3>2, <3>3
    <2>3. CASE \E k \in Made, n \in Name, s \in Server : Begin(p, k, n, None, [name |-> n, server |-> s])
      <3>1. PICK k \in Made, n \in Name : \E s \in Server : Begin(p, k, n, None, [name |-> n, server |-> s])
        BY <2>3
      <3>2. PICK s \in Server : Begin(p, k, n, None, [name |-> n, server |-> s])
        BY <3>1
      <3>3. [name |-> n, server |-> s] \in Meta /\ k \in Kind /\ k # "rename"
        BY <3>2, Kinds DEF Meta
      <3>4. QED
        BY <3>2, <3>3
    <2>4. QED
      BY <2>1, <2>2, <2>3, <2>5, <2>6 DEF Start
  <1> DEFINE c == [Idle EXCEPT !.pc = "get", !.kind = k, !.name = n, !.to = to, !.m = m]
             ns == {n, to} \ {None}
  <1>2. /\ proc[p].pc = "idle" /\ runs < MaxRuns /\ runs' = runs + 1
        /\ Takes(p, c, ns) /\ UNCHANGED <<meta, kubeconfig, current>>
    BY <1>1 DEF Begin, At, store
  <1>3. ns \in SUBSET Name /\ n \in ns /\ (to # None => to \in ns) /\ (to = None => ns = {n})
    BY SomeMeta
  <1>4. /\ c.names = {} /\ c.beside = FALSE /\ c.pc = "get" /\ c.kind = k /\ c.name = n /\ c.to = to /\ c.m = m
        /\ c \in Command
    BY DEF Idle, Command, PC
  <1>6. proc[p].names = {} /\ proc[p].beside = FALSE
    BY <1>2 DEF Inv, TypeInv, JobOK
  <1>7. runs' \in 0..MaxRuns
    BY <1>2, ContextsAssumption DEF Inv, TypeInv
  <1>8. Mid(proc[p]) = {} /\ ~Gone(proc[p])
    BY <1>2 DEF Mid, Gone
  <1>5. ASSUME NEW j \in Command, j.names = ns, j.pc = "get", j.kind = k, j.name = n, j.to = to, j.m = m
        PROVE  JobOK(j) /\ Progress(j, tainted, meta, kubeconfig)
    <2> HIDE DEF ns
    <2>1. j.kind \in Made => j.names = {n}
      BY <1>1, <1>3, <1>5, Kinds
    <2>2. j.kind = "rename" => j.to \in Name \ {n} /\ j.to \in j.names
      BY <1>1, <1>3, <1>5, SomeMeta
    <2>3. QED
      BY <1>1, <1>3, <1>5, <2>1, <2>2 DEF JobOK, Progress
  <1> HIDE DEF c, ns
  <1>9. c.names \cup ns = ns
    BY <1>4
  <1>10. ASSUME NEW d \in Command, d.pc = c.pc, d.kind = c.kind, d.name = c.name, d.to = c.to, d.m = c.m, d.on = c.on,
                d.names = c.names \cup ns
         PROVE  JobOK(d) /\ Progress(d, tainted, meta, kubeconfig)
    BY <1>4, <1>5, <1>9, <1>10
  <1>11. c.names = proc[p].names /\ c.beside = proc[p].beside
    BY <1>4, <1>6
  <1>12. QED
    BY <1>2, <1>3, <1>4, <1>7, <1>8, <1>10, <1>11, TakesKeeps, ZenonT(60)

LEMMA GetKeeps ==
  ASSUME Inv, NEW p \in Process, Get(p)
  PROVE  Inv'
  <1> DEFINE found == meta[proc[p].name]
             next == [use |-> "setCurrent", rm |-> "removeAll", rename |-> "move", up |-> "sync"]
  <1>1. /\ proc[p] \in Command /\ JobOK(proc[p]) /\ proc[p].pc = "get"
        /\ proc[p].kind \in Kind /\ proc[p].name \in Name /\ proc[p].name \in proc[p].names
        /\ meta \in [Name -> Meta \cup {None}] /\ runs \in 0..MaxRuns
    BY DEF Inv, TypeInv, Get, At, JobOK
  <1>2. Mid(proc[p]) = {} /\ ~Gone(proc[p])
    BY <1>1 DEF Mid, Gone
  <1>3. CASE To(p, "save") /\ proc[p].kind \in Made
    <2> DEFINE c == [proc[p] EXCEPT !.pc = "save"]
    <2>1. /\ c \in Command /\ c.pc = "save"
          /\ c.kind = proc[p].kind /\ c.name = proc[p].name /\ c.to = proc[p].to /\ c.m = proc[p].m /\ c.on = proc[p].on
          /\ c.names = proc[p].names /\ c.beside = proc[p].beside
      BY <1>1, Onward DEF PC
    <2>2. proc' = [proc EXCEPT ![p] = c] /\ UNCHANGED <<tainted, runs, meta, kubeconfig, current>>
      BY <1>3 DEF Get, To, Goes, store
    <2> HIDE DEF c
    <2>3. JobOK(c) /\ Mid(c) = {} /\ Progress(c, tainted, meta, kubeconfig)
      BY <1>1, <1>3, <2>1, Kinds DEF JobOK, Mid, Progress
    <2>4. QED
      BY <1>2, <2>1, <2>2, <2>3, OwnTo
  <1>4. CASE To(p, "failed")
    <2>1. Refuse(p)
      BY <1>4 DEF Refuse, Get
    <2>2. QED
      BY <1>1, <1>2, <2>1, RefuseKeeps
  <1>5. CASE /\ proc[p].kind \in {"use", "rm", "rename", "up"} /\ found # None
             /\ Takes(p, [proc[p] EXCEPT !.pc = next[proc[p].kind], !.m = found], {found.name})
    <2> DEFINE c == [proc[p] EXCEPT !.pc = next[proc[p].kind], !.m = found]
               ns == {found.name}
    <2>1. UNCHANGED <<meta, kubeconfig, current, runs>>
      BY DEF Get, store
    <2>2. found \in Meta /\ found.name \in Name
      BY <1>1, <1>5 DEF Meta
    <2>3. /\ c.pc = next[proc[p].kind] /\ c.m = found /\ c.kind = proc[p].kind /\ c.name = proc[p].name
          /\ c.to = proc[p].to /\ c.names = proc[p].names /\ c.beside = proc[p].beside
          /\ c.pc \in {"setCurrent", "removeAll", "move", "sync"}
          /\ c.kind = "use" => c.pc = "setCurrent"
          /\ c.kind = "rm" => c.pc = "removeAll"
          /\ c.kind = "rename" => c.pc = "move"
          /\ c.kind = "up" => c.pc = "sync"
      BY <1>1, <1>5 DEF Command
    <2>4. c \in Command
      <3>1. next[proc[p].kind] \in PC
        BY <1>5 DEF PC
      <3>2. QED
        BY <1>1, <2>2, <3>1 DEF Command
    <2>5. Takes(p, c, ns)
      BY <1>5
    <2> HIDE DEF c, found, ns, next
    <2>6. found.name \in ns
      BY DEF ns
    <2>7. ASSUME NEW j \in Command, j.pc = c.pc, j.kind = c.kind, j.name = c.name, j.to = c.to, j.m = c.m, j.on = c.on,
                 j.names = c.names \cup ns
          PROVE  JobOK(j) /\ Progress(j, tainted, meta, kubeconfig)
      <3>1. JobOK(j)
        BY <1>1, <1>5, <2>2, <2>3, <2>6, <2>7, Kinds DEF JobOK
      <3>2. ASSUME Clean(j, tainted) PROVE found.name = proc[p].name
        <4>1. Clean(proc[p], tainted)
          BY <2>3, <2>7, <3>2 DEF Clean
        <4>2. Consistent(proc[p].name, meta, kubeconfig)
          BY <1>1, <1>2, <4>1, OwnNames
        <4>3. QED
          BY <1>5, <4>2 DEF Consistent, found
      <3>3. j.kind \notin Made
        BY <1>5, <2>3, <2>7, Kinds
      <3>4. Clean(j, tainted) => j.m.name = j.name
        BY <2>3, <2>7, <3>2
      <3>5. meta[j.name] = j.m /\ j.m # None
        BY <1>5, <2>3, <2>7 DEF found
      <3>6. QED
        BY <1>5, <2>3, <2>7, <3>1, <3>3, <3>4, <3>5 DEF Progress
    <2>8. ns \in SUBSET Name
      BY <2>2 DEF ns
    <2>9. runs' \in 0..MaxRuns
      BY <1>1, <2>1
    <2>10. QED
      BY <1>2, <2>1, <2>3, <2>4, <2>5, <2>7, <2>8, <2>9, TakesKeeps
  <1>6. QED
    BY <1>1, <1>3, <1>4, <1>5, Kinds DEF Get

\* up's second resolution takes up the name it goes by, and then the one its
\* meta.yaml has.
LEMMA AgainKeeps ==
  ASSUME Inv, NEW p \in Process, Again(p)
  PROVE  Inv'
  <1> DEFINE on == IF proc[p].to # None THEN proc[p].to ELSE current
  <1>1. /\ proc[p] \in Command /\ JobOK(proc[p]) /\ proc[p].pc = "again" /\ proc[p].kind = "up"
        /\ proc[p].to \in {None, proc[p].name} /\ current \in Name \cup {None} /\ runs \in 0..MaxRuns
    BY DEF Inv, TypeInv, Again, At, JobOK
  <1>2. Mid(proc[p]) = {} /\ ~Gone(proc[p])
    BY <1>1 DEF Mid, Gone
  <1>3. CASE on = None
    <2>1. Refuse(p)
      BY <1>3 DEF Refuse, Again
    <2>2. QED
      BY <1>1, <1>2, <2>1, RefuseKeeps
  <1>4. CASE on # None
    <2> DEFINE c == [proc[p] EXCEPT !.on = on, !.pc = "getAgain"]
               ns == {on}
    <2>1. Takes(p, c, ns) /\ UNCHANGED <<meta, kubeconfig, current, runs>>
      BY <1>4 DEF Again, store
    <2>2. on \in Name /\ (on = proc[p].name \/ proc[p].to = None)
      BY <1>1, <1>4 DEF Command
    <2> HIDE DEF on
    <2>3. /\ c \in Command /\ c.pc = "getAgain" /\ c.on = on /\ c.kind = "up"
          /\ c.name = proc[p].name /\ c.to = proc[p].to /\ c.m = proc[p].m
          /\ c.names = proc[p].names /\ c.beside = proc[p].beside
      BY <1>1, <2>2 DEF Command, PC
    <2>4. ns \in SUBSET Name /\ on \in ns
      BY <2>2
    <2> HIDE DEF c, ns
    <2>5. Progress(proc[p], tainted, meta, kubeconfig)
      BY DEF Inv
    <2>6. ASSUME NEW j \in Command, j.pc = c.pc, j.kind = c.kind, j.name = c.name, j.to = c.to, j.m = c.m,
                 j.on = c.on, j.names = c.names \cup ns
          PROVE  JobOK(j) /\ Progress(j, tainted, meta, kubeconfig)
      <3>1. JobOK(j)
        BY <1>1, <2>2, <2>3, <2>4, <2>6, Kinds DEF JobOK
      <3>2. Clean(j, tainted) => Clean(proc[p], tainted)
        BY <2>3, <2>6 DEF Clean
      <3>3. j.pc = "getAgain" /\ j.kind = "up" /\ (j.on = j.name \/ j.to = None)
        BY <2>2, <2>3, <2>6
      <3>4. Clean(j, tainted) => meta[j.name] = j.m /\ j.m.name = j.name
        BY <1>1, <2>3, <2>5, <2>6, <3>2 DEF Progress
      <3>5. QED
        BY <3>1, <3>3, <3>4, Kinds DEF Progress
    <2>7. runs' \in 0..MaxRuns
      BY <1>1, <2>1
    <2>8. QED
      BY <1>2, <2>1, <2>3, <2>4, <2>6, <2>7, TakesKeeps
  <1>5. QED
    BY <1>3, <1>4

LEMMA GetAgainKeeps ==
  ASSUME Inv, NEW p \in Process, GetAgain(p)
  PROVE  Inv'
  <1> DEFINE found == meta[proc[p].on]
  <1>1. /\ proc[p] \in Command /\ JobOK(proc[p]) /\ proc[p].pc = "getAgain" /\ proc[p].kind = "up"
        /\ proc[p].on \in Name /\ proc[p].on \in proc[p].names /\ runs \in 0..MaxRuns
        /\ meta \in [Name -> Meta \cup {None}]
    BY DEF Inv, TypeInv, GetAgain, At, JobOK
  <1>2. Mid(proc[p]) = {} /\ ~Gone(proc[p])
    BY <1>1 DEF Mid, Gone
  <1>3. CASE found = None
    <2>1. Refuse(p)
      BY <1>3 DEF Refuse, GetAgain
    <2>2. QED
      BY <1>1, <1>2, <2>1, RefuseKeeps
  <1>4. CASE found # None
    <2> DEFINE c == [proc[p] EXCEPT !.on = found.name, !.pc = "deploy"]
               ns == {found.name}
    <2>1. Takes(p, c, ns) /\ UNCHANGED <<meta, kubeconfig, current, runs>>
      BY <1>4 DEF GetAgain, store
    <2>2. found.name \in Name
      BY <1>1, <1>4 DEF Meta
    <2>3. /\ c \in Command /\ c.pc = "deploy" /\ c.on = found.name /\ c.kind = "up"
          /\ c.name = proc[p].name /\ c.to = proc[p].to /\ c.m = proc[p].m
          /\ c.names = proc[p].names /\ c.beside = proc[p].beside
      BY <1>1, <2>2 DEF Command, PC
    <2>4. ns \in SUBSET Name /\ found.name \in ns
      BY <2>2
    <2> HIDE DEF c, ns
    <2>5. Progress(proc[p], tainted, meta, kubeconfig)
      BY DEF Inv
    <2>6. ASSUME NEW j \in Command, j.pc = c.pc, j.kind = c.kind, j.name = c.name, j.to = c.to, j.m = c.m,
                 j.on = c.on, j.names = c.names \cup ns
          PROVE  JobOK(j) /\ Progress(j, tainted, meta, kubeconfig)
      <3>1. JobOK(j)
        BY <1>1, <2>2, <2>3, <2>4, <2>6, Kinds DEF JobOK
      <3>2. Clean(j, tainted) => Clean(proc[p], tainted)
        BY <2>3, <2>6 DEF Clean
      <3>3. ASSUME Clean(j, tainted) PROVE found.name = proc[p].on
        <4>1. Consistent(proc[p].on, meta, kubeconfig)
          BY <1>1, <1>2, <3>2, <3>3, OwnNames
        <4>2. QED
          BY <1>4, <4>1 DEF Consistent
      <3>4. Clean(j, tainted) => j.on = proc[p].on /\ meta[j.on] # None /\ meta[j.on].name = j.on
        BY <1>4, <2>3, <2>6, <3>3
      <3>5. Clean(j, tainted) => /\ meta[j.name] = j.m /\ j.m.name = j.name
                                 /\ j.on = j.name \/ j.to = None
        BY <1>1, <2>3, <2>5, <2>6, <3>2, <3>4 DEF Progress
      <3>6. QED
        BY <2>3, <2>6, <3>1, <3>4, <3>5, Kinds DEF Progress
    <2>7. runs' \in 0..MaxRuns
      BY <1>1, <2>1
    <2>8. QED
      BY <1>2, <2>1, <2>3, <2>4, <2>6, <2>7, TakesKeeps
  <1>5. QED
    BY <1>3, <1>4

\* A command ends: its names, and no others, are spoilt or good again.
LEMMA EndKeeps ==
  ASSUME Inv, NEW p \in Process, proc[p].pc # "idle",
         proc' = [proc EXCEPT ![p] = Idle], UNCHANGED <<current, runs>>,
         meta' \in [Name -> Meta \cup {None}], kubeconfig' \in [Name -> Server \cup {None}],
         \A n \in Name \ proc[p].names : meta'[n] = meta[n] /\ kubeconfig'[n] = kubeconfig[n],
         tainted' \subseteq Name,
         \A n \in Name \ proc[p].names : n \in tainted' <=> n \in tainted,
         proc[p].names \subseteq tainted' \/ ~proc[p].beside \/ tainted' = tainted,
         \A n \in proc[p].names \ tainted' :
           /\ Consistent(n, meta', kubeconfig')
           /\ meta'[n] # None \/ (n \notin tainted /\ meta'[n] = meta[n] /\ ~Gone(proc[p]))
  PROVE  Inv'
  <1>1. /\ proc \in [Process -> Command] /\ \A q \in Process : JobOK(proc[q])
        /\ current \in Name \cup {None} /\ runs \in 0..MaxRuns
    BY DEF Inv, TypeInv
  <1>2. proc'[p] = Idle /\ \A q \in Process \ {p} : proc'[q] = proc[q]
    BY <1>1
  <1>3. \A q \in Process : proc[q].names \subseteq Name
    BY <1>1 DEF Command
  <1>4. ASSUME NEW q \in Process \ {p}, ~proc[q].beside
        PROVE  /\ proc[q].names \cap proc[p].names = {}
               /\ \A n \in proc[q].names : n \in tainted' <=> n \in tainted
    BY <1>3, <1>4, Alone
  <1>5. TypeInv'
    BY <1>1, <1>2, IdleOK DEF TypeInv
  <1>6. Apart(proc')
    BY <1>2, IdleOK DEF Inv, Apart
  <1>7. Tainting(proc', tainted')
    <2>1. SUFFICES ASSUME NEW q \in Process \ {p}
                   PROVE  /\ proc[q].beside => proc[q].names \subseteq tainted'
                          /\ proc[q].names \cap tainted' = {} \/ proc[q].names \subseteq tainted'
      BY <1>2, IdleOK DEF Tainting
    <2>2. /\ proc[q].beside => proc[q].names \subseteq tainted
          /\ proc[q].names \cap tainted = {} \/ proc[q].names \subseteq tainted
      BY DEF Inv, Tainting
    <2>3. CASE proc[q].beside
      <3>1. CASE proc[p].names \subseteq tainted'
        BY <1>3, <2>2, <2>3, <3>1
      <3>2. CASE ~proc[p].beside
        <4>1. proc[q].names \cap proc[p].names = {}
          BY <3>2, Alone
        <4>2. QED
          BY <1>3, <2>2, <2>3, <4>1
      <3>3. CASE tainted' = tainted
        BY <2>2, <3>3
      <3>4. QED
        BY <3>1, <3>2, <3>3
    <2>4. CASE ~proc[q].beside
      BY <1>4, <2>2, <2>4
    <2>5. QED
      BY <2>3, <2>4
  <1>8. ASSUME NEW q \in Process PROVE Progress(proc'[q], tainted', meta', kubeconfig')
    <2>1. CASE q = p
      BY <1>2, <2>1, IdleOK DEF Progress, Idle, Made
    <2>2. CASE q # p
      <3>1. Progress(proc[q], tainted, meta, kubeconfig) /\ JobOK(proc[q])
        BY <1>1 DEF Inv
      <3>2. Clean(proc[q], tainted') /\ proc[q].beside => proc[q].names = {}
        BY <1>7, <1>2, <2>2 DEF Tainting, Clean
      <3>3. CASE proc[q].pc = "idle"
        BY <1>2, <2>2, <3>3 DEF Progress
      <3>4. CASE proc[q].pc # "idle"
        <4>1. Clean(proc[q], tainted') => ~proc[q].beside
          BY <3>1, <3>2, <3>4 DEF JobOK
        <4>2. Clean(proc[q], tainted') => Clean(proc[q], tainted)
          BY <1>4, <2>2, <4>1 DEF Clean
        <4>3. Progress(proc[q], tainted', meta, kubeconfig)
          BY <3>1, <4>2, ProgressLess
        <4>4. ASSUME ~proc[q].beside \/ Clean(proc[q], tainted'), NEW n \in proc[q].names
              PROVE  meta'[n] = meta[n] /\ kubeconfig'[n] = kubeconfig[n]
          BY <1>3, <1>4, <2>2, <4>1, <4>4
        <4>5. QED
          BY <1>2, <2>2, <3>1, <4>3, <4>4, ProgressKept
      <3>5. QED
        BY <3>3, <3>4
    <2>3. QED
      BY <2>1, <2>2
  <1>9. Names(proc', tainted', meta', kubeconfig')
    <2>1. SUFFICES ASSUME NEW n \in Name \ tainted', n \notin proc[p].names, \A q \in Process : n \notin Mid(proc'[q])
                   PROVE  Consistent(n, meta', kubeconfig')
      BY DEF Names
    <2>2. \A q \in Process : n \notin Mid(proc[q])
      BY <1>1, <1>2, <2>1, MidNames
    <2>3. Consistent(n, meta, kubeconfig)
      BY <2>1, <2>2 DEF Inv, Names
    <2>4. QED
      BY <2>1, <2>3 DEF Consistent
  <1>10. Current(proc', tainted', meta', current')
    <2>1. SUFFICES ASSUME NEW n \in Name \ tainted', current = n, meta'[n] = None
                   PROVE  \E q \in Process : proc'[q].name = n /\ Gone(proc'[q])
      BY DEF Current
    <2>2. n \notin tainted /\ meta[n] = None
      BY <2>1
    <2>3. PICK q \in Process : proc[q].name = n /\ Gone(proc[q])
      BY <2>1, <2>2 DEF Inv, Current
    <2>4. q # p
      <3>1. q = p => n \in proc[p].names
        BY <1>1, <2>3 DEF JobOK, Gone
      <3>2. QED
        BY <2>1, <2>3, <3>1
    <2>5. QED
      BY <1>2, <2>3, <2>4
  <1>11. QED
    BY <1>5, <1>6, <1>7, <1>8, <1>9, <1>10 DEF Inv

LEMMA KillKeeps ==
  ASSUME Inv, NEW p \in Process, Kill(p)
  PROVE  Inv'
  <1> DEFINE one == IF At(p, "removeAll") THEN {proc[p].name} ELSE {}
  <1>1. /\ proc[p] \in Command /\ JobOK(proc[p]) /\ proc[p].pc # "idle"
        /\ meta \in [Name -> Meta \cup {None}] /\ kubeconfig \in [Name -> Server \cup {None}]
        /\ tainted \subseteq Name
    BY DEF Inv, TypeInv, Kill
  <1>2. proc[p].names \subseteq Name /\ one \subseteq proc[p].names
    BY <1>1 DEF Command, JobOK
  <1>3. PICK gone \in SUBSET one : \E left \in SUBSET one :
          /\ meta' = [x \in Name |-> IF x \in gone THEN None ELSE meta[x]]
          /\ kubeconfig' = [x \in Name |-> IF x \in left THEN None ELSE kubeconfig[x]]
    BY DEF Kill
  <1>4. PICK left \in SUBSET one :
          /\ meta' = [x \in Name |-> IF x \in gone THEN None ELSE meta[x]]
          /\ kubeconfig' = [x \in Name |-> IF x \in left THEN None ELSE kubeconfig[x]]
    BY <1>3
  <1> HIDE DEF one
  <1>5. /\ meta' \in [Name -> Meta \cup {None}] /\ kubeconfig' \in [Name -> Server \cup {None}]
        /\ \A n \in Name \ proc[p].names : meta'[n] = meta[n] /\ kubeconfig'[n] = kubeconfig[n]
    BY <1>1, <1>2, <1>4
  <1>6. tainted' = tainted \cup proc[p].names
    BY DEF Kill
  <1>7. proc' = [proc EXCEPT ![p] = Idle] /\ UNCHANGED <<current, runs>>
    BY DEF Kill
  <1>8. tainted' \subseteq Name /\ proc[p].names \subseteq tainted'
    BY <1>1, <1>2, <1>6
  <1>9. \A n \in Name \ proc[p].names : n \in tainted' <=> n \in tainted
    BY <1>6
  <1>10. QED
    BY <1>1, <1>5, <1>7, <1>8, <1>9, EndKeeps

LEMMA ReturnKeeps ==
  ASSUME Inv, NEW p \in Process, Return(p)
  PROVE  Inv'
  <1>1. /\ proc[p] \in Command /\ JobOK(proc[p]) /\ proc[p].pc \in {"done", "failed"}
        /\ meta \in [Name -> Meta \cup {None}] /\ kubeconfig \in [Name -> Server \cup {None}]
        /\ tainted \subseteq Name
    BY DEF Inv, TypeInv, Return
  <1>2. /\ proc' = [proc EXCEPT ![p] = Idle] /\ UNCHANGED <<current, runs>>
        /\ meta' = meta /\ kubeconfig' = kubeconfig
    BY DEF Return, store
  <1>3. Mid(proc[p]) = {} /\ ~Gone(proc[p])
    BY <1>1 DEF Mid, Gone
  <1>4. CASE proc[p].pc = "done" /\ proc[p].kind \in Made /\ ~proc[p].beside
    <2>1. tainted' = tainted \ proc[p].names
      BY <1>4 DEF Return, At
    <2>2. proc[p].names = {proc[p].name} /\ proc[p].m \in Meta /\ proc[p].m.name = proc[p].name
      BY <1>1, <1>4 DEF JobOK
    <2>3. meta[proc[p].name] = proc[p].m /\ kubeconfig[proc[p].name] = proc[p].m.server
      BY <1>4 DEF Inv, Progress
    <2>4. ASSUME NEW n \in proc[p].names PROVE Consistent(n, meta', kubeconfig') /\ meta'[n] # None
      BY <1>2, <2>2, <2>3, SomeMeta DEF Consistent
    <2>5. tainted' \subseteq Name /\ \A n \in Name \ proc[p].names : n \in tainted' <=> n \in tainted
      BY <1>1, <2>1
    <2>6. QED
      BY <1>1, <1>2, <1>4, <2>4, <2>5, EndKeeps
  <1>5. CASE ~(proc[p].pc = "done" /\ proc[p].kind \in Made /\ ~proc[p].beside)
    <2>1. tainted' = tainted
      BY <1>5 DEF Return, At
    <2>2. ASSUME NEW n \in proc[p].names \ tainted' PROVE Consistent(n, meta', kubeconfig')
      <3>1. Clean(proc[p], tainted)
        BY <2>1, <2>2 DEF Inv, Tainting, Clean
      <3>2. QED
        BY <1>2, <1>3, <2>2, <3>1, OwnNames
    <2>3. QED
      BY <1>1, <1>2, <1>3, <2>1, <2>2, EndKeeps
  <1>6. QED
    BY <1>4, <1>5

-----------------------------------------------------------------------------
LEMMA InitInv == Init => Inv
  <1> SUFFICES ASSUME Init PROVE Inv
    OBVIOUS
  <1>1. /\ meta = [n \in Name |-> None] /\ kubeconfig = [n \in Name |-> None] /\ current = None
        /\ proc = [p \in Process |-> Idle] /\ tainted = {} /\ runs = 0
    BY DEF Init
  <1>2. TypeInv
    BY <1>1, IdleOK, ContextsAssumption DEF TypeInv
  <1>3. Apart(proc) /\ Tainting(proc, tainted)
    BY <1>1, IdleOK DEF Apart, Tainting
  <1>4. \A p \in Process : Progress(proc[p], tainted, meta, kubeconfig)
    BY <1>1, IdleOK DEF Progress
  <1>5. Names(proc, tainted, meta, kubeconfig) /\ Current(proc, tainted, meta, current)
    BY <1>1, SomeMeta DEF Names, Consistent, Current
  <1>6. QED
    BY <1>2, <1>3, <1>4, <1>5 DEF Inv

LEMMA NextInv == Inv /\ [Next]_vars => Inv'
  <1> SUFFICES ASSUME Inv, [Next]_vars PROVE Inv'
    OBVIOUS
  <1>1. ASSUME NEW p \in Process, Start(p) PROVE Inv'
    BY <1>1, StartKeeps
  <1>2. ASSUME NEW p \in Process, Step(p) PROVE Inv'
    <2>1. CASE Get(p)
      BY <2>1, GetKeeps
    <2>2. CASE Move(p)
      BY <2>2, MoveKeeps
    <2>3. CASE RemoveAll(p)
      BY <2>3, RemoveAllKeeps
    <2>4. CASE Save(p)
      BY <2>4, SaveKeeps
    <2>5. CASE IsCurrent(p)
      BY <2>5, IsCurrentKeeps
    <2>6. CASE WriteKubeconfig(p)
      BY <2>6, WriteKubeconfigKeeps
    <2>7. CASE LookUp(p)
      BY <2>7, LookUpKeeps
    <2>8. CASE SetCurrent(p)
      BY <2>8, SetCurrentKeeps
    <2>9. CASE Sync(p)
      BY <2>9, SyncKeeps
    <2>10. CASE Deploy(p)
      BY <2>10, DeployKeeps
    <2>14. CASE Again(p)
      BY <2>14, AgainKeeps
    <2>15. CASE GetAgain(p)
      BY <2>15, GetAgainKeeps
    <2>11. CASE Return(p)
      BY <2>11, ReturnKeeps
    <2>12. CASE Kill(p)
      BY <2>12, KillKeeps
    <2>13. QED
      BY <1>2, <2>1, <2>2, <2>3, <2>4, <2>5, <2>6, <2>7, <2>8, <2>9, <2>10, <2>11, <2>12, <2>14, <2>15 DEF Step
  <1>3. CASE UNCHANGED vars
    BY <1>3 DEF vars, Inv, TypeInv, Apart, Tainting, Progress, Clean, Names, Consistent, Current
  <1>4. QED
    BY <1>1, <1>2, <1>3 DEF Next

LEMMA AlwaysInv == Spec => []Inv
  BY InitInv, NextInv, PTL DEF Spec

LEMMA InvTypes == Inv => TypeOK
  <1> SUFFICES ASSUME Inv PROVE TypeOK
    OBVIOUS
  <1>1. ASSUME NEW p \in Process
        PROVE  /\ proc[p].pc \in PC /\ proc[p].names \subseteq Name /\ proc[p].beside \in BOOLEAN
               /\ proc[p].pc \notin {"idle", "get", "done", "failed"} => proc[p].kind \in Kind /\ proc[p].name \in Name
               /\ proc[p].pc \in {"move", "save", "sync", "deploy"} => proc[p].m \in Meta
               /\ proc[p].pc \in {"getAgain", "deploy"} => proc[p].on \in Name
               /\ proc[p].pc \in {"move", "current"} /\ proc[p].kind = "rename" => proc[p].to \in Name \ {proc[p].name}
    <2>1. proc[p] \in Command /\ JobOK(proc[p])
      BY DEF Inv, TypeInv
    <2>2. QED
      BY <2>1 DEF Command, JobOK
  <1>2. QED
    BY <1>1 DEF TypeOK, Inv, TypeInv

LEMMA InvServer == Inv => OneServer
  <1> SUFFICES ASSUME Inv, NEW p \in Process, proc[p].pc = "deploy", Clean(proc[p], tainted)
               PROVE  /\ proc[p].m.name = proc[p].name /\ kubeconfig[proc[p].name] = proc[p].m.server
                      /\ meta[proc[p].on] # None /\ meta[proc[p].on].name = proc[p].on
                      /\ kubeconfig[proc[p].on] = meta[proc[p].on].server
                      /\ proc[p].on = proc[p].name \/ proc[p].to = None
    BY DEF OneServer, At, Clean
  <1>1. /\ JobOK(proc[p]) /\ proc[p].kind = "up" /\ proc[p].name \in proc[p].names /\ proc[p].m \in Meta
        /\ proc[p].on \in proc[p].names
    BY DEF Inv, TypeInv, JobOK
  <1>2. /\ meta[proc[p].name] = proc[p].m /\ proc[p].m.name = proc[p].name
        /\ meta[proc[p].on] # None /\ meta[proc[p].on].name = proc[p].on
        /\ proc[p].on = proc[p].name \/ proc[p].to = None
    BY <1>1 DEF Inv, Progress
  <1>3. Mid(proc[p]) = {}
    BY DEF Mid
  <1>4. Consistent(proc[p].name, meta, kubeconfig) /\ Consistent(proc[p].on, meta, kubeconfig)
    BY <1>1, <1>3, OwnNames
  <1>5. QED
    BY <1>1, <1>2, <1>4, SomeMeta DEF Consistent

LEMMA InvCurrent == Inv => CurrentExists
  <1> SUFFICES ASSUME Inv, current # None, current \notin tainted,
                      \A p \in Process : current \notin proc[p].names
               PROVE  meta[current] # None
    BY DEF CurrentExists
  <1>1. current \in Name \ tainted
    BY DEF Inv, TypeInv
  <1>2. ASSUME NEW p \in Process, Gone(proc[p]) PROVE proc[p].name # current
    BY <1>2 DEF Inv, TypeInv, JobOK, Gone
  <1>3. QED
    BY <1>1, <1>2 DEF Inv, Current

\* The store's files and the commands on it are of the types declared.
THEOREM ContextsTypeSafe == Spec => []TypeOK
  BY AlwaysInv, InvTypes, PTL

\* Unless a command about one of its names was killed or ran at the same time,
\* jekyo up builds for the server its context's kubeconfig reaches, deploys to
\* the server its second context's kubeconfig reaches, and with --context both
\* are one; without it they are unless the current context has been switched in
\* between (Resolve, newDeployer, Rename).
THEOREM ContextReachesItsServer == Spec => []OneServer
  BY AlwaysInv, InvServer, PTL

\* What config.yaml names is there while no command is about it, if none about it
\* was killed or ran beside another: a Remove or Rename that ends leaves no name
\* behind (Remove, Rename, setCurrent).
THEOREM CurrentIsThere == Spec => []CurrentExists
  BY AlwaysInv, InvCurrent, PTL
=============================================================================

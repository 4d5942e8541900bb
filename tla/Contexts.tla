------------------------------ MODULE Contexts ------------------------------
(***************************************************************************)
(* internal/contexts/store.go and the commands of cmd/jekyo/context.go: a  *)
(* machine's contexts, a directory for each with meta.yaml and kubeconfig, *)
(* and config.yaml, which names the current one.  The processes of one     *)
(* machine share them without a lock, one call at a time, and each can be  *)
(* killed between two calls.                                               *)
(*                                                                         *)
(* A context reaches its server in two ways that nothing compares: over    *)
(* SSH, by meta.yaml, and by the kubeconfig found under the name that      *)
(* meta.yaml gives.                                                        *)
(***************************************************************************)
EXTENDS Naturals, FiniteSets

CONSTANTS
  Process,
  Name,        \* names of contexts
  Server,
  MaxRuns,     \* bound: commands that are run
  None

ASSUME ContextsAssumption ==
  None \notin Name \cup Server \cup [name : Name, server : Server] /\ MaxRuns \in Nat

VARIABLES
  meta,        \* Name -> what its meta.yaml says: [name, server]
  kubeconfig,  \* Name -> the server its kubeconfig reaches
  current,     \* what config.yaml says
  proc,        \* Process -> the command it runs
  tainted,     \* names that killed or overlapping commands may have spoilt
  runs

vars  == <<meta, kubeconfig, current, proc, tainted, runs>>
store == <<meta, kubeconfig, current>>

Meta == [name : Name, server : Server]
Made == {"import", "install", "add"}
Kind == Made \cup {"use", "rm", "rename", "up"}
PC   == {"idle", "get", "removeAll", "move", "save", "kubeconfig", "lookUp",
         "current", "setCurrent", "sync", "again", "getAgain", "deploy", "done", "failed"}

\* name, to: its arguments; m: the Meta in memory; on: the context that up
\* resolves a second time; names: all it is about; beside: another command about
\* one of them ran meanwhile.  An up has --context in to, or None there.
Idle == [pc |-> "idle", kind |-> None, name |-> None, to |-> None, m |-> None, on |-> None,
         names |-> {}, beside |-> FALSE]

TypeOK ==
  /\ meta \in [Name -> Meta \cup {None}]
  /\ kubeconfig \in [Name -> Server \cup {None}]
  /\ current \in Name \cup {None}
  /\ \A p \in Process :
       /\ proc[p].pc \in PC /\ proc[p].names \subseteq Name /\ proc[p].beside \in BOOLEAN
       /\ proc[p].pc \notin {"idle", "get", "done", "failed"} => proc[p].kind \in Kind /\ proc[p].name \in Name
       /\ proc[p].pc \in {"move", "save", "sync", "deploy"} => proc[p].m \in Meta
       /\ proc[p].pc \in {"getAgain", "deploy"} => proc[p].on \in Name
       /\ proc[p].pc \in {"move", "current"} /\ proc[p].kind = "rename" => proc[p].to \in Name \ {proc[p].name}
  /\ tainted \subseteq Name /\ runs \in 0..MaxRuns

Init ==
  /\ meta = [n \in Name |-> None] /\ kubeconfig = [n \in Name |-> None]
  /\ current = None
  /\ proc = [p \in Process |-> Idle]
  /\ tainted = {} /\ runs = 0

-----------------------------------------------------------------------------
At(p, pc) == proc[p].pc = pc
Exists(n) == meta[n] # None \/ kubeconfig[n] # None   \* its directory

\* A command takes up names: it runs beside those that are about one of them,
\* and if one is spoilt it may carry that to the others.
Takes(p, c, ns) ==
  LET all == c.names \cup ns
      hit == {q \in Process \ {p} : proc[q].names \cap all # {}}
      met == all \cup UNION {proc[q].names : q \in hit}
  IN  /\ proc' = [q \in Process |->
                    IF q = p THEN [c EXCEPT !.names = all, !.beside = @ \/ hit # {}]
                    ELSE IF q \in hit THEN [proc[q] EXCEPT !.beside = TRUE] ELSE proc[q]]
      /\ tainted' = tainted \cup (IF hit # {} \/ all \cap tainted # {} THEN met ELSE {})
Goes(p, c) == proc' = [proc EXCEPT ![p] = c] /\ UNCHANGED tainted
To(p, pc)  == Goes(p, [proc[p] EXCEPT !.pc = pc])

\* A killed removal has removed one file, or none.
Kill(p) ==
  LET n == proc[p].name
      one == IF At(p, "removeAll") THEN {n} ELSE {}
  IN  /\ proc[p].pc \notin {"idle", "done", "failed"}
      /\ \E gone, left \in SUBSET one :
           /\ gone \cap left = {}
           /\ meta' = [x \in Name |-> IF x \in gone THEN None ELSE meta[x]]
           /\ kubeconfig' = [x \in Name |-> IF x \in left THEN None ELSE kubeconfig[x]]
      /\ tainted' = tainted \cup proc[p].names
      /\ proc' = [proc EXCEPT ![p] = Idle]
      /\ UNCHANGED <<current, runs>>

\* A context that is made replaces whatever was there: unless others were about
\* it meanwhile, its name is as good as new.
Return(p) ==
  /\ proc[p].pc \in {"done", "failed"}
  /\ tainted' = IF At(p, "done") /\ proc[p].kind \in Made /\ ~proc[p].beside THEN tainted \ proc[p].names ELSE tainted
  /\ proc' = [proc EXCEPT ![p] = Idle]
  /\ UNCHANGED <<runs>> /\ UNCHANGED store

\* An error ends the command where it is.
Refuse(p) == To(p, "failed") /\ UNCHANGED <<runs>> /\ UNCHANGED store

-----------------------------------------------------------------------------
(***************************************************************************)
(* What each command starts with.                                          *)
(***************************************************************************)

Begin(p, k, n, to, m) ==
  /\ At(p, "idle") /\ runs < MaxRuns /\ runs' = runs + 1
  /\ Takes(p, [Idle EXCEPT !.pc = "get", !.kind = k, !.name = n, !.to = to, !.m = m], {n, to} \ {None})
  /\ UNCHANGED store

\* StartSame (a slip): a context is renamed to the name it has.
StartSame(p) ==
  \/ \E k \in {"use", "rm"}, n \in Name : Begin(p, k, n, None, None)
  \/ \E n, to \in Name : Begin(p, "rename", n, to, None)
  \/ \E k \in Made, n \in Name, s \in Server : Begin(p, k, n, None, [name |-> n, server |-> s])

\* up resolves --context, or else the current context.
Start(p) ==
  \/ \E k \in {"use", "rm"}, n \in Name : Begin(p, k, n, None, None)
  \/ \E n \in Name : Begin(p, "up", n, n, None)
  \/ current # None /\ Begin(p, "up", current, None, None)
  \/ \E n, to \in Name : n # to /\ Begin(p, "rename", n, to, None)
  \/ \E k \in Made, n \in Name, s \in Server : Begin(p, k, n, None, [name |-> n, server |-> s])

\* Get: add wants it to fail, import and install do not look.
Get(p) ==
  LET c == proc[p]
      found == meta[c.name]
      next == [use |-> "setCurrent", rm |-> "removeAll", rename |-> "move", up |-> "sync"]
  IN  /\ At(p, "get")
      /\ CASE c.kind \in {"import", "install"} -> To(p, "save")
           [] c.kind = "add" -> To(p, IF found = None THEN "save" ELSE "failed")
           [] OTHER -> IF found = None THEN To(p, "failed")
                       ELSE Takes(p, [c EXCEPT !.pc = next[c.kind], !.m = found], {found.name})
      /\ UNCHANGED <<runs>> /\ UNCHANGED store

-----------------------------------------------------------------------------
(***************************************************************************)
(* Rename, Remove.                                                         *)
(***************************************************************************)

\* os.Rename of the directory, which fails if the new name is taken.
Move(p) ==
  LET c == proc[p]
  IN  /\ At(p, "move")
      /\ IF Exists(c.to) \/ ~Exists(c.name) THEN Refuse(p)
         ELSE /\ meta' = [meta EXCEPT ![c.to] = meta[c.name], ![c.name] = None]
              /\ kubeconfig' = [kubeconfig EXCEPT ![c.to] = kubeconfig[c.name], ![c.name] = None]
              /\ Goes(p, [c EXCEPT !.m.name = c.to, !.pc = "save"])
              /\ UNCHANGED <<current, runs>>

RemoveAll(p) ==
  /\ At(p, "removeAll")
  /\ meta' = [meta EXCEPT ![proc[p].name] = None]
  /\ kubeconfig' = [kubeconfig EXCEPT ![proc[p].name] = None]
  /\ To(p, "current")
  /\ UNCHANGED <<current, runs>>

\* SaveAsRead (a slip): the old name stays in meta.yaml.
SaveAsRead(p) ==
  LET c == proc[p]
      old == IF c.kind = "rename" THEN [c.m EXCEPT !.name = c.name] ELSE c.m
  IN  /\ At(p, "save")
      /\ meta' = [meta EXCEPT ![c.m.name] = old]
      /\ To(p, IF c.kind = "rename" THEN "current" ELSE "kubeconfig")
      /\ UNCHANGED <<kubeconfig, current, runs>>

\* Save, for a rename and for a context that is made.
Save(p) ==
  LET c == proc[p]
  IN  /\ At(p, "save")
      /\ meta' = [meta EXCEPT ![c.m.name] = c.m]
      /\ To(p, IF c.kind = "rename" THEN "current" ELSE "kubeconfig")
      /\ UNCHANGED <<kubeconfig, current, runs>>

\* NotCurrent (a slip): it is not looked at.
NotCurrent(p) ==
  /\ At(p, "current")
  /\ To(p, "done")
  /\ UNCHANGED <<runs>> /\ UNCHANGED store

\* CurrentName, compared with the name that is gone.
IsCurrent(p) ==
  /\ At(p, "current")
  /\ To(p, IF current = proc[p].name THEN "setCurrent" ELSE "done")
  /\ UNCHANGED <<runs>> /\ UNCHANGED store

-----------------------------------------------------------------------------
(***************************************************************************)
(* Import, add, install; use.                                              *)
(***************************************************************************)

\* The directory may have been removed, or moved, since it was saved.
WriteKubeconfig(p) ==
  LET c == proc[p]
  IN  /\ At(p, "kubeconfig")
      /\ IF ~Exists(c.name) THEN Refuse(p)
         ELSE /\ kubeconfig' = [kubeconfig EXCEPT ![c.name] = c.m.server]
              /\ To(p, "lookUp")
              /\ UNCHANGED <<meta, current, runs>>

\* SetCurrent's Get.
LookUp(p) ==
  /\ At(p, "lookUp")
  /\ To(p, IF meta[proc[p].name] # None THEN "setCurrent" ELSE "failed")
  /\ UNCHANGED <<runs>> /\ UNCHANGED store

\* setCurrent; add and install go on to sync the credentials.
SetCurrent(p) ==
  LET c == proc[p]
  IN  /\ At(p, "setCurrent")
      /\ current' = CASE c.kind = "rm" -> None
                      [] c.kind = "rename" -> c.to
                      [] OTHER -> c.name
      /\ To(p, IF c.kind \in {"install", "add"} THEN "sync" ELSE "done")
      /\ UNCHANGED <<meta, kubeconfig, runs>>

-----------------------------------------------------------------------------
(***************************************************************************)
(* syncCreds saves the context as it was read, or not.  up then builds, for *)
(* the server of m, and newDeployer resolves the context once more.        *)
(***************************************************************************)

Sync(p) ==
  /\ At(p, "sync")
  /\ meta' \in {meta, [meta EXCEPT ![proc[p].m.name] = proc[p].m]}
  /\ To(p, IF proc[p].kind = "up" THEN "again" ELSE "done")
  /\ UNCHANGED <<kubeconfig, current, runs>>

\* AgainCurrent (a slip): newDeployer does not look at --context.
AgainCurrent(p) ==
  /\ At(p, "again")
  /\ IF current = None THEN To(p, "failed")
     ELSE Takes(p, [proc[p] EXCEPT !.on = current, !.pc = "getAgain"], {current})
  /\ UNCHANGED <<runs>> /\ UNCHANGED store

\* newDeployer's Resolve: the name, then its Get.
Again(p) ==
  LET on == IF proc[p].to # None THEN proc[p].to ELSE current
  IN  /\ At(p, "again")
      /\ IF on = None THEN To(p, "failed")
         ELSE Takes(p, [proc[p] EXCEPT !.on = on, !.pc = "getAgain"], {on})
      /\ UNCHANGED <<runs>> /\ UNCHANGED store

GetAgain(p) ==
  LET found == meta[proc[p].on]
  IN  /\ At(p, "getAgain")
      /\ IF found = None THEN To(p, "failed")
         ELSE Takes(p, [proc[p] EXCEPT !.on = found.name, !.pc = "deploy"], {found.name})
      /\ UNCHANGED <<runs>> /\ UNCHANGED store

\* Images went to the registry of m's server, manifests go where on's
\* kubeconfig says.
Deploy(p) ==
  /\ At(p, "deploy")
  /\ To(p, "done")
  /\ UNCHANGED <<runs>> /\ UNCHANGED store

Step(p) ==
  \/ Get(p) \/ Move(p) \/ RemoveAll(p) \/ Save(p) \/ IsCurrent(p) \/ WriteKubeconfig(p)
  \/ LookUp(p) \/ SetCurrent(p) \/ Sync(p) \/ Again(p) \/ GetAgain(p) \/ Deploy(p) \/ Return(p) \/ Kill(p)

Next == \E p \in Process : Start(p) \/ Step(p)

Spec == Init /\ [][Next]_vars

-----------------------------------------------------------------------------
(***************************************************************************)
(* Properties.  A name is tainted once a command about it has been killed, *)
(* or ran beside another about it, and with it the names of commands that  *)
(* then meet it; import, install and add make a name good again.           *)
(***************************************************************************)

\* up resolves its context twice, before the build and for the deployment, and
\* either time gets one whose kubeconfig reaches the server it says; the second
\* is the one it built for, unless it goes by a current context that may have
\* been switched.  No sequence of commands moves a context away from its
\* kubeconfig, what killed or simultaneous ones leave behind spoils no other
\* name than theirs, and making a context anew repairs it (Rename, Import, Save,
\* Resolve, newDeployer).
OneServer ==
  \A p \in Process : At(p, "deploy") /\ proc[p].names \cap tainted = {} =>
    LET c == proc[p]
    IN  /\ c.m.name = c.name /\ kubeconfig[c.name] = c.m.server
        /\ meta[c.on] # None /\ meta[c.on].name = c.on /\ kubeconfig[c.on] = meta[c.on].server
        /\ c.on = c.name \/ c.to = None

\* The current context exists while no command is about it, unless killed or
\* simultaneous ones were (Remove, Rename, SetCurrent).
CurrentExists ==
  current # None /\ current \notin tainted /\ (\A p \in Process : current \notin proc[p].names) =>
    meta[current] # None
=============================================================================

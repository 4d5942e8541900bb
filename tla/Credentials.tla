----------------------------- MODULE Credentials -----------------------------
(***************************************************************************)
(* cmd/jekyo/creds.go and its callers: the credentials the machines of     *)
(* several people share through one server.                                *)
(*                                                                         *)
(* Each machine keeps the server's context in a file; the server keeps a   *)
(* copy of what it cannot recover by itself, the VPN admin password and    *)
(* the logins of external registries, in one Secret.  A command loads its  *)
(* machine's context into memory, merges the Secret into it and writes     *)
(* the whole of it back in either direction.  One step is one call.  Any   *)
(* call can fail: where the code only warns the command goes on, and it    *)
(* can end between any two calls.                                          *)
(*                                                                         *)
(* The Secret's resourceVersion is abstracted to whether it has been       *)
(* written since a command got it.  A password is fresh when nobody knows  *)
(* it: NewPassword draws 15 random bytes.                                  *)
(***************************************************************************)
EXTENDS Naturals

CONSTANTS
  Machine,     \* machines, one command at a time each
  Host,        \* external registries
  Login,       \* their logins
  Password,    \* VPN admin passwords
  None,        \* nothing
  NoVPN,       \* the VPN entry of a context that has none
  Installers,  \* the machines that run `jekyo server install`
  Removers,    \* the machines that run `jekyo context rm`
  Commands     \* the commands that are run

Logins == [Host -> Login \cup {None}]
NoLogins == [h \in Host |-> None]

\* A Secret that does not exist reads as an empty one (readClusterCreds).
Secret  == [vpn : Password \cup {None}, logins : Logins]
Context == [vpn : Password \cup {None, NoVPN}, logins : Logins]

ASSUME CredentialsAssumption ==
  /\ None \notin Login /\ None \notin Password /\ None \notin Context
  /\ NoVPN \notin Password \cup {None}
  /\ Installers \subseteq Machine /\ Removers \subseteq Machine
  /\ Commands \subseteq {"sync", "login", "logout", "add", "install", "install --no-vpn"}

VARIABLES
  k3s,       \* has an install got as far as a running k3s
  admin,     \* the password the VPN's admin UI accepts, None if there is no VPN
  secret,    \* the Secret kube-system/jekyo-credentials
  contexts,  \* Machine -> its context's meta.yaml, None if it has none
  job        \* Machine -> the command it is running

vars == <<k3s, admin, secret, contexts, job>>

\* "get" and "put" are the two calls of writeClusterCreds.
PC == {"idle", "read", "save", "get", "put", "change", "saveChange",
       "pushGet", "pushPut", "done",
       "readServer", "k3s", "manifests", "saveInstall", "saveAdd"}

Job == [pc     : PC,
        cmd    : Commands \cup {"none"},
        host   : Host \cup {None},    \* the registry of a login or logout
        login  : Login \cup {None},
        m      : Context,             \* the context in memory
        push   : BOOLEAN,             \* the Secret lacks something of m
        warned : BOOLEAN,             \* a call has failed
        synced : BOOLEAN,             \* m has the Secret merged in, and it has
                                      \* not been written by others since
        fresh  : BOOLEAN]             \* nor since it was got for the update

Idle == [pc |-> "idle", cmd |-> "none", host |-> None, login |-> None,
         m |-> [vpn |-> NoVPN, logins |-> NoLogins],
         push |-> FALSE, warned |-> FALSE, synced |-> FALSE, fresh |-> FALSE]

TypeOK ==
  /\ k3s \in BOOLEAN
  /\ admin \in Password \cup {None}
  /\ secret \in Secret
  /\ contexts \in [Machine -> Context \cup {None}]
  /\ job \in [Machine -> Job]

Init ==
  /\ k3s = FALSE
  /\ admin = None
  /\ secret = [vpn |-> None, logins |-> NoLogins]
  /\ contexts = [m \in Machine |-> None]
  /\ job = [m \in Machine |-> Idle]

Become(m, j) == job' = [job EXCEPT ![m] = j]

-----------------------------------------------------------------------------
(***************************************************************************)
(* Slips.  Forms of the definitions below with a bug that could have been  *)
(* in the code.  Nothing uses them: each is put in the place of its        *)
(* definition to see that a property notices.                              *)
(***************************************************************************)

\* MergedLogins, had only a context without any logins taken the server's.
MergedLoginsOwn(c, s) == IF c.logins = NoLogins THEN s.logins ELSE c.logins

\* Lacks, had the merge not noticed that the Secret has no VPN password.
LacksLogins(c, s) == \E h \in Host : c.logins[h] # None /\ s.logins[h] = None

\* Stored, had writeClusterCreds written the VPN entry of any context.
StoredAny(c) == c

\* Install, had it not looked at the context it replaces.
InstallAnew(m, cmd) ==
  /\ job[m].pc = "idle" /\ cmd \in Commands \cap {"install", "install --no-vpn"}
  /\ m \in Installers
  /\ Become(m, [Idle EXCEPT !.pc = "readServer", !.cmd = cmd, !.m.vpn = None])
  /\ UNCHANGED <<k3s, admin, secret, contexts>>

-----------------------------------------------------------------------------
(***************************************************************************)
(* mergeClusterCreds.                                                      *)
(***************************************************************************)

\* The server's VPN password wins, for a context that has a VPN at all; of the
\* logins it is the union, where the server's wins host by host.
MergedVPN(c, s) == IF c.vpn # NoVPN /\ s.vpn # None THEN s.vpn ELSE c.vpn
MergedLogins(c, s) == [h \in Host |-> IF s.logins[h] # None THEN s.logins[h] ELSE c.logins[h]]
Merged(c, s) == [vpn |-> MergedVPN(c, s), logins |-> MergedLogins(c, s)]

\* Does the server lack something of c?
Lacks(c, s) ==
  \/ s.vpn = None /\ c.vpn \notin {None, NoVPN}
  \/ MergedLogins(c, s) # s.logins

\* What writeClusterCreds makes of a context: without a VPN there is no
\* password in the Secret.
Stored(c) == [vpn |-> IF c.vpn = NoVPN THEN None ELSE c.vpn, logins |-> c.logins]

-----------------------------------------------------------------------------
(***************************************************************************)
(* Commands start.  up and vpn just sync; login and logout sync, change    *)
(* the logins, save and push; add and install make a context and sync.     *)
(***************************************************************************)

Starts(m, cmd) == job[m].pc = "idle" /\ cmd \in Commands

Sync(m) ==
  /\ Starts(m, "sync") /\ contexts[m] # None
  /\ Become(m, [Idle EXCEPT !.pc = "read", !.cmd = "sync", !.m = contexts[m]])
  /\ UNCHANGED <<k3s, admin, secret, contexts>>

RegistryLogin(m, h, l) ==
  /\ Starts(m, "login") /\ contexts[m] # None
  /\ Become(m, [Idle EXCEPT !.pc = "read", !.cmd = "login", !.m = contexts[m],
                            !.host = h, !.login = l])
  /\ UNCHANGED <<k3s, admin, secret, contexts>>

RegistryLogout(m, h) ==
  /\ Starts(m, "logout") /\ contexts[m] # None
  /\ Become(m, [Idle EXCEPT !.pc = "read", !.cmd = "logout", !.m = contexts[m], !.host = h])
  /\ UNCHANGED <<k3s, admin, secret, contexts>>

\* context add adopts a server on which k3s runs.  The VPN is there once its
\* manifest is; the password is what the Secret holds, nothing if the read
\* over SSH fails.
ContextAdd(m) ==
  /\ Starts(m, "add") /\ k3s /\ contexts[m] = None
  /\ \E read \in {secret.vpn, None} :
       Become(m, [Idle EXCEPT !.pc = "saveAdd", !.cmd = "add",
                              !.m.vpn = IF admin = None THEN NoVPN ELSE read])
  /\ UNCHANGED <<k3s, admin, secret, contexts>>

\* server install starts from the credentials of the context it will replace.
Install(m, cmd) ==
  /\ Starts(m, cmd) /\ cmd \in {"install", "install --no-vpn"} /\ m \in Installers
  /\ Become(m, [Idle EXCEPT !.pc = "readServer", !.cmd = cmd,
                            !.m = IF contexts[m] = None THEN [@ EXCEPT !.vpn = None]
                                  ELSE [contexts[m] EXCEPT !.vpn = IF @ = NoVPN THEN None ELSE @]])
  /\ UNCHANGED <<k3s, admin, secret, contexts>>

-----------------------------------------------------------------------------
(***************************************************************************)
(* syncCreds.                                                              *)
(***************************************************************************)

\* What a command does when its sync has ended, well or with a warning.
AfterSync(j) == [j EXCEPT !.push = FALSE, !.fresh = FALSE,
                          !.pc = IF j.cmd \in {"login", "logout"} THEN "change" ELSE "done"]

ReadSecret(m) ==
  LET j == job[m]
      merged == [j EXCEPT !.m = Merged(j.m, secret), !.push = Lacks(j.m, secret), !.synced = TRUE]
  IN /\ j.pc = "read" /\ k3s
     /\ Become(m, IF merged.m # j.m THEN [merged EXCEPT !.pc = "save"]
                  ELSE IF merged.push THEN [merged EXCEPT !.pc = "get"]
                  ELSE AfterSync(merged))
     /\ UNCHANGED <<k3s, admin, secret, contexts>>

SaveMerged(m) ==
  /\ job[m].pc = "save"
  /\ contexts' = [contexts EXCEPT ![m] = job[m].m]
  /\ Become(m, IF job[m].push THEN [job[m] EXCEPT !.pc = "get"] ELSE AfterSync(job[m]))
  /\ UNCHANGED <<k3s, admin, secret>>

\* writeClusterCreds gets the Secret again, for its version only.
GetSecret(m) ==
  /\ job[m].pc \in {"get", "pushGet"}
  /\ Become(m, [job[m] EXCEPT !.fresh = TRUE,
                              !.pc = IF @ = "get" THEN "put" ELSE "pushPut"])
  /\ UNCHANGED <<k3s, admin, secret, contexts>>

\* The update, or the create, that succeeds only if nobody wrote in between.
PutSecret(m) ==
  /\ job[m].pc \in {"put", "pushPut"} /\ job[m].fresh
  /\ secret' = Stored(job[m].m)
  /\ job' = [n \in Machine |->
               IF n # m THEN [job[n] EXCEPT !.synced = FALSE, !.fresh = FALSE]
               ELSE IF job[m].pc = "put" THEN AfterSync(job[m])
               ELSE [job[m] EXCEPT !.pc = "done", !.fresh = FALSE]]
  /\ UNCHANGED <<k3s, admin, contexts>>

\* Any of these calls can fail, and all a failure does is a warning.
SyncFails(m) ==
  LET warned == [job[m] EXCEPT !.warned = TRUE]
  IN /\ \/ /\ job[m].pc \in {"read", "save", "get", "put"}
           /\ Become(m, AfterSync(warned))
        \/ /\ job[m].pc \in {"pushGet", "pushPut"}
           /\ Become(m, [warned EXCEPT !.pc = "done", !.fresh = FALSE])
     /\ UNCHANGED <<k3s, admin, secret, contexts>>

-----------------------------------------------------------------------------
(***************************************************************************)
(* registry login and logout after their sync.                             *)
(***************************************************************************)

\* A logout of a registry without a login is refused.
ChangeLogins(m) ==
  /\ job[m].pc = "change"
  /\ Become(m, IF job[m].cmd = "logout" /\ job[m].m.logins[job[m].host] = None THEN Idle
               ELSE [job[m] EXCEPT !.pc = "saveChange", !.m.logins[job[m].host] = job[m].login])
  /\ UNCHANGED <<k3s, admin, secret, contexts>>

SaveChange(m) ==
  /\ job[m].pc = "saveChange"
  /\ contexts' = [contexts EXCEPT ![m] = job[m].m]
  /\ Become(m, [job[m] EXCEPT !.pc = "pushGet"])
  /\ UNCHANGED <<k3s, admin, secret>>

-----------------------------------------------------------------------------
(***************************************************************************)
(* server install and context add.                                         *)
(***************************************************************************)

\* Nobody has this password.
Unknown(pw) ==
  /\ pw # admin /\ pw # secret.vpn
  /\ \A n \in Machine : /\ job[n].m.vpn # pw
                        /\ contexts[n] # None => contexts[n].vpn # pw

\* The Secret's password wins over the context's; if the Secret has none, or
\* cannot be read, and the context neither, a new one is made.
ReadServer(m) ==
  /\ job[m].pc = "readServer"
  /\ \E read \in {secret.vpn, None}, pw \in Password :
       LET known == IF read # None THEN read ELSE job[m].m.vpn
       IN /\ IF known = None THEN Unknown(pw) ELSE pw = known
          /\ Become(m, [job[m] EXCEPT !.pc = "k3s", !.m.vpn = pw])
  /\ UNCHANGED <<k3s, admin, secret, contexts>>

InstallK3s(m) ==
  /\ job[m].pc = "k3s"
  /\ k3s' = TRUE
  /\ Become(m, [job[m] EXCEPT !.pc = "manifests"])
  /\ UNCHANGED <<admin, secret, contexts>>

\* The manifest of the VPN carries a hash of the password.
WriteManifests(m) ==
  /\ job[m].pc = "manifests"
  /\ admin' = IF job[m].cmd = "install" THEN job[m].m.vpn ELSE admin
  /\ Become(m, [job[m] EXCEPT !.pc = "saveInstall",
                              !.m.vpn = IF job[m].cmd = "install" THEN @ ELSE NoVPN])
  /\ UNCHANGED <<k3s, secret, contexts>>

SaveContext(m) ==
  /\ job[m].pc \in {"saveInstall", "saveAdd"}
  /\ contexts' = [contexts EXCEPT ![m] = job[m].m]
  /\ Become(m, [job[m] EXCEPT !.pc = "read"])
  /\ UNCHANGED <<k3s, admin, secret>>

-----------------------------------------------------------------------------

Return(m) ==
  /\ job[m].pc = "done"
  /\ Become(m, Idle)
  /\ UNCHANGED <<k3s, admin, secret, contexts>>

\* The command ends early; an install also when any of its steps fails.
Abort(m) ==
  /\ job[m].pc \notin {"idle", "done"}
  /\ Become(m, Idle)
  /\ UNCHANGED <<k3s, admin, secret, contexts>>

ContextRemove(m) ==
  /\ job[m].pc = "idle" /\ m \in Removers /\ contexts[m] # None
  /\ contexts' = [contexts EXCEPT ![m] = None]
  /\ UNCHANGED <<k3s, admin, secret, job>>

Start(m) ==
  \/ Sync(m) \/ ContextAdd(m)
  \/ \E h \in Host : RegistryLogout(m, h) \/ \E l \in Login : RegistryLogin(m, h, l)
  \/ \E cmd \in Commands : Install(m, cmd)

Step(m) ==
  \/ ReadSecret(m) \/ SaveMerged(m) \/ GetSecret(m) \/ PutSecret(m) \/ SyncFails(m)
  \/ ChangeLogins(m) \/ SaveChange(m)
  \/ ReadServer(m) \/ InstallK3s(m) \/ WriteManifests(m) \/ SaveContext(m)
  \/ Return(m) \/ Abort(m)

Next == \E m \in Machine : Start(m) \/ Step(m) \/ ContextRemove(m)

Spec == Init /\ [][Next]_vars

-----------------------------------------------------------------------------
(***************************************************************************)
(* What the machines can rely on.                                          *)
(***************************************************************************)

\* A command whose sync has succeeded, with nobody else writing since, changes
\* on the server no login but the one it is about: a login another machine
\* has stored is lost only to a command that went on after its sync had
\* failed, or that another one overtook (mergeClusterCreds, pushCreds).
LoginsChange ==
  [][\A h \in Host : (secret.logins[h] # None /\ secret'.logins[h] # secret.logins[h]) =>
       \E m \in Machine : PutSecret(m) /\ (job[m].synced => job[m].host = h)]_vars

\* A command that ends without a warning, with nobody else writing meanwhile,
\* leaves its machine's context and the Secret in agreement (syncCreds).
CleanCommandsAgree ==
  \A m \in Machine : (job[m].pc = "done" /\ job[m].synced /\ ~job[m].warned) =>
    /\ contexts[m] = job[m].m
    /\ contexts[m].logins = secret.logins
    /\ contexts[m].vpn # NoVPN => contexts[m].vpn = secret.vpn

\* Where one machine installs, always with the VPN, and keeps its context,
\* every VPN password a context or the Secret holds opens the admin UI: from
\* crashed installs, failed syncs and Secrets emptied by contexts without a
\* VPN nothing stale is left (newServerInstallCmd).
KnownPasswordsWork ==
  /\ secret.vpn # None => secret.vpn = admin
  /\ \A m \in Machine : (contexts[m] # None /\ contexts[m].vpn \in Password) =>
                           contexts[m].vpn = admin

=============================================================================

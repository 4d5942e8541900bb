------------------------------- MODULE Install -------------------------------
(***************************************************************************)
(* jekyo server install and uninstall: cmd/jekyo/server.go and             *)
(* internal/provision, one step for each call that changes the server or   *)
(* the machine, beside the k3s that the server runs.  Several machines may *)
(* install the same server, each from what its own context knows.          *)
(*                                                                         *)
(* Of the credentials it is the registry's password that passes through    *)
(* here: the server's registries.yaml, what k3s has read of it, the        *)
(* registry's manifest, the contexts.  The VPN's is in module Credentials. *)
(***************************************************************************)
EXTENDS Naturals, Sequences, FiniteSets, Preflight

CONSTANTS
  Machine,
  Local,          \* the addresses the server has
  Scenarios,      \* bound: the server's facts at first; what is run by whom, in order
  MaxPasswords,   \* bound: passwords that are made
  MaxKills,       \* bound: commands that are killed or fail
  None

Runs == [kind : {"install"}, cfg : Config] \cup [kind : {"uninstall"}]

ASSUME InstallAssumption ==
  /\ Local \subseteq STRING
  /\ \A s \in Scenarios : s.host \in Facts /\ s.host.addrs \in {Local, {}} /\ s.runs \in [Machine -> Seq(Runs)]
  /\ MaxPasswords \in Nat /\ MaxKills \in Nat
  /\ None \notin Nat \cup Facts \cup [ip : STRING, password : Nat \cup {None}]

VARIABLES
  host,        \* the facts of the server, as they are
  k3s,         \* the k3s that runs: the address and registries.yaml it started with
  registries,  \* registries.yaml: the password in it
  manifests,   \* the addon files in k3s's directory: addon -> the password in it
  applied,     \* what k3s has applied of them
  certgen,     \* contour's certgen Job
  cert,        \* the secret contourcert
  contexts,    \* Machine -> [password, kubeconfig]
  cmd,         \* Machine -> the command it runs
  fresh,       \* the next password
  missed,      \* an install ended after it wrote registries.yaml and before it restarted
               \* k3s, or did not know, from its facts, that k3s was running
  kills, plan

vars   == <<host, k3s, registries, manifests, applied, certgen, cert, contexts, cmd, fresh, missed, kills, plan>>
addons == <<manifests, applied, certgen, cert>>
bounds == <<fresh, kills, plan>>

Password == 0..MaxPasswords
Addon    == {"contour", "registry", "nvidia", "vpn", "kcert"}

PC == {"idle", "facts", "docker", "fix", "preflight", "creds", "appArmor", "registries", "k3s",
       "restart", "node", "gpu", "manifests", "certgen", "contour", "registry", "save", "kubeconfig",
       "ready", "refused", "uninstall", "config", "remove"}

\* changed: registriesChanged.  alone: no other machine has run a command on
\* the server meanwhile.  round: how often the facts have been gathered for
\* --remove-docker and --fix.
Idle == [pc |-> "idle", cfg |-> None, facts |-> None, round |-> {}, password |-> None,
         changed |-> FALSE, todo |-> {}, alone |-> TRUE]

TypeOK ==
  /\ host \in Facts
  /\ k3s = None \/ k3s \in [ip : STRING, password : Password \cup {None}]
  /\ registries \in Password \cup {None}
  /\ manifests \in [Addon -> Password \cup {None}] /\ applied \in [Addon -> Password \cup {None}]
  /\ certgen \in {"none", "running", "failed", "done"} /\ cert \in BOOLEAN
  /\ contexts \in [Machine -> [password : Password, kubeconfig : BOOLEAN] \cup {None}]
  /\ \A m \in Machine :
       LET c == cmd[m]
       IN  /\ c.pc \in PC /\ c.changed \in BOOLEAN /\ c.alone \in BOOLEAN
           /\ c.todo \subseteq Addon /\ c.round \subseteq {"docker", "fix"}
           /\ c.facts # None => c.facts \in Facts
           /\ c.pc \in {"registries", "k3s", "restart", "manifests", "save"} => c.password \in Password
  /\ k3s = None => \A a \in Addon : manifests[a] = None /\ applied[a] = None
  /\ cert => certgen = "done"
  /\ fresh \in 0..(MaxPasswords + 1) /\ missed \in BOOLEAN /\ kills \in 0..MaxKills

\* A server without k3s, and machines without contexts.
Init ==
  /\ \E s \in Scenarios : ~s.host.k3s /\ host = s.host /\ plan = s.runs
  /\ k3s = None /\ registries = None
  /\ manifests = [a \in Addon |-> None] /\ applied = [a \in Addon |-> None]
  /\ certgen = "none" /\ cert = FALSE
  /\ contexts = [m \in Machine |-> None]
  /\ cmd = [m \in Machine |-> Idle]
  /\ fresh = 0 /\ missed = FALSE /\ kills = 0

-----------------------------------------------------------------------------
(***************************************************************************)
(* k3s: it applies the manifests in its directory, and runs their Jobs.    *)
(***************************************************************************)

Reachable == k3s # None /\ k3s.ip \in Local

\* Applying contour creates its certgen Job, unless it is there, ended or not.
Created(j) == IF j = "none" THEN "running" ELSE j

ApplyAddon(a) ==
  /\ k3s # None /\ manifests[a] # None /\ applied[a] # manifests[a]
  /\ applied' = [applied EXCEPT ![a] = manifests[a]]
  /\ certgen' = IF a = "contour" THEN Created(certgen) ELSE certgen
  /\ UNCHANGED <<host, k3s, registries, manifests, cert, contexts, cmd, missed>> /\ UNCHANGED bounds

\* certgen writes the secret through the API; without it the Job fails for good.
RunCertgen ==
  /\ certgen = "running"
  /\ certgen' = IF Reachable THEN "done" ELSE "failed"
  /\ cert' = Reachable
  /\ UNCHANGED <<host, k3s, registries, manifests, applied, contexts, cmd, missed>> /\ UNCHANGED bounds

\* deploy/contour is available.
Available == cert /\ applied["contour"] # None /\ Reachable

Started(ip) == [ip |-> ip, password |-> registries]

-----------------------------------------------------------------------------
(***************************************************************************)
(* Commands: how they begin and end.                                       *)
(***************************************************************************)

At(m, pc)    == cmd[m].pc = pc
Become(m, c) == cmd' = [cmd EXCEPT ![m] = c]
To(m, pc)    == Become(m, [cmd[m] EXCEPT !.pc = pc])
World        == <<host, k3s, registries, contexts, missed>>

Busy(m) == cmd[m].pc # "idle"

\* It has the address, and the context it was given or will make.
Begin(m) ==
  LET r == Head(plan[m])
      c == IF r.kind = "install" THEN [Idle EXCEPT !.pc = "facts", !.cfg = r.cfg] ELSE [Idle EXCEPT !.pc = "uninstall"]
      others == {n \in Machine \ {m} : Busy(n)}
  IN  /\ At(m, "idle") /\ plan[m] # <<>>
      /\ plan' = [plan EXCEPT ![m] = Tail(@)]
      /\ r.kind = "uninstall" => contexts[m] # None
      /\ cmd' = [n \in Machine |-> IF n = m THEN [c EXCEPT !.alone = others = {}]
                                   ELSE IF n \in others THEN [cmd[n] EXCEPT !.alone = FALSE] ELSE cmd[n]]
      /\ UNCHANGED <<fresh, kills>> /\ UNCHANGED World /\ UNCHANGED addons

Return(m) ==
  /\ cmd[m].pc \in {"ready", "refused"}
  /\ Become(m, Idle)
  /\ UNCHANGED World /\ UNCHANGED addons /\ UNCHANGED bounds

\* Killed, or a step fails; what is waited for may also take too long.
Fails(m) ==
  /\ Busy(m) /\ cmd[m].pc \notin {"ready", "refused"}
  /\ kills < MaxKills /\ kills' = kills + 1
  /\ missed' = (missed \/ (cmd[m].pc \in {"k3s", "restart"} /\ cmd[m].changed /\ k3s # None))
  /\ Become(m, Idle)
  /\ UNCHANGED <<host, k3s, registries, contexts, fresh, plan>> /\ UNCHANGED addons

-----------------------------------------------------------------------------
(***************************************************************************)
(* install, up to the preflight's verdict.                                 *)
(***************************************************************************)

\* FactsOnce (a slip): the facts are not gathered again after the fixes.
FactsOnce(m) ==
  /\ At(m, "facts")
  /\ Become(m, [cmd[m] EXCEPT !.facts = IF @ = None THEN host ELSE @, !.pc = "docker"])
  /\ UNCHANGED World /\ UNCHANGED addons /\ UNCHANGED bounds

GatherFacts(m) ==
  /\ At(m, "facts")
  /\ Become(m, [cmd[m] EXCEPT !.facts = host, !.pc = "docker"])
  /\ UNCHANGED World /\ UNCHANGED addons /\ UNCHANGED bounds

RemoveDocker(m) ==
  LET c == cmd[m]
      needed == c.cfg.removeDocker /\ c.facts.docker /\ c.round = {}
  IN  /\ At(m, "docker")
      /\ host' = IF needed THEN WithoutDocker(host) ELSE host
      /\ Become(m, IF needed THEN [c EXCEPT !.pc = "facts", !.round = {"docker"}] ELSE [c EXCEPT !.pc = "fix"])
      /\ UNCHANGED <<k3s, registries, contexts, missed>> /\ UNCHANGED addons /\ UNCHANGED bounds

\* The fixes are for what the first preflight found.
ApplyFixes(m) ==
  LET c == cmd[m]
      found == Fixables(Preflight(c.facts, c.cfg))
      needed == c.cfg.fix /\ found # {} /\ "fix" \notin c.round
  IN  /\ At(m, "fix")
      /\ host' = IF needed THEN Fixed(host, found) ELSE host
      /\ Become(m, IF needed THEN [c EXCEPT !.pc = "facts", !.round = {"docker", "fix"}]
                   ELSE [c EXCEPT !.pc = "preflight"])
      /\ UNCHANGED <<k3s, registries, contexts, missed>> /\ UNCHANGED addons /\ UNCHANGED bounds

Verdict(m) ==
  /\ At(m, "preflight")
  /\ To(m, IF Blocking(Preflight(cmd[m].facts, cmd[m].cfg)) THEN "refused" ELSE "creds")
  /\ UNCHANGED World /\ UNCHANGED addons /\ UNCHANGED bounds

-----------------------------------------------------------------------------
(***************************************************************************)
(* install: Install.                                                       *)
(***************************************************************************)

\* The password in registries.yaml, if it can be read; else the context's;
\* else a new one.
Credentials(m) ==
  LET known(read) == IF read # None THEN read
                     ELSE IF contexts[m] # None THEN contexts[m].password ELSE None
  IN  /\ At(m, "creds")
      /\ \E read \in {registries, None} :
           \/ /\ known(read) # None
              /\ Become(m, [cmd[m] EXCEPT !.password = known(read), !.pc = "appArmor"])
              /\ UNCHANGED fresh
           \/ /\ known(read) = None /\ fresh <= MaxPasswords /\ fresh' = fresh + 1
              /\ Become(m, [cmd[m] EXCEPT !.password = fresh, !.pc = "appArmor"])
      /\ UNCHANGED <<kills, plan>> /\ UNCHANGED World /\ UNCHANGED addons

\* Not gated behind --fix.
FixAppArmor(m) ==
  /\ At(m, "appArmor")
  /\ host' = [host EXCEPT !.criAppArmorManaged = @ \/ cmd[m].facts.appArmor4]
  /\ To(m, "registries")
  /\ UNCHANGED <<k3s, registries, contexts, missed>> /\ UNCHANGED addons /\ UNCHANGED bounds

\* WriteRegistriesFirst (a slip): compared with what has just been written.
WriteRegistriesFirst(m) ==
  /\ At(m, "registries")
  /\ registries' = cmd[m].password
  /\ Become(m, [cmd[m] EXCEPT !.changed = registries' # cmd[m].password, !.pc = "k3s"])
  /\ UNCHANGED <<host, k3s, contexts, missed>> /\ UNCHANGED addons /\ UNCHANGED bounds

WriteRegistries(m) ==
  /\ At(m, "registries")
  /\ registries' = cmd[m].password
  /\ Become(m, [cmd[m] EXCEPT !.changed = registries # cmd[m].password, !.pc = "k3s"])
  /\ UNCHANGED <<host, k3s, contexts, missed>> /\ UNCHANGED addons /\ UNCHANGED bounds

\* The installer script starts k3s, and restarts it if its flags have changed.
InstallK3s(m) ==
  LET c == cmd[m]
      starts == k3s = None \/ k3s.ip # c.cfg.ip
  IN  /\ At(m, "k3s")
      /\ k3s' = IF starts THEN Started(c.cfg.ip) ELSE k3s
      /\ missed' = (~starts /\ (missed \/ (c.changed /\ ~c.facts.k3s)))
      /\ host' = [host EXCEPT !.k3s = TRUE, !.held = [@ EXCEPT !["6443/tcp"] = "k3s"]]
      /\ To(m, IF c.changed /\ c.facts.k3s THEN "restart" ELSE "node")
      /\ UNCHANGED <<registries, contexts>> /\ UNCHANGED addons /\ UNCHANGED bounds

Restart(m, pc, next) ==
  /\ At(m, pc) /\ k3s # None
  /\ k3s' = Started(k3s.ip) /\ missed' = FALSE
  /\ To(m, next)
  /\ UNCHANGED <<host, registries, contexts>> /\ UNCHANGED addons /\ UNCHANGED bounds

RestartK3s(m) == Restart(m, "restart", "node")

GPU(c) == c.facts.gpu /\ ~c.cfg.noGPU

WaitNode(m) ==
  /\ At(m, "node") /\ k3s # None
  /\ To(m, IF GPU(cmd[m]) THEN "gpu" ELSE "manifests")
  /\ UNCHANGED World /\ UNCHANGED addons /\ UNCHANGED bounds

InstallGPU(m) == Restart(m, "gpu", "manifests")

Render(c) ==
  {"contour", "registry"} \cup (IF GPU(c) THEN {"nvidia"} ELSE {}) \cup (IF c.cfg.domain THEN {"kcert"} ELSE {})
  \cup (IF ~c.cfg.noVPN /\ c.facts.wireguard THEN {"vpn"} ELSE {})

\* One file after the other, in an order of Go's; a file not written stays.
\* Only the registry's has the password (0 stands for the others' content).
WriteManifest(m, a) ==
  LET left == {b \in Render(cmd[m]) : b \notin cmd[m].todo}
  IN  /\ At(m, "manifests") /\ k3s # None /\ a \in left
      /\ manifests' = [manifests EXCEPT ![a] = IF a = "registry" THEN cmd[m].password ELSE 0]
      /\ Become(m, IF left = {a} THEN [cmd[m] EXCEPT !.todo = {}, !.pc = "certgen"]
                   ELSE [cmd[m] EXCEPT !.todo = @ \cup {a}])
      /\ UNCHANGED <<applied, certgen, cert>> /\ UNCHANGED World /\ UNCHANGED bounds

\* Slips: the Job is left alone; or it is run again, whatever there is.
EnsureNothing(m) ==
  /\ At(m, "certgen")
  /\ To(m, "contour")
  /\ UNCHANGED World /\ UNCHANGED addons /\ UNCHANGED bounds

EnsureAnew(m) ==
  /\ At(m, "certgen") /\ k3s # None
  /\ certgen' = "running" /\ applied' = [applied EXCEPT !["contour"] = manifests["contour"]]
  /\ To(m, "contour")
  /\ UNCHANGED <<manifests, cert>> /\ UNCHANGED World /\ UNCHANGED bounds

\* Without the secret, a Job that has not succeeded is deleted, and contour is
\* applied, which creates it anew.
EnsureCertgen(m) ==
  /\ At(m, "certgen")
  /\ IF cert \/ k3s = None THEN UNCHANGED <<certgen, applied>>
     ELSE /\ certgen' = IF certgen = "done" THEN "done" ELSE "running"
          /\ applied' = [applied EXCEPT !["contour"] = manifests["contour"]]
  /\ To(m, "contour")
  /\ UNCHANGED <<manifests, cert>> /\ UNCHANGED World /\ UNCHANGED bounds

WaitContour(m) ==
  /\ At(m, "contour") /\ Available
  /\ To(m, "registry")
  /\ UNCHANGED World /\ UNCHANGED addons /\ UNCHANGED bounds

\* The registry, then kcert and the VPN, come up, as they are or as they were.
WaitAddons(m) ==
  /\ At(m, "registry")
  /\ \A a \in Render(cmd[m]) \ {"contour", "nvidia"} : applied[a] # None
  /\ To(m, "save")
  /\ UNCHANGED World /\ UNCHANGED addons /\ UNCHANGED bounds

\* The kubeconfig has been read; the context is saved, then its kubeconfig.
SaveContext(m) ==
  /\ At(m, "save") /\ k3s # None
  /\ contexts' = [contexts EXCEPT ![m] = [password |-> cmd[m].password,
                                          kubeconfig |-> @ # None /\ @.kubeconfig]]
  /\ To(m, "kubeconfig")
  /\ UNCHANGED <<host, k3s, registries, missed>> /\ UNCHANGED addons /\ UNCHANGED bounds

SaveKubeconfig(m) ==
  /\ At(m, "kubeconfig")
  /\ contexts' = [contexts EXCEPT ![m].kubeconfig = TRUE]
  /\ To(m, "ready")
  /\ UNCHANGED <<host, k3s, registries, missed>> /\ UNCHANGED addons /\ UNCHANGED bounds

-----------------------------------------------------------------------------
(***************************************************************************)
(* uninstall.                                                              *)
(***************************************************************************)

\* k3s's own script removes it with all it kept.
UninstallK3s(m) ==
  /\ At(m, "uninstall")
  /\ k3s' = None /\ missed' = FALSE
  /\ host' = [host EXCEPT !.k3s = FALSE,
                          !.held = [p \in Port |-> IF @[p] = "k3s" THEN "nobody" ELSE @[p]]]
  /\ manifests' = [a \in Addon |-> None] /\ applied' = [a \in Addon |-> None]
  /\ certgen' = "none" /\ cert' = FALSE
  /\ To(m, "config")
  /\ UNCHANGED <<registries, contexts>> /\ UNCHANGED bounds

RemoveConfig(m) ==
  /\ At(m, "config")
  /\ registries' = None
  /\ To(m, "remove")
  /\ UNCHANGED <<host, k3s, contexts, missed>> /\ UNCHANGED addons /\ UNCHANGED bounds

RemoveContext(m) ==
  /\ At(m, "remove")
  /\ contexts' = [contexts EXCEPT ![m] = None]
  /\ Become(m, Idle)
  /\ UNCHANGED <<host, k3s, registries, missed>> /\ UNCHANGED addons /\ UNCHANGED bounds

-----------------------------------------------------------------------------

Step(m) ==
  \/ GatherFacts(m) \/ RemoveDocker(m) \/ ApplyFixes(m) \/ Verdict(m) \/ Credentials(m)
  \/ FixAppArmor(m) \/ WriteRegistries(m) \/ InstallK3s(m) \/ RestartK3s(m) \/ WaitNode(m)
  \/ InstallGPU(m) \/ (\E a \in Addon : WriteManifest(m, a)) \/ EnsureCertgen(m)
  \/ WaitContour(m) \/ WaitAddons(m) \/ SaveContext(m) \/ SaveKubeconfig(m)
  \/ UninstallK3s(m) \/ RemoveConfig(m) \/ RemoveContext(m)

Next ==
  \/ \E m \in Machine : Begin(m) \/ Step(m) \/ Return(m) \/ Fails(m)
  \/ \E a \in Addon : ApplyAddon(a)
  \/ RunCertgen

\* k3s reconciles, and runs a Job; a command may be killed at any point.
Spec == Init /\ [][Next]_vars /\ WF_vars(RunCertgen) /\ \A a \in Addon : WF_vars(ApplyAddon(a))

-----------------------------------------------------------------------------
(***************************************************************************)
(* Properties.                                                             *)
(***************************************************************************)

\* A server reported ready pulls from its own registry: containerd has the
\* password of the registry's manifest, which is also the context's, whatever
\* earlier installs failed at, and of whom (Install, newServerInstallCmd).
\* Excepted are installs that another command ran beside (alone), and servers on
\* which one has ended between writing registries.yaml and the restart k3s needs
\* to read it (missed).
PullsWork ==
  \A m \in Machine : At(m, "ready") /\ cmd[m].alone /\ ~missed =>
    /\ k3s.password = registries /\ manifests["registry"] = registries
    /\ contexts[m] = [password |-> registries, kubeconfig |-> TRUE]

\* k3s never starts with an address the server does not have, unless its
\* addresses could not be listed: the check blocks before anything of Install.
AddressHeld == k3s # None /\ k3s.ip \notin Local => host.addrs = {}

\* With --fix an install is refused only for what has no fix, as the facts are
\* gathered again, whoever else is at it (newServerInstallCmd, ApplyFixes).
FixesSuffice ==
  \A m \in Machine : At(m, "refused") /\ cmd[m].cfg.fix =>
    LET results == Preflight(cmd[m].facts, cmd[m].cfg)
    IN  \E c \in DOMAIN results : results[c] = "FAIL" /\ c \notin Fixable

\* An install that waits for contour on an address the API can be reached at
\* does not wait in vain, though an earlier one left a certgen Job that has
\* failed for good (issue #32).
ContourComes ==
  \A m \in Machine : (At(m, "contour") /\ cmd[m].alone /\ Reachable) ~> (Available \/ ~Reachable)
=============================================================================

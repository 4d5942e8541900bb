------------------------------ MODULE Preflight ------------------------------
(***************************************************************************)
(* internal/provision/preflight.go: what `jekyo server install` asks of a  *)
(* server before it touches it, check by check, on the facts of facts.go.  *)
(* A number is abstracted to what its check compares it with, a text to    *)
(* what it is matched against.                                             *)
(***************************************************************************)
EXTENDS Naturals

Port == {"80/tcp", "443/tcp", "6443/tcp", "31820/udp"}

Facts ==
  [os : {"tested", "untested", "other"},      \* OSID, OSVersion
   arch : {"x86_64", "aarch64", "other"},
   memory : {"enough", "low", "unknown"}, disk : {"enough", "low", "unknown"},
   lvmFree : BOOLEAN,                         \* 10 GB or more left in the volume group
   held : [Port -> {"nobody", "k3s", "docker", "other"}],
   k3s : BOOLEAN, otherK8s : BOOLEAN, docker : BOOLEAN,
   ufw : BOOLEAN, networkManager : BOOLEAN, clockSynced : BOOLEAN,
   wireguard : BOOLEAN, swap : BOOLEAN,
   gpu : BOOLEAN, secureBoot : BOOLEAN, nouveau : BOOLEAN,
   aptMissing : BOOLEAN, wgQuickAppArmor : BOOLEAN,
   appArmor4 : BOOLEAN, criAppArmorManaged : BOOLEAN,
   addrs : SUBSET STRING]                     \* {} if they could not be listed

Config == [ip : STRING, domain : BOOLEAN, noVPN : BOOLEAN, noGPU : BOOLEAN,
           fix : BOOLEAN, removeDocker : BOOLEAN, pids : {"default", "low", "enough"}]

Status == {"PASS", "WARN", "FAIL"}
FailIf(b) == IF b THEN "FAIL" ELSE "PASS"
WarnIf(b) == IF b THEN "WARN" ELSE "PASS"

\* AnyIP (a slip): had the address only been warned about.
AnyIP(f, cfg) == TRUE
HasIP(f, cfg) == f.addrs = {} \/ cfg.ip \in f.addrs

Required(cfg) == IF cfg.noVPN THEN Port \ {"31820/udp"} ELSE Port

\* A check that is not made counts as passed.
Preflight(f, cfg) ==
  [os |-> IF f.os = "other" THEN "FAIL" ELSE WarnIf(f.os = "untested"),
   arch |-> IF f.arch = "other" THEN "FAIL" ELSE WarnIf(f.arch = "aarch64"),
   memory |-> FailIf(f.memory = "low"),
   disk |-> IF f.disk # "low" THEN "PASS" ELSE IF f.k3s THEN "WARN" ELSE "FAIL",
   volumeGroup |-> WarnIf(f.lvmFree),
   ports |-> FailIf(\E p \in Required(cfg) : f.held[p] \in {"docker", "other"}),
   otherKubernetes |-> FailIf(f.otherK8s),
   existingK3s |-> WarnIf(f.k3s),
   docker |-> WarnIf(f.docker),
   firewall |-> WarnIf(f.ufw),
   networkManager |-> WarnIf(f.networkManager),
   clockSync |-> WarnIf(~f.clockSynced),
   wireguard |-> WarnIf(~cfg.noVPN /\ ~f.wireguard),
   nodeIP |-> FailIf(~HasIP(f, cfg)),
   aptSources |-> IF ~f.aptMissing THEN "PASS" ELSE IF f.gpu /\ ~cfg.noGPU THEN "FAIL" ELSE "WARN",
   wgQuick |-> WarnIf(~cfg.noVPN /\ f.wgQuickAppArmor),
   containerSignals |-> WarnIf(f.appArmor4 /\ ~f.criAppArmorManaged),
   pidsLimit |-> FailIf(cfg.pids = "low"),
   swap |-> WarnIf(f.swap),
   secureBoot |-> WarnIf(~cfg.noGPU /\ f.gpu /\ f.secureBoot),
   nouveau |-> WarnIf(~cfg.noGPU /\ f.gpu /\ f.nouveau)]

Fixable == {"firewall", "networkManager", "clockSync", "aptSources", "wgQuick",
            "containerSignals", "nouveau"}

\* Fixables and Blocking.
Fixables(results) == {c \in Fixable : results[c] # "PASS"}
Blocking(results) == \E c \in DOMAIN results : results[c] = "FAIL"

\* What the FixCmds do to the facts: ufw and NetworkManager stay active, with
\* rules for k3s; nouveau stays loaded until the server is rebooted.
Fixed(f, cs) ==
  [f EXCEPT !.clockSynced = @ \/ "clockSync" \in cs,
            !.aptMissing = @ /\ "aptSources" \notin cs,
            !.wgQuickAppArmor = @ /\ "wgQuick" \notin cs,
            !.criAppArmorManaged = @ \/ "containerSignals" \in cs]

\* RemoveDocker: its containers let go of their ports.
WithoutDocker(f) ==
  [f EXCEPT !.docker = FALSE, !.held = [p \in Port |-> IF @[p] = "docker" THEN "nobody" ELSE @[p]]]
=============================================================================

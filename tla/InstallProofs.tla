----------------------------- MODULE InstallProofs -----------------------------
(***************************************************************************)
(* Theorems about Install, for any machines, scenarios, passwords and      *)
(* number of kills.  Whatever the machines do, k3s has read what is in     *)
(* registries.yaml, or somebody is about to restart it, or has missed to;  *)
(* an install that has been alone all the time has the rest in its hands.  *)
(***************************************************************************)
EXTENDS Install, TLAPS

K3s     == [ip : STRING, password : Password \cup {None}]
Context == [password : Password, kubeconfig : BOOLEAN]
Command == [pc : PC, cfg : Config \cup {None}, facts : Facts \cup {None}, round : SUBSET {"docker", "fix"},
            password : Password \cup {None}, changed : BOOLEAN, todo : SUBSET Addon, alone : BOOLEAN]

\* The calls of an install in their order.
Done      == {"certgen", "contour", "registry", "save", "kubeconfig", "ready"}
Running   == {"node", "gpu", "manifests"} \cup Done
Restarts  == {"k3s", "restart"}
Written   == Restarts \cup Running
Cleared   == {"creds", "appArmor", "registries"} \cup Written
Gathered  == {"docker", "fix", "preflight", "refused"} \cup Cleared
Installs  == {"facts"} \cup Gathered

Hopeless(c) ==
  LET results == Preflight(c.facts, c.cfg)
  IN  \E x \in DOMAIN results : results[x] = "FAIL" /\ x \notin Fixable

\* What a command knows of the server h, and what its preflight has shown.
CommandOK(c, h) ==
  /\ c.pc \in Installs => c.cfg \in Config
  /\ c.pc \in Gathered => c.facts \in Facts
  /\ c.facts \in Facts => c.facts.addrs = h.addrs /\ (h.aptMissing => c.facts.aptMissing)
  /\ "fix" \in c.round => ~h.aptMissing /\ (c.pc \in {"docker", "fix"} => ~c.facts.aptMissing)
  /\ c.pc = "preflight" /\ c.cfg.fix => ~c.facts.aptMissing
  /\ c.pc = "refused" /\ c.cfg.fix => Hopeless(c)
  /\ c.pc \in Cleared => c.cfg.ip \in Local \/ h.addrs = {}
  /\ c.pc \in Cleared \ {"creds"} => c.password \in Password
  /\ c.pc # "manifests" => c.todo = {}

\* What an install that is alone has achieved.
Progress(c, k, r, mf, ms) ==
  /\ c.pc \in Written => r = c.password
  /\ c.pc \in Running => k # None /\ (k.password = r \/ ms)
  /\ c.pc = "manifests" /\ "registry" \in c.todo => mf["registry"] = c.password
  /\ c.pc \in Done => mf["registry"] = c.password

\* Its context is its own.
Saved(c, x) ==
  /\ c.pc = "kubeconfig" => x \in Context /\ x.password = c.password
  /\ c.pc = "ready" => x = [password |-> c.password, kubeconfig |-> TRUE]

Alone(cs) ==
  \A m, n \in Machine : (m # n /\ cs[m].alone /\ cs[m].pc # "idle") => cs[n].pc = "idle"

\* k3s has not read registries.yaml as it is.
Stale(k, r) == k # None /\ r # None /\ k.password # r
Heals(c)    == c.pc \in Restarts /\ c.changed

TypeInv ==
  /\ host \in Facts
  /\ k3s \in K3s \cup {None}
  /\ registries \in Password \cup {None}
  /\ manifests \in [Addon -> Password \cup {None}] /\ applied \in [Addon -> Password \cup {None}]
  /\ certgen \in {"none", "running", "failed", "done"} /\ cert \in BOOLEAN
  /\ contexts \in [Machine -> Context \cup {None}]
  /\ cmd \in [Machine -> Command]
  /\ fresh \in 0..(MaxPasswords + 1) /\ missed \in BOOLEAN /\ kills \in 0..MaxKills
  /\ plan \in [Machine -> Seq(Runs)]

ServerOK ==
  /\ k3s = None => \A a \in Addon : manifests[a] = None /\ applied[a] = None
  /\ cert => certgen = "done"
  /\ host.addrs \in {Local, {}}
  /\ k3s # None => k3s.ip \in Local \/ host.addrs = {}
  /\ Stale(k3s, registries) => missed \/ \E m \in Machine : Heals(cmd[m])

\* The inductive invariant.
Inv ==
  /\ TypeInv /\ ServerOK /\ Alone(cmd)
  /\ \A m \in Machine :
       /\ CommandOK(cmd[m], host) /\ Saved(cmd[m], contexts[m])
       /\ cmd[m].alone => Progress(cmd[m], k3s, registries, manifests, missed)

-----------------------------------------------------------------------------
LEMMA Some == None \notin K3s /\ None \notin Facts /\ 0 \in Password /\ None \notin Password /\ MaxPasswords \in Nat /\ MaxKills \in Nat
  <1>1. /\ MaxPasswords \in Nat /\ MaxKills \in Nat
        /\ None \notin Nat \cup Facts \cup [ip : STRING, password : Nat \cup {None}]
    BY InstallAssumption
  <1>2. Password \subseteq Nat /\ 0 \in Password
    BY <1>1 DEF Password
  <1>3. None \notin K3s
    <2>1. K3s \subseteq [ip : STRING, password : Nat \cup {None}]
      BY <1>2 DEF K3s
    <2>2. QED
      BY <1>1, <2>1
  <1>4. QED
    BY <1>1, <1>2, <1>3

\* Only apt's sources can both fail and be fixed.
LEMMA OnlyApt ==
  ASSUME NEW f, NEW cfg, ~f.aptMissing, Blocking(Preflight(f, cfg))
  PROVE  \E x \in DOMAIN Preflight(f, cfg) : Preflight(f, cfg)[x] = "FAIL" /\ x \notin Fixable
  <1> DEFINE r == Preflight(f, cfg)
  <1>1. PICK x \in DOMAIN r : r[x] = "FAIL"
    BY DEF Blocking
  <1>2. /\ r["firewall"] # "FAIL" /\ r["networkManager"] # "FAIL" /\ r["clockSync"] # "FAIL"
        /\ r["aptSources"] # "FAIL" /\ r["wgQuick"] # "FAIL" /\ r["containerSignals"] # "FAIL"
        /\ r["nouveau"] # "FAIL"
    BY DEF Preflight, WarnIf
  <1>3. x \notin Fixable
    BY <1>1, <1>2 DEF Fixable
  <1>4. QED
    BY <1>1, <1>3

LEMMA AddressSeen ==
  ASSUME NEW f, NEW cfg, ~Blocking(Preflight(f, cfg))
  PROVE  f.addrs = {} \/ cfg.ip \in f.addrs
  <1> DEFINE r == Preflight(f, cfg)
  <1>1. "nodeIP" \in DOMAIN r /\ r["nodeIP"] = FailIf(~HasIP(f, cfg))
    BY DEF Preflight
  <1>2. r["nodeIP"] # "FAIL"
    BY <1>1 DEF Blocking
  <1>3. QED
    BY <1>1, <1>2 DEF FailIf, HasIP

\* Broken sources of apt are found.
LEMMA AptFound ==
  ASSUME NEW f, NEW cfg
  PROVE  ("aptSources" \in Fixables(Preflight(f, cfg))) <=> f.aptMissing
  <1>1. Preflight(f, cfg)["aptSources"] =
          IF ~f.aptMissing THEN "PASS" ELSE IF f.gpu /\ ~cfg.noGPU THEN "FAIL" ELSE "WARN"
    BY DEF Preflight
  <1>2. QED
    BY <1>1 DEF Fixables, Fixable

LEMMA FixedFacts ==
  ASSUME NEW f \in Facts, NEW cs
  PROVE  /\ Fixed(f, cs) \in Facts /\ Fixed(f, cs).addrs = f.addrs
         /\ Fixed(f, cs).aptMissing <=> (f.aptMissing /\ "aptSources" \notin cs)
  <1> DEFINE a == f.clockSynced \/ "clockSync" \in cs
             b == f.aptMissing /\ "aptSources" \notin cs
             c == f.wgQuickAppArmor /\ "wgQuick" \notin cs
             d == f.criAppArmorManaged \/ "containerSignals" \in cs
  <1>1. Fixed(f, cs) = [f EXCEPT !.clockSynced = a, !.aptMissing = b, !.wgQuickAppArmor = c, !.criAppArmorManaged = d]
    BY DEF Fixed
  <1>2. a \in BOOLEAN /\ b \in BOOLEAN /\ c \in BOOLEAN /\ d \in BOOLEAN
    OBVIOUS
  <1>3. b <=> (f.aptMissing /\ "aptSources" \notin cs)
    BY Zenon
  <1> HIDE DEF a, b, c, d
  <1>4. Fixed(f, cs) \in Facts
    <2>1. \A g \in Facts, x \in BOOLEAN : [g EXCEPT !.clockSynced = x] \in Facts
      BY DEF Facts
    <2>2. \A g \in Facts, x \in BOOLEAN : [g EXCEPT !.aptMissing = x] \in Facts
      BY DEF Facts
    <2>3. \A g \in Facts, x \in BOOLEAN : [g EXCEPT !.wgQuickAppArmor = x] \in Facts
      BY DEF Facts
    <2>4. \A g \in Facts, x \in BOOLEAN : [g EXCEPT !.criAppArmorManaged = x] \in Facts
      BY DEF Facts
    <2>5. Fixed(f, cs) = [[[[f EXCEPT !.clockSynced = a] EXCEPT !.aptMissing = b] EXCEPT !.wgQuickAppArmor = c]
                          EXCEPT !.criAppArmorManaged = d]
      BY <1>1
    <2>6. QED
      BY <1>2, <2>1, <2>2, <2>3, <2>4, <2>5, ZenonT(60)
  <1>5. Fixed(f, cs).addrs = f.addrs /\ Fixed(f, cs).aptMissing = b
    BY <1>1 DEF Facts
  <1>6. QED
    BY <1>3, <1>4, <1>5

LEMMA DockerlessFacts ==
  ASSUME NEW f \in Facts
  PROVE  /\ WithoutDocker(f) \in Facts /\ WithoutDocker(f).addrs = f.addrs
         /\ WithoutDocker(f).aptMissing = f.aptMissing
  BY DEF WithoutDocker, Facts

LEMMA K3sFacts ==
  ASSUME NEW f \in Facts
  PROVE  /\ [f EXCEPT !.k3s = TRUE, !.held = [@ EXCEPT !["6443/tcp"] = "k3s"]] \in Facts
         /\ [f EXCEPT !.k3s = FALSE, !.held = [p \in Port |-> IF @[p] = "k3s" THEN "nobody" ELSE @[p]]] \in Facts
  <1> DEFINE held == [f.held EXCEPT !["6443/tcp"] = "k3s"]
             free == [p \in Port |-> IF f.held[p] = "k3s" THEN "nobody" ELSE f.held[p]]
  <1>1. f.held \in [Port -> {"nobody", "k3s", "docker", "other"}]
    BY DEF Facts
  <1>2. held \in [Port -> {"nobody", "k3s", "docker", "other"}] /\ free \in [Port -> {"nobody", "k3s", "docker", "other"}]
    BY <1>1
  <1> HIDE DEF held, free
  <1>3. [f EXCEPT !.k3s = TRUE, !.held = held] \in Facts /\ [f EXCEPT !.k3s = FALSE, !.held = free] \in Facts
    BY <1>2 DEF Facts
  <1>4. QED
    BY <1>3 DEF held, free

-----------------------------------------------------------------------------
\* The server's facts change only for the better, and never its addresses.
LEMMA KnowledgeKept ==
  ASSUME NEW c, NEW h, NEW h2, CommandOK(c, h), h2.addrs = h.addrs, h2.aptMissing => h.aptMissing
  PROVE  CommandOK(c, h2)
  BY DEF CommandOK

\* A step of m keeps the invariant if m's part of it and the server's are kept:
\* a machine that is alone has no other step beside its own.
LEMMA MachineStep ==
  ASSUME Inv, NEW m \in Machine, cmd[m].pc # "idle", NEW c \in Command,
         c.pc = "idle" \/ c.alone = cmd[m].alone,
         cmd' = [cmd EXCEPT ![m] = c], TypeInv', ServerOK',
         host'.addrs = host.addrs, host'.aptMissing => host.aptMissing,
         \A n \in Machine \ {m} : contexts'[n] = contexts[n],
         CommandOK(c, host'), Saved(c, contexts'[m]),
         c.alone => Progress(c, k3s', registries', manifests', missed')
  PROVE  Inv'
  <1>1. cmd \in [Machine -> Command]
    BY DEF Inv, TypeInv
  <1>2. cmd'[m] = c /\ \A n \in Machine \ {m} : cmd'[n] = cmd[n]
    BY <1>1
  <1>3. Alone(cmd')
    <2>1. ASSUME NEW a \in Machine, NEW b \in Machine, a # b, cmd'[a].alone, cmd'[a].pc # "idle"
          PROVE  cmd'[b].pc = "idle"
      <3>1. cmd[a].alone /\ cmd[a].pc # "idle"
        BY <1>2, <2>1
      <3>2. cmd[b].pc = "idle"
        BY <2>1, <3>1 DEF Inv, Alone
      <3>3. QED
        BY <1>2, <3>2
    <2>2. QED
      BY <2>1 DEF Alone
  <1>4. ASSUME NEW n \in Machine
        PROVE  /\ CommandOK(cmd'[n], host') /\ Saved(cmd'[n], contexts'[n])
               /\ cmd'[n].alone => Progress(cmd'[n], k3s', registries', manifests', missed')
    <2>1. CASE n = m
      BY <1>2, <2>1
    <2>2. CASE n # m
      <3>1. CommandOK(cmd'[n], host') /\ Saved(cmd'[n], contexts'[n])
        BY <1>2, <2>2, KnowledgeKept DEF Inv
      <3>2. ASSUME cmd'[n].alone PROVE cmd'[n].pc = "idle"
        BY <1>2, <2>2, <3>2 DEF Inv, Alone
      <3>3. QED
        BY <3>1, <3>2 DEF Progress, Written, Restarts, Running, Done
    <2>3. QED
      BY <2>1, <2>2
  <1>5. QED
    BY <1>3, <1>4 DEF Inv

\* The same, for a step that leaves the server alone and does not give up a restart.
LEMMA QuietStep ==
  ASSUME Inv, NEW m \in Machine, cmd[m].pc # "idle", NEW c \in Command,
         c.pc = "idle" \/ c.alone = cmd[m].alone,
         Become(m, c), Heals(cmd[m]) => Heals(c), UNCHANGED <<host, k3s, registries, contexts, missed>>,
         UNCHANGED addons, fresh' \in 0..(MaxPasswords + 1), kills' \in 0..MaxKills, UNCHANGED plan,
         CommandOK(c, host), Saved(c, contexts[m]),
         c.alone => Progress(c, k3s, registries, manifests, missed)
  PROVE  Inv'
  <1>1. cmd' = [cmd EXCEPT ![m] = c] /\ cmd \in [Machine -> Command]
    BY DEF Become, Inv, TypeInv
  <1>2. cmd'[m] = c /\ \A n \in Machine \ {m} : cmd'[n] = cmd[n]
    BY <1>1
  <1>3. TypeInv'
    BY <1>1 DEF Inv, TypeInv, addons
  <1>4. ServerOK'
    <2>1. ASSUME Stale(k3s, registries) PROVE missed \/ \E n \in Machine : Heals(cmd'[n])
      BY <1>2, <2>1 DEF Inv, ServerOK
    <2>2. QED
      BY <2>1 DEF Inv, ServerOK, addons
  <1>5. QED
    BY <1>1, <1>3, <1>4, MachineStep DEF addons

LEMMA Onward ==
  ASSUME NEW c \in Command, NEW pc \in PC, NEW d, d = [c EXCEPT !.pc = pc]
  PROVE  /\ d \in Command /\ d.pc = pc /\ d.cfg = c.cfg /\ d.facts = c.facts /\ d.round = c.round
         /\ d.password = c.password /\ d.changed = c.changed /\ d.todo = c.todo /\ d.alone = c.alone
  BY DEF Command

LEMMA IdleOK ==
  /\ Idle \in Command /\ Idle.pc = "idle" /\ ~Heals(Idle)
  /\ \A k, r, mf, ms : Progress(Idle, k, r, mf, ms)
  /\ \A x : Saved(Idle, x)
  <1>1. Idle \in Command /\ Idle.pc = "idle"
    BY DEF Idle, Command, PC
  <1>2. QED
    BY <1>1 DEF Heals, Progress, Saved, Written, Restarts, Running, Done

\* The next command, or none.
LEMMA FirstOK ==
  ASSUME NEW c, c.pc \in {"idle", "facts", "uninstall"}, c.pc = "facts" => c.cfg \in Config,
         c.facts = None, None \notin Facts, c.round = {}, c.todo = {}, NEW h
  PROVE  CommandOK(c, h)
  BY DEF CommandOK, Installs, Gathered, Cleared, Written, Restarts, Running, Done

LEMMA AtWork ==
  ASSUME Inv, NEW m \in Machine
  PROVE  /\ cmd[m] \in Command /\ CommandOK(cmd[m], host) /\ Saved(cmd[m], contexts[m])
         /\ cmd[m].alone => Progress(cmd[m], k3s, registries, manifests, missed)
         /\ host \in Facts /\ host.addrs \in {Local, {}}
  BY DEF Inv, TypeInv, ServerOK

\* A step that changes only what the server is and where the command stands.
LEMMA HostStep ==
  ASSUME Inv, NEW m \in Machine, cmd[m].pc \notin {"idle", "k3s", "restart"}, NEW c \in Command,
         c.alone = cmd[m].alone,
         Become(m, c), UNCHANGED <<k3s, registries, contexts, missed>>, UNCHANGED addons, UNCHANGED bounds,
         host' \in Facts, host'.addrs = host.addrs, host'.aptMissing => host.aptMissing,
         CommandOK(c, host'), Saved(c, contexts[m]),
         c.alone => Progress(c, k3s, registries, manifests, missed)
  PROVE  Inv'
  <1>1. cmd' = [cmd EXCEPT ![m] = c] /\ cmd \in [Machine -> Command]
    BY DEF Become, Inv, TypeInv
  <1>2. cmd'[m] = c /\ \A n \in Machine \ {m} : cmd'[n] = cmd[n]
    BY <1>1
  <1>3. TypeInv'
    BY <1>1 DEF Inv, TypeInv, addons, bounds
  <1>4. ServerOK'
    <2>1. ASSUME Stale(k3s, registries) PROVE missed \/ \E n \in Machine : Heals(cmd'[n])
      <3>1. ~Heals(cmd[m])
        BY DEF Heals, Restarts
      <3>2. QED
        BY <1>2, <2>1, <3>1 DEF Inv, ServerOK
    <2>2. QED
      BY <2>1 DEF Inv, ServerOK, addons
  <1>5. QED
    BY <1>1, <1>3, <1>4, MachineStep DEF addons

-----------------------------------------------------------------------------
LEMMA GatherFactsKeeps ==
  ASSUME Inv, NEW m \in Machine, GatherFacts(m)
  PROVE  Inv'
  <1> DEFINE c == [cmd[m] EXCEPT !.facts = host, !.pc = "docker"]
  <1>1. cmd[m].pc = "facts" /\ Become(m, c) /\ UNCHANGED World /\ UNCHANGED addons /\ UNCHANGED bounds
    BY DEF GatherFacts, At
  <1>2. cmd[m] \in Command /\ CommandOK(cmd[m], host) /\ host \in Facts
    BY AtWork
  <1>3. /\ c \in Command /\ c.pc = "docker" /\ c.facts = host /\ c.cfg = cmd[m].cfg /\ c.round = cmd[m].round
        /\ c.todo = cmd[m].todo /\ c.alone = cmd[m].alone
    BY <1>2 DEF Command, PC
  <1> HIDE DEF c
  <1>4. CommandOK(c, host) /\ Saved(c, contexts[m]) /\ Progress(c, k3s, registries, manifests, missed) /\ ~Heals(cmd[m])
    BY <1>1, <1>2, <1>3 DEF CommandOK, Saved, Progress, Heals, Installs, Gathered, Cleared, Written, Restarts, Running, Done
  <1>5. fresh' \in 0..(MaxPasswords + 1) /\ kills' \in 0..MaxKills /\ UNCHANGED plan
    BY <1>1 DEF bounds, Inv, TypeInv
  <1>6. QED
    BY <1>1, <1>3, <1>4, <1>5, QuietStep DEF World

LEMMA VerdictKeeps ==
  ASSUME Inv, NEW m \in Machine, Verdict(m)
  PROVE  Inv'
  <1> DEFINE results == Preflight(cmd[m].facts, cmd[m].cfg)
             pc == IF Blocking(results) THEN "refused" ELSE "creds"
             c == [cmd[m] EXCEPT !.pc = pc]
  <1>1. cmd[m].pc = "preflight" /\ Become(m, c) /\ UNCHANGED World /\ UNCHANGED addons /\ UNCHANGED bounds
    BY DEF Verdict, At, To
  <1>2. cmd[m] \in Command /\ CommandOK(cmd[m], host) /\ host \in Facts /\ host.addrs \in {Local, {}}
    BY AtWork
  <1>3. pc \in PC
    BY DEF PC
  <1>4. /\ c \in Command /\ c.pc = pc /\ c.cfg = cmd[m].cfg /\ c.facts = cmd[m].facts /\ c.round = cmd[m].round
        /\ c.todo = cmd[m].todo /\ c.alone = cmd[m].alone
    BY <1>2, <1>3, Onward
  <1>5. cmd[m].facts \in Facts /\ cmd[m].facts.addrs = host.addrs
    BY <1>1, <1>2 DEF CommandOK, Gathered
  <1>6. ASSUME Blocking(results), cmd[m].cfg.fix PROVE Hopeless(c)
    BY <1>1, <1>2, <1>4, <1>6, OnlyApt DEF CommandOK, Hopeless
  <1>7. ~Blocking(results) => cmd[m].cfg.ip \in Local \/ host.addrs = {}
    BY <1>2, <1>5, AddressSeen
  <1>8. /\ Blocking(results) => c.pc = "refused"
        /\ ~Blocking(results) => c.pc = "creds"
        /\ c.pc \in {"refused", "creds"}
    <2>1. /\ Blocking(results) => pc = "refused"
          /\ ~Blocking(results) => pc = "creds"
          /\ pc \in {"refused", "creds"}
      OBVIOUS
    <2> HIDE DEF pc, c, results
    <2>2. QED
      BY <1>4, <2>1
  <1> HIDE DEF c
  <1>9. CommandOK(c, host)
    BY <1>1, <1>2, <1>4, <1>5, <1>6, <1>7, <1>8
       DEF CommandOK, Installs, Gathered, Cleared, Written, Restarts, Running, Done
  <1>10. Saved(c, contexts[m]) /\ Progress(c, k3s, registries, manifests, missed) /\ ~Heals(cmd[m])
    BY <1>1, <1>8 DEF Saved, Progress, Heals, Written, Restarts, Running, Done
  <1>11. fresh' \in 0..(MaxPasswords + 1) /\ kills' \in 0..MaxKills /\ UNCHANGED plan
    BY <1>1 DEF bounds, Inv, TypeInv
  <1>12. QED
    BY <1>1, <1>4, <1>9, <1>10, <1>11, QuietStep DEF World

LEMMA RemoveDockerKeeps ==
  ASSUME Inv, NEW m \in Machine, RemoveDocker(m)
  PROVE  Inv'
  <1> DEFINE d == cmd[m]
             needed == d.cfg.removeDocker /\ d.facts.docker /\ d.round = {}
             c == IF needed THEN [d EXCEPT !.pc = "facts", !.round = {"docker"}] ELSE [d EXCEPT !.pc = "fix"]
  <1>1. /\ d.pc = "docker" /\ Become(m, c)
        /\ host' = IF needed THEN WithoutDocker(host) ELSE host
        /\ UNCHANGED <<k3s, registries, contexts, missed>> /\ UNCHANGED addons /\ UNCHANGED bounds
    BY DEF RemoveDocker, At
  <1>2. d \in Command /\ CommandOK(d, host) /\ host \in Facts
    BY AtWork
  <1>3. host' \in Facts /\ host'.addrs = host.addrs /\ host'.aptMissing = host.aptMissing
    BY <1>1, <1>2, DockerlessFacts
  <1>4. /\ c \in Command /\ c.cfg = d.cfg /\ c.facts = d.facts /\ c.todo = d.todo /\ c.alone = d.alone
        /\ \/ c.pc = "facts" /\ c.round = {"docker"}
           \/ c.pc = "fix" /\ c.round = d.round
    BY <1>2 DEF Command, PC
  <1> HIDE DEF c
  <1>5. CommandOK(c, host')
    BY <1>1, <1>2, <1>3, <1>4
       DEF CommandOK, Installs, Gathered, Cleared, Written, Restarts, Running, Done
  <1>6. Saved(c, contexts[m]) /\ Progress(c, k3s, registries, manifests, missed)
    BY <1>4 DEF Saved, Progress, Written, Restarts, Running, Done
  <1>7. QED
    BY <1>1, <1>3, <1>4, <1>5, <1>6, HostStep

LEMMA ApplyFixesKeeps ==
  ASSUME Inv, NEW m \in Machine, ApplyFixes(m)
  PROVE  Inv'
  <1> DEFINE d == cmd[m]
             found == Fixables(Preflight(d.facts, d.cfg))
             needed == d.cfg.fix /\ found # {} /\ "fix" \notin d.round
             c == IF needed THEN [d EXCEPT !.pc = "facts", !.round = {"docker", "fix"}] ELSE [d EXCEPT !.pc = "preflight"]
  <1>1. /\ d.pc = "fix" /\ Become(m, c)
        /\ host' = IF needed THEN Fixed(host, found) ELSE host
        /\ UNCHANGED <<k3s, registries, contexts, missed>> /\ UNCHANGED addons /\ UNCHANGED bounds
    BY DEF ApplyFixes, At
  <1>2. d \in Command /\ CommandOK(d, host) /\ host \in Facts
    BY AtWork
  <1>3. /\ d.facts \in Facts /\ (host.aptMissing => d.facts.aptMissing)
        /\ ("aptSources" \in found) <=> d.facts.aptMissing
    BY <1>1, <1>2, AptFound DEF CommandOK, Gathered
  <1>4. host' \in Facts /\ host'.addrs = host.addrs /\ (host'.aptMissing => host.aptMissing)
    BY <1>1, <1>2, FixedFacts
  <1>5. needed => ~host'.aptMissing
    BY <1>1, <1>2, <1>3, FixedFacts
  <1>6. ~needed => (d.cfg.fix => ~d.facts.aptMissing)
    <2>1. ASSUME "fix" \in d.round PROVE ~d.facts.aptMissing
      BY <1>1, <1>2, <2>1 DEF CommandOK
    <2>2. ASSUME found = {} PROVE ~d.facts.aptMissing
      BY <1>3, <2>2
    <2>3. QED
      BY <2>1, <2>2
  <1>7. /\ c \in Command /\ c.cfg = d.cfg /\ c.facts = d.facts /\ c.todo = d.todo /\ c.alone = d.alone
        /\ \/ needed /\ c.pc = "facts" /\ c.round = {"docker", "fix"}
           \/ ~needed /\ c.pc = "preflight" /\ c.round = d.round
    <2>1. CASE needed
      BY <1>2, <2>1 DEF Command, PC
    <2>2. CASE ~needed
      BY <1>2, <2>2 DEF Command, PC
    <2>3. QED
      BY <2>1, <2>2
  <1> HIDE DEF c, found, needed
  <1>8. CommandOK(c, host')
    BY <1>1, <1>2, <1>3, <1>4, <1>5, <1>6, <1>7
       DEF CommandOK, Installs, Gathered, Cleared, Written, Restarts, Running, Done
  <1>9. Saved(c, contexts[m]) /\ Progress(c, k3s, registries, manifests, missed)
    BY <1>7 DEF Saved, Progress, Written, Restarts, Running, Done
  <1>10. QED
    BY <1>1, <1>4, <1>7, <1>8, <1>9, HostStep

LEMMA CredentialsKeeps ==
  ASSUME Inv, NEW m \in Machine, Credentials(m)
  PROVE  Inv'
  <1>1. /\ cmd[m].pc = "creds" /\ UNCHANGED <<kills, plan>> /\ UNCHANGED World /\ UNCHANGED addons
    BY DEF Credentials, At
  <1>2. cmd[m] \in Command /\ CommandOK(cmd[m], host) /\ fresh \in 0..(MaxPasswords + 1) /\ kills \in 0..MaxKills
    BY AtWork DEF Inv, TypeInv
  <1>3. PICK x \in Password :
          /\ Become(m, [cmd[m] EXCEPT !.password = x, !.pc = "appArmor"])
          /\ fresh' \in 0..(MaxPasswords + 1)
    <2> DEFINE known(read) == IF read # None THEN read
                              ELSE IF contexts[m] # None THEN contexts[m].password ELSE None
    <2>1. PICK read \in {registries, None} :
            \/ /\ known(read) # None
               /\ Become(m, [cmd[m] EXCEPT !.password = known(read), !.pc = "appArmor"])
               /\ UNCHANGED fresh
            \/ /\ known(read) = None /\ fresh <= MaxPasswords /\ fresh' = fresh + 1
               /\ Become(m, [cmd[m] EXCEPT !.password = fresh, !.pc = "appArmor"])
      BY DEF Credentials
    <2>2. known(read) \in Password \cup {None}
      BY <2>1 DEF Inv, TypeInv, Context
    <2>3. fresh <= MaxPasswords => fresh \in Password /\ fresh + 1 \in 0..(MaxPasswords + 1)
      BY <1>2, Some DEF Password
    <2> HIDE DEF known
    <2>4. CASE known(read) # None /\ UNCHANGED fresh
               /\ Become(m, [cmd[m] EXCEPT !.password = known(read), !.pc = "appArmor"])
      BY <1>2, <2>2, <2>4
    <2>5. CASE /\ fresh <= MaxPasswords /\ fresh' = fresh + 1
               /\ Become(m, [cmd[m] EXCEPT !.password = fresh, !.pc = "appArmor"])
      BY <2>3, <2>5
    <2>6. QED
      BY <2>1, <2>4, <2>5
  <1> DEFINE c == [cmd[m] EXCEPT !.password = x, !.pc = "appArmor"]
  <1>4. /\ c \in Command /\ c.pc = "appArmor" /\ c.password = x /\ c.cfg = cmd[m].cfg /\ c.facts = cmd[m].facts
        /\ c.round = cmd[m].round /\ c.todo = cmd[m].todo /\ c.alone = cmd[m].alone
    BY <1>2, <1>3 DEF Command, PC
  <1>5. Become(m, c)
    BY <1>3
  <1> HIDE DEF c
  <1>6. CommandOK(c, host) /\ Saved(c, contexts[m]) /\ Progress(c, k3s, registries, manifests, missed) /\ ~Heals(cmd[m])
    BY <1>1, <1>2, <1>4
       DEF CommandOK, Saved, Progress, Heals, Installs, Gathered, Cleared, Written, Restarts, Running, Done
  <1>7. QED
    BY <1>1, <1>2, <1>3, <1>4, <1>5, <1>6, QuietStep DEF World

LEMMA FixAppArmorKeeps ==
  ASSUME Inv, NEW m \in Machine, FixAppArmor(m)
  PROVE  Inv'
  <1> DEFINE b == host.criAppArmorManaged \/ cmd[m].facts.appArmor4
             c == [cmd[m] EXCEPT !.pc = "registries"]
  <1>1. /\ cmd[m].pc = "appArmor" /\ Become(m, c) /\ host' = [host EXCEPT !.criAppArmorManaged = b]
        /\ UNCHANGED <<k3s, registries, contexts, missed>> /\ UNCHANGED addons /\ UNCHANGED bounds
    BY DEF FixAppArmor, At, To
  <1>2. cmd[m] \in Command /\ CommandOK(cmd[m], host) /\ host \in Facts
    BY AtWork
  <1>3. b \in BOOLEAN
    OBVIOUS
  <1> HIDE DEF b
  <1>4. host' \in Facts /\ host'.addrs = host.addrs /\ host'.aptMissing = host.aptMissing
    BY <1>1, <1>2, <1>3 DEF Facts
  <1>5. /\ c \in Command /\ c.pc = "registries" /\ c.cfg = cmd[m].cfg /\ c.facts = cmd[m].facts
        /\ c.round = cmd[m].round /\ c.password = cmd[m].password /\ c.todo = cmd[m].todo /\ c.alone = cmd[m].alone
    BY <1>2, Onward DEF PC
  <1> HIDE DEF c
  <1>6. CommandOK(c, host') /\ Saved(c, contexts[m]) /\ Progress(c, k3s, registries, manifests, missed)
    BY <1>1, <1>2, <1>4, <1>5
       DEF CommandOK, Saved, Progress, Installs, Gathered, Cleared, Written, Restarts, Running, Done
  <1>7. QED
    BY <1>1, <1>4, <1>5, <1>6, HostStep

LEMMA WriteRegistriesKeeps ==
  ASSUME Inv, NEW m \in Machine, WriteRegistries(m)
  PROVE  Inv'
  <1> DEFINE b == registries # cmd[m].password
             c == [cmd[m] EXCEPT !.changed = b, !.pc = "k3s"]
  <1>1. /\ cmd[m].pc = "registries" /\ Become(m, c) /\ registries' = cmd[m].password
        /\ UNCHANGED <<host, k3s, contexts, missed>> /\ UNCHANGED addons /\ UNCHANGED bounds
    BY DEF WriteRegistries, At
  <1>2. cmd[m] \in Command /\ CommandOK(cmd[m], host)
    BY AtWork
  <1>3. b \in BOOLEAN /\ (~b => registries' = registries)
    BY <1>1
  <1> HIDE DEF b
  <1>4. /\ c \in Command /\ c.pc = "k3s" /\ c.changed = b /\ c.cfg = cmd[m].cfg /\ c.facts = cmd[m].facts
        /\ c.round = cmd[m].round /\ c.password = cmd[m].password /\ c.todo = cmd[m].todo /\ c.alone = cmd[m].alone
    BY <1>2, <1>3 DEF Command, PC
  <1> HIDE DEF c
  <1>5. registries' \in Password /\ registries' = c.password
    BY <1>1, <1>2, <1>4 DEF CommandOK, Cleared
  <1>6. /\ cmd \in [Machine -> Command] /\ cmd' = [cmd EXCEPT ![m] = c] /\ cmd'[m] = c
        /\ \A n \in Machine \ {m} : cmd'[n] = cmd[n]
    BY <1>1 DEF Become, Inv, TypeInv
  <1>7. TypeInv'
    BY <1>1, <1>4, <1>5, <1>6 DEF Inv, TypeInv, addons, bounds
  <1>8. ASSUME Stale(k3s', registries') PROVE missed' \/ \E n \in Machine : Heals(cmd'[n])
    <2>1. CASE b
      BY <1>4, <1>6, <2>1 DEF Heals, Restarts
    <2>2. CASE ~b
      <3>1. missed \/ \E n \in Machine : Heals(cmd[n])
        BY <1>1, <1>3, <1>8, <2>2 DEF Inv, ServerOK
      <3>2. ~Heals(cmd[m])
        BY <1>1 DEF Heals, Restarts
      <3>3. QED
        BY <1>1, <1>6, <3>1, <3>2
    <2>3. QED
      BY <2>1, <2>2
  <1>9. ServerOK'
    BY <1>1, <1>8 DEF Inv, ServerOK, addons
  <1>10. CommandOK(c, host) /\ Saved(c, contexts[m]) /\ Progress(c, k3s', registries', manifests', missed')
    BY <1>1, <1>2, <1>4, <1>5
       DEF CommandOK, Saved, Progress, Installs, Gathered, Cleared, Written, Restarts, Running, Done
  <1>11. QED
    BY <1>1, <1>4, <1>6, <1>7, <1>9, <1>10, MachineStep

\* The installer, with the latest of registries.yaml or with what k3s has read.
LEMMA InstallK3sKeeps ==
  ASSUME Inv, NEW m \in Machine, InstallK3s(m)
  PROVE  Inv'
  <1> DEFINE d == cmd[m]
             starts == k3s = None \/ k3s.ip # d.cfg.ip
             pc == IF d.changed /\ d.facts.k3s THEN "restart" ELSE "node"
             c == [d EXCEPT !.pc = pc]
  <1>1. /\ d.pc = "k3s" /\ Become(m, c)
        /\ k3s' = IF starts THEN [ip |-> d.cfg.ip, password |-> registries] ELSE k3s
        /\ missed' = (~starts /\ (missed \/ (d.changed /\ ~d.facts.k3s)))
        /\ host' = [host EXCEPT !.k3s = TRUE, !.held = [@ EXCEPT !["6443/tcp"] = "k3s"]]
        /\ UNCHANGED <<registries, contexts>> /\ UNCHANGED addons /\ UNCHANGED bounds
    BY DEF InstallK3s, At, To, Started
  <1>2. d \in Command /\ CommandOK(d, host) /\ host \in Facts
        /\ (d.alone => Progress(d, k3s, registries, manifests, missed))
    BY AtWork
  <1>3. host' \in Facts /\ host'.addrs = host.addrs /\ host'.aptMissing = host.aptMissing
    <2>1. host' \in Facts
      BY <1>1, <1>2, K3sFacts
    <2>2. QED
      BY <1>1, <1>2, <2>1 DEF Facts
  <1>4. /\ c \in Command /\ c.pc = pc /\ c.cfg = d.cfg /\ c.facts = d.facts /\ c.round = d.round
        /\ c.password = d.password /\ c.changed = d.changed /\ c.todo = d.todo /\ c.alone = d.alone
    BY <1>2, Onward DEF PC
  <1>5. /\ pc \in {"restart", "node"}
        /\ (d.changed /\ d.facts.k3s) => pc = "restart"
        /\ ~(d.changed /\ d.facts.k3s) => pc = "node"
    OBVIOUS
  <1> HIDE DEF c, pc
  <1>6. d.cfg \in Config /\ (d.cfg.ip \in Local \/ host.addrs = {}) /\ d.password \in Password
    BY <1>1, <1>2 DEF CommandOK, Installs, Gathered, Cleared, Written, Restarts
  <1>7. /\ registries \in Password \cup {None} /\ k3s \in K3s \cup {None} /\ missed \in BOOLEAN
    BY DEF Inv, TypeInv
  <1>8. /\ k3s' \in K3s /\ k3s' # None /\ missed' \in BOOLEAN
        /\ starts => k3s'.password = registries /\ k3s'.ip = d.cfg.ip
        /\ ~starts => k3s' = k3s /\ k3s # None
        /\ ~starts /\ (missed \/ (d.changed /\ ~d.facts.k3s)) => missed'
    <2>1. [ip |-> d.cfg.ip, password |-> registries] \in K3s
      BY <1>6, <1>7 DEF K3s, Config
    <2>2. k3s' \in K3s
      BY <1>1, <1>7, <2>1
    <2>3. QED
      BY <1>1, <2>2, Some
  <1> HIDE DEF starts
  <1>9. /\ cmd \in [Machine -> Command] /\ cmd' = [cmd EXCEPT ![m] = c] /\ cmd'[m] = c
        /\ \A n \in Machine \ {m} : cmd'[n] = cmd[n]
    BY <1>1 DEF Become, Inv, TypeInv
  <1>10. TypeInv'
    BY <1>1, <1>3, <1>4, <1>8, <1>9 DEF Inv, TypeInv, addons, bounds
  <1>11. ASSUME Stale(k3s', registries) PROVE missed' \/ \E n \in Machine : Heals(cmd'[n])
    <2>1. ~starts
      BY <1>8, <1>11 DEF Stale
    <2>2. missed \/ \E n \in Machine : Heals(cmd[n])
      BY <1>8, <1>11, <2>1 DEF Inv, ServerOK
    <2>3. CASE missed
      BY <1>8, <2>1, <2>3
    <2>4. CASE Heals(cmd[m])
      <3>1. d.changed
        BY <2>4 DEF Heals
      <3>2. CASE d.facts.k3s
        BY <1>4, <1>5, <1>9, <3>1, <3>2 DEF Heals, Restarts
      <3>3. CASE ~d.facts.k3s
        BY <1>8, <2>1, <3>1, <3>3
      <3>4. QED
        BY <3>2, <3>3
    <2>5. QED
      BY <1>9, <2>2, <2>3, <2>4
  <1>12. ServerOK'
    BY <1>1, <1>3, <1>6, <1>8, <1>11 DEF Inv, ServerOK, addons
  <1>13. CommandOK(c, host') /\ Saved(c, contexts[m])
    BY <1>1, <1>2, <1>3, <1>4, <1>5
       DEF CommandOK, Saved, Installs, Gathered, Cleared, Written, Restarts, Running, Done
  <1>14. ASSUME c.alone PROVE Progress(c, k3s', registries', manifests', missed')
    <2>1. registries = d.password
      BY <1>1, <1>2, <1>4, <1>14 DEF Progress, Written, Restarts
    <2>2. ASSUME pc = "node" PROVE k3s'.password = registries \/ missed'
      <3>1. CASE starts
        BY <1>8, <3>1
      <3>2. CASE ~starts
        <4>1. \A n \in Machine \ {m} : ~Heals(cmd[n])
          BY <1>1, <1>4, <1>14 DEF Inv, Alone, Heals, Restarts
        <4>2. Heals(cmd[m]) => missed'
          BY <1>5, <1>8, <2>2, <3>2 DEF Heals
        <4>3. Stale(k3s, registries) => missed \/ Heals(cmd[m])
          BY <4>1 DEF Inv, ServerOK
        <4>4. k3s.password = registries \/ Stale(k3s, registries)
          BY <1>6, <1>8, <2>1, <3>2, Some DEF Stale
        <4>5. QED
          BY <1>8, <3>2, <4>2, <4>3, <4>4
      <3>3. QED
        BY <3>1, <3>2
    <2>3. QED
      BY <1>1, <1>4, <1>5, <1>8, <2>1, <2>2 DEF Progress, Written, Restarts, Running, Done
  <1>15. QED
    BY <1>1, <1>3, <1>4, <1>9, <1>10, <1>12, <1>13, <1>14, MachineStep

\* k3s has read registries.yaml once it is restarted.
LEMMA RestartKeeps ==
  ASSUME Inv, NEW m \in Machine, NEW pc, NEW next, Restart(m, pc, next),
         (pc = "restart" /\ next = "node") \/ (pc = "gpu" /\ next = "manifests")
  PROVE  Inv'
  <1> DEFINE d == cmd[m]
             c == [d EXCEPT !.pc = next]
  <1>1. /\ d.pc = pc /\ k3s # None /\ Become(m, c) /\ k3s' = [ip |-> k3s.ip, password |-> registries] /\ missed' = FALSE
        /\ UNCHANGED <<host, registries, contexts>> /\ UNCHANGED addons /\ UNCHANGED bounds
    BY DEF Restart, At, To, Started
  <1>2. d \in Command /\ CommandOK(d, host) /\ (d.alone => Progress(d, k3s, registries, manifests, missed))
    BY AtWork
  <1>3. next \in PC
    BY DEF PC
  <1>4. /\ c \in Command /\ c.pc = next /\ c.cfg = d.cfg /\ c.facts = d.facts /\ c.round = d.round
        /\ c.password = d.password /\ c.changed = d.changed /\ c.todo = d.todo /\ c.alone = d.alone
    BY <1>2, <1>3, Onward
  <1> HIDE DEF c
  <1>5. k3s' \in K3s /\ k3s' # None /\ k3s'.ip = k3s.ip /\ k3s'.password = registries
    <2>1. k3s \in K3s /\ registries \in Password \cup {None}
      BY <1>1 DEF Inv, TypeInv
    <2>2. k3s.ip \in STRING
      BY <2>1 DEF K3s
    <2>3. k3s' \in K3s
      BY <1>1, <2>1, <2>2 DEF K3s
    <2>4. QED
      BY <1>1, <2>3, Some
  <1>6. /\ cmd \in [Machine -> Command] /\ cmd' = [cmd EXCEPT ![m] = c]
    BY <1>1 DEF Become, Inv, TypeInv
  <1>7. TypeInv'
    BY <1>1, <1>4, <1>5, <1>6 DEF Inv, TypeInv, addons, bounds
  <1>8. ServerOK'
    BY <1>1, <1>5 DEF Inv, ServerOK, Stale, addons
  <1>9. CommandOK(c, host) /\ Saved(c, contexts[m])
    BY <1>1, <1>2, <1>4 DEF CommandOK, Saved, Installs, Gathered, Cleared, Written, Restarts, Running, Done
  <1>10. c.alone => Progress(c, k3s', registries', manifests', missed')
    <2>1. c.alone => registries = c.password
      BY <1>1, <1>2, <1>4 DEF Progress, Written, Restarts, Running
    <2>2. pc = "gpu" => d.todo = {}
      BY <1>1, <1>2 DEF CommandOK
    <2>3. QED
      BY <1>1, <1>2, <1>4, <1>5, <2>1 DEF Progress, Written, Restarts, Running, Done, CommandOK
  <1>11. QED
    BY <1>1, <1>4, <1>6, <1>7, <1>8, <1>9, <1>10, MachineStep

\* What is only waited for.
LEMMA WaitKeeps ==
  ASSUME Inv, NEW m \in Machine, NEW next, To(m, next), UNCHANGED World, UNCHANGED addons, UNCHANGED bounds,
         \/ cmd[m].pc = "node" /\ k3s # None /\ next \in {"gpu", "manifests"}
         \/ cmd[m].pc = "contour" /\ next = "registry"
         \/ cmd[m].pc = "registry" /\ next = "save"
  PROVE  Inv'
  <1> DEFINE d == cmd[m]
             c == [d EXCEPT !.pc = next]
  <1>1. Become(m, c) /\ next \in PC
    BY DEF To, PC
  <1>2. d \in Command /\ CommandOK(d, host) /\ (d.alone => Progress(d, k3s, registries, manifests, missed))
    BY AtWork
  <1>4. /\ c \in Command /\ c.pc = next /\ c.cfg = d.cfg /\ c.facts = d.facts /\ c.round = d.round
        /\ c.password = d.password /\ c.changed = d.changed /\ c.todo = d.todo /\ c.alone = d.alone
    BY <1>1, <1>2, Onward
  <1> HIDE DEF c
  <1>5. d.todo = {} /\ ~Heals(d) /\ d.pc \in Running /\ next \in Running /\ (next \in Done => d.pc \in Done)
    BY <1>2 DEF CommandOK, Heals, Restarts, Running, Done
  <1>6. CommandOK(c, host) /\ Saved(c, contexts[m])
    BY <1>2, <1>4, <1>5 DEF CommandOK, Saved, Installs, Gathered, Cleared, Written, Restarts, Running, Done
  <1>7. c.alone => Progress(c, k3s, registries, manifests, missed)
    BY <1>2, <1>4, <1>5 DEF Progress, Written
  <1>8. fresh' \in 0..(MaxPasswords + 1) /\ kills' \in 0..MaxKills /\ UNCHANGED plan
    BY DEF bounds, Inv, TypeInv
  <1>9. d.pc # "idle"
    BY <1>5 DEF Running, Done
  <1>10. QED
    BY <1>1, <1>4, <1>5, <1>6, <1>7, <1>8, <1>9, QuietStep DEF World

LEMMA ReturnKeeps ==
  ASSUME Inv, NEW m \in Machine, Return(m)
  PROVE  Inv'
  <1>1. cmd[m].pc \in {"ready", "refused"} /\ Become(m, Idle) /\ UNCHANGED World /\ UNCHANGED addons /\ UNCHANGED bounds
    BY DEF Return
  <1>2. Idle.facts = None /\ Idle.round = {} /\ Idle.todo = {}
    BY DEF Idle
  <1>3. CommandOK(Idle, host)
    BY <1>2, IdleOK, FirstOK, Some
  <1>4. ~Heals(cmd[m])
    BY <1>1 DEF Heals, Restarts
  <1>5. fresh' \in 0..(MaxPasswords + 1) /\ kills' \in 0..MaxKills /\ UNCHANGED plan
    BY <1>1 DEF bounds, Inv, TypeInv
  <1>6. QED
    BY <1>1, <1>3, <1>4, <1>5, IdleOK, QuietStep DEF World

\* A step that keeps what the server is and the files, but not all its manifests.
LEMMA SideStep ==
  ASSUME Inv, NEW m \in Machine, cmd[m].pc # "idle", ~Heals(cmd[m]), NEW c \in Command,
         c.pc = "idle" \/ c.alone = cmd[m].alone,
         Become(m, c), UNCHANGED <<host, k3s, registries, missed>>, UNCHANGED bounds,
         manifests' \in [Addon -> Password \cup {None}], applied' \in [Addon -> Password \cup {None}],
         certgen' \in {"none", "running", "failed", "done"}, cert' \in BOOLEAN, cert' => certgen' = "done",
         k3s = None => UNCHANGED <<manifests, applied>>,
         contexts' \in [Machine -> Context \cup {None}], \A n \in Machine \ {m} : contexts'[n] = contexts[n],
         CommandOK(c, host), Saved(c, contexts'[m]),
         c.alone => Progress(c, k3s, registries, manifests', missed)
  PROVE  Inv'
  <1>1. cmd' = [cmd EXCEPT ![m] = c] /\ cmd \in [Machine -> Command]
    BY DEF Become, Inv, TypeInv
  <1>2. cmd'[m] = c /\ \A n \in Machine \ {m} : cmd'[n] = cmd[n]
    BY <1>1
  <1>3. TypeInv'
    BY <1>1 DEF Inv, TypeInv, bounds
  <1>4. ServerOK'
    <2>1. ASSUME Stale(k3s, registries) PROVE missed \/ \E n \in Machine : Heals(cmd'[n])
      BY <1>2, <2>1 DEF Inv, ServerOK
    <2>2. QED
      BY <2>1 DEF Inv, ServerOK
  <1>5. QED
    BY <1>1, <1>3, <1>4, MachineStep

LEMMA WriteManifestKeeps ==
  ASSUME Inv, NEW m \in Machine, NEW a \in Addon, WriteManifest(m, a)
  PROVE  Inv'
  <1> DEFINE d == cmd[m]
             left == {b \in Render(d) : b \notin d.todo}
             last == left = {a}
             more == [d EXCEPT !.todo = @ \cup {a}]
             done == [d EXCEPT !.todo = {}, !.pc = "certgen"]
             c == IF last THEN done ELSE more
  <1>1. /\ d.pc = "manifests" /\ k3s # None /\ a \in left /\ Become(m, c)
        /\ manifests' = [manifests EXCEPT ![a] = IF a = "registry" THEN d.password ELSE 0]
        /\ UNCHANGED <<applied, certgen, cert>> /\ UNCHANGED World /\ UNCHANGED bounds
    BY DEF WriteManifest, At
  <1>2. d \in Command /\ CommandOK(d, host) /\ (d.alone => Progress(d, k3s, registries, manifests, missed))
    BY AtWork
  <1>3. last => a = "registry" \/ "registry" \in d.todo
    BY DEF Render
  <1>4. /\ c \in Command /\ c.cfg = d.cfg /\ c.facts = d.facts /\ c.round = d.round
        /\ c.password = d.password /\ c.alone = d.alone
        /\ \/ last /\ c.pc = "certgen" /\ c.todo = {}
           \/ ~last /\ c.pc = "manifests" /\ c.todo = d.todo \cup {a}
    <2>1. /\ done \in Command /\ done.cfg = d.cfg /\ done.facts = d.facts /\ done.round = d.round
          /\ done.password = d.password /\ done.alone = d.alone /\ done.pc = "certgen" /\ done.todo = {}
      BY <1>2 DEF Command, PC
    <2>2. /\ more \in Command /\ more.cfg = d.cfg /\ more.facts = d.facts /\ more.round = d.round
          /\ more.password = d.password /\ more.alone = d.alone /\ more.pc = d.pc /\ more.todo = d.todo \cup {a}
      BY <1>2 DEF Command
    <2> HIDE DEF done, more, last
    <2>3. QED
      BY <1>1, <2>1, <2>2
  <1> HIDE DEF c, last, left
  <1>5. d.password \in Password
    BY <1>1, <1>2 DEF CommandOK, Cleared, Written, Running
  <1>6. /\ manifests \in [Addon -> Password \cup {None}] /\ applied \in [Addon -> Password \cup {None}]
        /\ certgen \in {"none", "running", "failed", "done"} /\ cert \in BOOLEAN /\ (cert => certgen = "done")
        /\ contexts \in [Machine -> Context \cup {None}]
    BY DEF Inv, TypeInv, ServerOK
  <1>7. /\ manifests' \in [Addon -> Password \cup {None}]
        /\ a = "registry" => manifests'["registry"] = d.password
        /\ a # "registry" => manifests'["registry"] = manifests["registry"]
    BY <1>1, <1>5, <1>6, Some DEF Addon
  <1>8. CommandOK(c, host) /\ Saved(c, contexts[m]) /\ ~Heals(d)
    BY <1>1, <1>2, <1>4
       DEF CommandOK, Saved, Heals, Installs, Gathered, Cleared, Written, Restarts, Running, Done
  <1>9. c.alone => Progress(c, k3s, registries, manifests', missed)
    <2>1. c.alone => registries = d.password /\ (k3s.password = registries \/ missed)
      BY <1>1, <1>2, <1>4 DEF Progress, Written, Running
    <2>2. c.alone /\ "registry" \in d.todo => manifests["registry"] = d.password
      BY <1>1, <1>2, <1>4 DEF Progress
    <2>3. ASSUME c.alone, c.pc = "manifests" => "registry" \in c.todo
          PROVE  manifests'["registry"] = d.password
      <3>1. a = "registry" \/ "registry" \in d.todo
        BY <1>3, <1>4, <2>3
      <3>2. QED
        BY <1>7, <2>2, <2>3, <3>1
    <2>4. QED
      BY <1>1, <1>4, <2>1, <2>3 DEF Progress, Written, Restarts, Running, Done
  <1>10. UNCHANGED <<host, k3s, registries, missed, contexts>>
    BY <1>1 DEF World
  <1>11. QED
    BY <1>1, <1>4, <1>6, <1>7, <1>8, <1>9, <1>10, SideStep

LEMMA EnsureCertgenKeeps ==
  ASSUME Inv, NEW m \in Machine, EnsureCertgen(m)
  PROVE  Inv'
  <1> DEFINE d == cmd[m]
             c == [d EXCEPT !.pc = "contour"]
             j == IF certgen = "done" THEN "done" ELSE "running"
             p == [applied EXCEPT !["contour"] = manifests["contour"]]
  <1>1. /\ d.pc = "certgen" /\ Become(m, c) /\ UNCHANGED <<manifests, cert>> /\ UNCHANGED World /\ UNCHANGED bounds
        /\ \/ (cert \/ k3s = None) /\ UNCHANGED <<certgen, applied>>
           \/ ~cert /\ k3s # None /\ certgen' = j /\ applied' = p
    BY DEF EnsureCertgen, At, To
  <1>2. d \in Command /\ CommandOK(d, host) /\ (d.alone => Progress(d, k3s, registries, manifests, missed))
    BY AtWork
  <1>3. /\ c \in Command /\ c.pc = "contour" /\ c.cfg = d.cfg /\ c.facts = d.facts /\ c.round = d.round
        /\ c.password = d.password /\ c.changed = d.changed /\ c.todo = d.todo /\ c.alone = d.alone
    BY <1>2, Onward DEF PC
  <1> HIDE DEF c
  <1>4. /\ manifests \in [Addon -> Password \cup {None}] /\ applied \in [Addon -> Password \cup {None}]
        /\ certgen \in {"none", "running", "failed", "done"} /\ cert \in BOOLEAN /\ (cert => certgen = "done")
        /\ contexts \in [Machine -> Context \cup {None}]
    BY DEF Inv, TypeInv, ServerOK
  <1>5. j \in {"running", "done"} /\ p \in [Addon -> Password \cup {None}]
    BY <1>4 DEF Addon
  <1> HIDE DEF j, p
  <1>6. /\ applied' \in [Addon -> Password \cup {None}] /\ certgen' \in {"none", "running", "failed", "done"}
        /\ (cert' => certgen' = "done") /\ (k3s = None => UNCHANGED <<manifests, applied>>)
    BY <1>1, <1>4, <1>5
  <1>7. CommandOK(c, host) /\ Saved(c, contexts[m]) /\ ~Heals(d)
    BY <1>1, <1>2, <1>3
       DEF CommandOK, Saved, Heals, Installs, Gathered, Cleared, Written, Restarts, Running, Done
  <1>8. c.alone => Progress(c, k3s, registries, manifests, missed)
    BY <1>1, <1>2, <1>3 DEF Progress, Written, Restarts, Running, Done
  <1>9. UNCHANGED <<host, k3s, registries, missed, contexts>>
    BY <1>1 DEF World
  <1>10. QED
    BY <1>1, <1>3, <1>4, <1>6, <1>7, <1>8, <1>9, SideStep

LEMMA SaveContextKeeps ==
  ASSUME Inv, NEW m \in Machine, SaveContext(m)
  PROVE  Inv'
  <1> DEFINE d == cmd[m]
             c == [d EXCEPT !.pc = "kubeconfig"]
             b == contexts[m] # None /\ contexts[m].kubeconfig
             x == [password |-> d.password, kubeconfig |-> b]
  <1>1. /\ d.pc = "save" /\ Become(m, c) /\ contexts' = [contexts EXCEPT ![m] = x]
        /\ UNCHANGED <<host, k3s, registries, missed>> /\ UNCHANGED addons /\ UNCHANGED bounds
    BY DEF SaveContext, At, To
  <1>2. d \in Command /\ CommandOK(d, host) /\ (d.alone => Progress(d, k3s, registries, manifests, missed))
    BY AtWork
  <1>3. /\ c \in Command /\ c.pc = "kubeconfig" /\ c.cfg = d.cfg /\ c.facts = d.facts /\ c.round = d.round
        /\ c.password = d.password /\ c.changed = d.changed /\ c.todo = d.todo /\ c.alone = d.alone
    BY <1>2, Onward DEF PC
  <1>4. /\ manifests \in [Addon -> Password \cup {None}] /\ applied \in [Addon -> Password \cup {None}]
        /\ certgen \in {"none", "running", "failed", "done"} /\ cert \in BOOLEAN /\ (cert => certgen = "done")
        /\ contexts \in [Machine -> Context \cup {None}]
    BY DEF Inv, TypeInv, ServerOK
  <1>5. x \in Context /\ x.password = d.password
    <2>1. d.password \in Password
      BY <1>1, <1>2 DEF CommandOK, Cleared, Written, Running, Done
    <2>2. b \in BOOLEAN
      BY <1>4 DEF Context
    <2> HIDE DEF b
    <2>3. QED
      BY <2>1, <2>2 DEF Context
  <1> HIDE DEF c, x
  <1>6. contexts' \in [Machine -> Context \cup {None}] /\ contexts'[m] = x
        /\ \A n \in Machine \ {m} : contexts'[n] = contexts[n]
    BY <1>1, <1>4, <1>5
  <1>7. CommandOK(c, host) /\ Saved(c, contexts'[m]) /\ ~Heals(d)
    BY <1>1, <1>2, <1>3, <1>5, <1>6
       DEF CommandOK, Saved, Heals, Installs, Gathered, Cleared, Written, Restarts, Running, Done
  <1>8. c.alone => Progress(c, k3s, registries, manifests, missed)
    BY <1>1, <1>2, <1>3 DEF Progress, Written, Restarts, Running, Done
  <1>9. UNCHANGED <<manifests, applied, certgen, cert>>
    BY <1>1 DEF addons
  <1>10. QED
    BY <1>1, <1>3, <1>4, <1>6, <1>7, <1>8, <1>9, SideStep

LEMMA SaveKubeconfigKeeps ==
  ASSUME Inv, NEW m \in Machine, SaveKubeconfig(m)
  PROVE  Inv'
  <1> DEFINE d == cmd[m]
             c == [d EXCEPT !.pc = "ready"]
             x == [contexts[m] EXCEPT !.kubeconfig = TRUE]
  <1>1. /\ d.pc = "kubeconfig" /\ Become(m, c) /\ contexts' = [contexts EXCEPT ![m] = x]
        /\ UNCHANGED <<host, k3s, registries, missed>> /\ UNCHANGED addons /\ UNCHANGED bounds
    BY DEF SaveKubeconfig, At, To
  <1>2. d \in Command /\ CommandOK(d, host) /\ (d.alone => Progress(d, k3s, registries, manifests, missed))
        /\ Saved(d, contexts[m])
    BY AtWork
  <1>3. /\ c \in Command /\ c.pc = "ready" /\ c.cfg = d.cfg /\ c.facts = d.facts /\ c.round = d.round
        /\ c.password = d.password /\ c.changed = d.changed /\ c.todo = d.todo /\ c.alone = d.alone
    BY <1>2, Onward DEF PC
  <1>4. /\ manifests \in [Addon -> Password \cup {None}] /\ applied \in [Addon -> Password \cup {None}]
        /\ certgen \in {"none", "running", "failed", "done"} /\ cert \in BOOLEAN /\ (cert => certgen = "done")
        /\ contexts \in [Machine -> Context \cup {None}]
    BY DEF Inv, TypeInv, ServerOK
  <1>5. x \in Context /\ x = [password |-> d.password, kubeconfig |-> TRUE]
    <2>1. contexts[m] \in Context /\ contexts[m].password = d.password
      BY <1>1, <1>2 DEF Saved
    <2>2. x \in Context /\ x.password = d.password /\ x.kubeconfig = TRUE
      BY <2>1 DEF Context
    <2> HIDE DEF x
    <2>3. x = [password |-> x.password, kubeconfig |-> x.kubeconfig]
      BY <2>2 DEF Context
    <2>4. QED
      BY <2>2, <2>3
  <1> HIDE DEF c, x
  <1>6. contexts' \in [Machine -> Context \cup {None}] /\ contexts'[m] = x
        /\ \A n \in Machine \ {m} : contexts'[n] = contexts[n]
    BY <1>1, <1>4, <1>5
  <1>7. CommandOK(c, host) /\ Saved(c, contexts'[m]) /\ ~Heals(d)
    BY <1>1, <1>2, <1>3, <1>5, <1>6
       DEF CommandOK, Saved, Heals, Installs, Gathered, Cleared, Written, Restarts, Running, Done
  <1>8. c.alone => Progress(c, k3s, registries, manifests, missed)
    BY <1>1, <1>2, <1>3 DEF Progress, Written, Restarts, Running, Done
  <1>9. UNCHANGED <<manifests, applied, certgen, cert>>
    BY <1>1 DEF addons
  <1>10. QED
    BY <1>1, <1>3, <1>4, <1>6, <1>7, <1>8, <1>9, SideStep

-----------------------------------------------------------------------------
LEMMA UninstallK3sKeeps ==
  ASSUME Inv, NEW m \in Machine, UninstallK3s(m)
  PROVE  Inv'
  <1> DEFINE d == cmd[m]
             c == [d EXCEPT !.pc = "config"]
             nothing == [a \in Addon |-> None]
  <1>1. /\ d.pc = "uninstall" /\ Become(m, c) /\ k3s' = None /\ missed' = FALSE
        /\ host' = [host EXCEPT !.k3s = FALSE, !.held = [p \in Port |-> IF @[p] = "k3s" THEN "nobody" ELSE @[p]]]
        /\ manifests' = nothing /\ applied' = nothing /\ certgen' = "none" /\ cert' = FALSE
        /\ UNCHANGED <<registries, contexts>> /\ UNCHANGED bounds
    BY DEF UninstallK3s, At, To
  <1>2. d \in Command /\ CommandOK(d, host) /\ host \in Facts
    BY AtWork
  <1>3. host' \in Facts /\ host'.addrs = host.addrs /\ host'.aptMissing = host.aptMissing
    <2>1. host' \in Facts
      BY <1>1, <1>2, K3sFacts
    <2>2. QED
      BY <1>1, <1>2, <2>1 DEF Facts
  <1>4. /\ c \in Command /\ c.pc = "config" /\ c.cfg = d.cfg /\ c.facts = d.facts /\ c.round = d.round
        /\ c.password = d.password /\ c.changed = d.changed /\ c.todo = d.todo /\ c.alone = d.alone
    BY <1>2, Onward DEF PC
  <1> HIDE DEF c
  <1>5. cmd \in [Machine -> Command] /\ cmd' = [cmd EXCEPT ![m] = c]
    BY <1>1 DEF Become, Inv, TypeInv
  <1>6. nothing \in [Addon -> Password \cup {None}] /\ \A a \in Addon : nothing[a] = None
    OBVIOUS
  <1> HIDE DEF nothing
  <1>7. TypeInv'
    BY <1>1, <1>3, <1>4, <1>5, <1>6 DEF Inv, TypeInv, bounds
  <1>8. ServerOK'
    BY <1>1, <1>3, <1>6 DEF Inv, ServerOK, Stale
  <1>9. CommandOK(c, host') /\ Saved(c, contexts[m]) /\ Progress(c, k3s', registries', manifests', missed')
    BY <1>1, <1>2, <1>3, <1>4
       DEF CommandOK, Saved, Progress, Installs, Gathered, Cleared, Written, Restarts, Running, Done
  <1>10. QED
    BY <1>1, <1>3, <1>4, <1>5, <1>7, <1>8, <1>9, MachineStep

LEMMA RemoveConfigKeeps ==
  ASSUME Inv, NEW m \in Machine, RemoveConfig(m)
  PROVE  Inv'
  <1> DEFINE d == cmd[m]
             c == [d EXCEPT !.pc = "remove"]
  <1>1. /\ d.pc = "config" /\ Become(m, c) /\ registries' = None
        /\ UNCHANGED <<host, k3s, contexts, missed>> /\ UNCHANGED addons /\ UNCHANGED bounds
    BY DEF RemoveConfig, At, To
  <1>2. d \in Command /\ CommandOK(d, host)
    BY AtWork
  <1>3. /\ c \in Command /\ c.pc = "remove" /\ c.cfg = d.cfg /\ c.facts = d.facts /\ c.round = d.round
        /\ c.password = d.password /\ c.changed = d.changed /\ c.todo = d.todo /\ c.alone = d.alone
    BY <1>2, Onward DEF PC
  <1> HIDE DEF c
  <1>4. cmd \in [Machine -> Command] /\ cmd' = [cmd EXCEPT ![m] = c]
    BY <1>1 DEF Become, Inv, TypeInv
  <1>5. TypeInv'
    BY <1>1, <1>3, <1>4 DEF Inv, TypeInv, addons, bounds
  <1>6. ServerOK'
    BY <1>1 DEF Inv, ServerOK, Stale, addons
  <1>7. CommandOK(c, host) /\ Saved(c, contexts[m]) /\ Progress(c, k3s', registries', manifests', missed')
    BY <1>1, <1>2, <1>3
       DEF CommandOK, Saved, Progress, Installs, Gathered, Cleared, Written, Restarts, Running, Done
  <1>8. QED
    BY <1>1, <1>3, <1>4, <1>5, <1>6, <1>7, MachineStep

LEMMA IdleIsFresh ==
  ASSUME NEW h
  PROVE  CommandOK(Idle, h)
  <1>1. Idle.facts = None /\ Idle.round = {} /\ Idle.todo = {}
    BY DEF Idle
  <1>2. QED
    BY <1>1, IdleOK, FirstOK, Some

LEMMA RemoveContextKeeps ==
  ASSUME Inv, NEW m \in Machine, RemoveContext(m)
  PROVE  Inv'
  <1>1. /\ cmd[m].pc = "remove" /\ Become(m, Idle) /\ contexts' = [contexts EXCEPT ![m] = None]
        /\ UNCHANGED <<host, k3s, registries, missed>> /\ UNCHANGED addons /\ UNCHANGED bounds
    BY DEF RemoveContext, At
  <1>2. /\ manifests \in [Addon -> Password \cup {None}] /\ applied \in [Addon -> Password \cup {None}]
        /\ certgen \in {"none", "running", "failed", "done"} /\ cert \in BOOLEAN /\ (cert => certgen = "done")
        /\ contexts \in [Machine -> Context \cup {None}]
    BY DEF Inv, TypeInv, ServerOK
  <1>3. contexts' \in [Machine -> Context \cup {None}] /\ \A n \in Machine \ {m} : contexts'[n] = contexts[n]
    BY <1>1, <1>2
  <1>4. ~Heals(cmd[m])
    BY <1>1 DEF Heals, Restarts
  <1>5. UNCHANGED <<manifests, applied, certgen, cert>>
    BY <1>1 DEF addons
  <1>6. QED
    BY <1>1, <1>2, <1>3, <1>4, <1>5, IdleOK, IdleIsFresh, SideStep

\* Who was about to restart k3s and fails has missed to.
LEMMA FailsKeeps ==
  ASSUME Inv, NEW m \in Machine, Fails(m)
  PROVE  Inv'
  <1>1. /\ cmd[m].pc # "idle" /\ kills < MaxKills /\ kills' = kills + 1 /\ Become(m, Idle)
        /\ missed' = (missed \/ (cmd[m].pc \in {"k3s", "restart"} /\ cmd[m].changed /\ k3s # None))
        /\ UNCHANGED <<host, k3s, registries, contexts, fresh, plan>> /\ UNCHANGED addons
    BY DEF Fails, Busy
  <1>2. cmd \in [Machine -> Command] /\ cmd' = [cmd EXCEPT ![m] = Idle] /\ \A n \in Machine \ {m} : cmd'[n] = cmd[n]
    BY <1>1 DEF Become, Inv, TypeInv
  <1>3. kills' \in 0..MaxKills
    <2>1. kills \in 0..MaxKills /\ MaxKills \in Nat
      BY Some DEF Inv, TypeInv
    <2>2. QED
      BY <1>1, <2>1
  <1>4. missed' \in BOOLEAN /\ (missed => missed') /\ (Heals(cmd[m]) /\ k3s # None => missed')
    BY <1>1 DEF Heals, Restarts, Inv, TypeInv
  <1>5. TypeInv'
    BY <1>1, <1>2, <1>3, <1>4, IdleOK DEF Inv, TypeInv, addons
  <1>6. ServerOK'
    <2>1. ASSUME Stale(k3s, registries) PROVE missed' \/ \E n \in Machine : Heals(cmd'[n])
      BY <1>2, <1>4, <2>1 DEF Inv, ServerOK, Stale
    <2>2. QED
      BY <1>1, <2>1 DEF Inv, ServerOK, addons
  <1>7. QED
    BY <1>1, <1>2, <1>5, <1>6, IdleOK, IdleIsFresh, MachineStep

\* What is known does not depend on who else is at work.
LEMMA SameKnowledge ==
  ASSUME NEW c, NEW d, NEW h, NEW x, CommandOK(c, h), Saved(c, x),
         d.pc = c.pc, d.cfg = c.cfg, d.facts = c.facts, d.round = c.round, d.password = c.password, d.todo = c.todo
  PROVE  CommandOK(d, h) /\ Saved(d, x)
  <1>1. Hopeless(d) <=> Hopeless(c)
    <2>1. Preflight(d.facts, d.cfg) = Preflight(c.facts, c.cfg)
      OBVIOUS
    <2>2. QED
      BY <2>1 DEF Hopeless
  <1>2. CommandOK(d, h)
    BY <1>1 DEF CommandOK
  <1>3. Saved(d, x)
    BY DEF Saved
  <1>4. QED
    BY <1>2, <1>3

\* A command that begins is alone if no other is at work, which are no more.
LEMMA BeginKeeps ==
  ASSUME Inv, NEW m \in Machine, Begin(m)
  PROVE  Inv'
  <1> DEFINE r == Head(plan[m])
             first == IF r.kind = "install" THEN [Idle EXCEPT !.pc = "facts", !.cfg = r.cfg]
                      ELSE [Idle EXCEPT !.pc = "uninstall"]
             others == {n \in Machine \ {m} : Busy(n)}
             b == others = {}
             c == [first EXCEPT !.alone = b]
  <1>1. /\ cmd[m].pc = "idle" /\ plan[m] # <<>> /\ plan' = [plan EXCEPT ![m] = Tail(@)]
        /\ cmd' = [n \in Machine |-> IF n = m THEN c ELSE IF n \in others THEN [cmd[n] EXCEPT !.alone = FALSE] ELSE cmd[n]]
        /\ UNCHANGED <<fresh, kills>> /\ UNCHANGED World /\ UNCHANGED addons
    BY DEF Begin, At
  <1>2. /\ plan \in [Machine -> Seq(Runs)] /\ cmd \in [Machine -> Command]
    BY DEF Inv, TypeInv
  <1>3. r \in Runs /\ Tail(plan[m]) \in Seq(Runs)
    <2>1. plan[m] \in Seq(Runs) /\ plan[m] # <<>>
      BY <1>1, <1>2
    <2> HIDE DEF r
    <2>2. Head(plan[m]) \in Runs /\ Tail(plan[m]) \in Seq(Runs)
      BY <2>1
    <2>3. QED
      BY <2>2 DEF r
  <1>4. plan' \in [Machine -> Seq(Runs)]
    BY <1>1, <1>2, <1>3
  <1>5. r.kind = "install" => r.cfg \in Config
    BY <1>3 DEF Runs
  <1>6. b \in BOOLEAN
    OBVIOUS
  <1> HIDE DEF r, b
  <1>7. /\ first \in Command /\ first.facts = None /\ first.round = {} /\ first.todo = {}
        /\ first.pc \in {"facts", "uninstall"} /\ (first.pc = "facts" => first.cfg \in Config)
    BY <1>5 DEF Idle, Command, PC
  <1> HIDE DEF first
  <1>8. /\ c \in Command /\ c.facts = None /\ c.round = {} /\ c.todo = {} /\ c.alone = b
        /\ c.pc \in {"facts", "uninstall"} /\ (c.pc = "facts" => c.cfg \in Config)
    BY <1>6, <1>7 DEF Command
  <1> HIDE DEF c
  <1>9. cmd'[m] = c /\ \A h : CommandOK(cmd'[m], h)
    BY <1>1, <1>8, FirstOK, Some
  <1>10. ASSUME NEW n \in Machine, n # m
         PROVE  /\ cmd'[n] \in Command /\ cmd'[n].pc = cmd[n].pc /\ cmd'[n].cfg = cmd[n].cfg /\ cmd'[n].facts = cmd[n].facts
                /\ cmd'[n].round = cmd[n].round /\ cmd'[n].password = cmd[n].password
                /\ cmd'[n].changed = cmd[n].changed /\ cmd'[n].todo = cmd[n].todo
                /\ cmd'[n].alone => cmd[n].alone /\ cmd[n].pc = "idle"
    <2>1. CASE n \in others
      <3>1. cmd'[n] = [cmd[n] EXCEPT !.alone = FALSE]
        BY <1>1, <1>10, <2>1
      <3>2. QED
        BY <1>2, <3>1 DEF Command
    <2>2. CASE n \notin others
      <3>1. cmd'[n] = cmd[n] /\ cmd[n].pc = "idle"
        BY <1>1, <1>10, <2>2 DEF Busy
      <3>2. QED
        BY <1>2, <3>1
    <2>3. QED
      BY <2>1, <2>2
  <1>11. Alone(cmd')
    <2>1. ASSUME NEW a \in Machine, NEW o \in Machine, a # o, cmd'[a].alone, cmd'[a].pc # "idle"
          PROVE  cmd'[o].pc = "idle"
      <3>1. a = m
        BY <1>10, <2>1
      <3>2. others = {}
        BY <1>8, <1>9, <2>1, <3>1 DEF b
      <3>3. cmd[o].pc = "idle"
        BY <2>1, <3>1, <3>2 DEF Busy
      <3>4. QED
        BY <1>10, <2>1, <3>1, <3>3
    <2>2. QED
      BY <2>1 DEF Alone
  <1>12. cmd' \in [Machine -> Command]
    <2>1. \A n \in Machine : cmd'[n] \in Command
      BY <1>8, <1>9, <1>10
    <2>2. cmd' = [n \in Machine |-> cmd'[n]]
      BY <1>1
    <2>3. QED
      BY <2>1, <2>2
  <1>13. TypeInv'
    BY <1>1, <1>4, <1>12 DEF Inv, TypeInv, World, addons
  <1>14. ServerOK'
    <2>1. ASSUME Stale(k3s, registries) PROVE missed \/ \E n \in Machine : Heals(cmd'[n])
      <3>1. CASE missed
        BY <3>1
      <3>2. CASE ~missed
        <4>1. PICK n \in Machine : Heals(cmd[n])
          BY <2>1, <3>2 DEF Inv, ServerOK
        <4>2. n # m
          BY <1>1, <4>1 DEF Heals, Restarts
        <4>3. Heals(cmd'[n])
          BY <1>10, <4>1, <4>2 DEF Heals
        <4>4. QED
          BY <4>3
      <3>3. QED
        BY <3>1, <3>2
    <2>2. QED
      BY <1>1, <2>1 DEF Inv, ServerOK, World, addons
  <1>15. ASSUME NEW n \in Machine
         PROVE  /\ CommandOK(cmd'[n], host) /\ Saved(cmd'[n], contexts[n])
                /\ cmd'[n].alone => Progress(cmd'[n], k3s, registries, manifests, missed)
    <2>1. CASE n = m
      BY <1>8, <1>9, <2>1 DEF Saved, Progress, Written, Restarts, Running, Done
    <2>2. CASE n # m
      <3>1. CommandOK(cmd'[n], host) /\ Saved(cmd'[n], contexts[n])
        <4>1. CommandOK(cmd[n], host) /\ Saved(cmd[n], contexts[n])
          BY DEF Inv
        <4>2. QED
          BY <1>10, <2>2, <4>1, SameKnowledge
      <3>2. cmd'[n].alone => cmd'[n].pc = "idle"
        BY <1>10, <2>2
      <3>3. QED
        BY <3>1, <3>2 DEF Progress, Written, Restarts, Running, Done
    <2>3. QED
      BY <2>1, <2>2
  <1>16. QED
    BY <1>1, <1>11, <1>13, <1>14, <1>15 DEF Inv, World, addons

LEMMA ApplyAddonKeeps ==
  ASSUME Inv, NEW a \in Addon, ApplyAddon(a)
  PROVE  Inv'
  <1>1. /\ k3s # None /\ applied' = [applied EXCEPT ![a] = manifests[a]]
        /\ certgen' = IF a = "contour" THEN Created(certgen) ELSE certgen
        /\ UNCHANGED <<host, k3s, registries, manifests, cert, contexts, cmd, missed, fresh, kills, plan>>
    BY DEF ApplyAddon, bounds
  <1>2. /\ manifests \in [Addon -> Password \cup {None}] /\ applied \in [Addon -> Password \cup {None}]
        /\ certgen \in {"none", "running", "failed", "done"} /\ (cert => certgen = "done")
    BY DEF Inv, TypeInv, ServerOK
  <1>3. applied' \in [Addon -> Password \cup {None}]
    BY <1>1, <1>2
  <1>4. certgen' \in {"none", "running", "failed", "done"} /\ (cert' => certgen' = "done")
    BY <1>1, <1>2 DEF Created
  <1>5. TypeInv'
    BY <1>1, <1>3, <1>4 DEF Inv, TypeInv
  <1>6. ServerOK'
    BY <1>1, <1>4 DEF Inv, ServerOK
  <1>7. QED
    BY <1>1, <1>5, <1>6 DEF Inv

LEMMA RunCertgenKeeps ==
  ASSUME Inv, RunCertgen
  PROVE  Inv'
  <1>1. /\ certgen' = (IF Reachable THEN "done" ELSE "failed") /\ cert' = Reachable
        /\ UNCHANGED <<host, k3s, registries, manifests, applied, contexts, cmd, missed, fresh, kills, plan>>
    BY DEF RunCertgen, bounds
  <1>2. certgen' \in {"failed", "done"} /\ cert' \in BOOLEAN /\ (cert' => certgen' = "done")
    BY <1>1 DEF Reachable
  <1>3. TypeInv'
    BY <1>1, <1>2 DEF Inv, TypeInv
  <1>4. ServerOK'
    BY <1>1, <1>2 DEF Inv, ServerOK
  <1>5. QED
    BY <1>1, <1>3, <1>4 DEF Inv

-----------------------------------------------------------------------------
LEMMA InitInv ==
  ASSUME Init
  PROVE  Inv
  <1>1. PICK s \in Scenarios : host = s.host /\ plan = s.runs
    BY DEF Init
  <1>2. host \in Facts /\ host.addrs \in {Local, {}} /\ plan \in [Machine -> Seq(Runs)]
    BY <1>1, InstallAssumption
  <1>3. /\ k3s = None /\ registries = None
        /\ manifests = [a \in Addon |-> None] /\ applied = [a \in Addon |-> None]
        /\ certgen = "none" /\ cert = FALSE /\ contexts = [m \in Machine |-> None]
        /\ cmd = [m \in Machine |-> Idle] /\ fresh = 0 /\ missed = FALSE /\ kills = 0
    BY DEF Init
  <1>4. fresh \in 0..(MaxPasswords + 1) /\ kills \in 0..MaxKills
    <2>1. MaxPasswords \in Nat /\ MaxKills \in Nat
      BY Some
    <2>2. QED
      BY <1>3, <2>1
  <1>5. TypeInv
    BY <1>2, <1>3, <1>4, IdleOK DEF TypeInv
  <1>6. ServerOK
    BY <1>2, <1>3 DEF ServerOK, Stale
  <1>7. Alone(cmd)
    BY <1>3, IdleOK DEF Alone
  <1>8. ASSUME NEW m \in Machine
        PROVE  /\ CommandOK(cmd[m], host) /\ Saved(cmd[m], contexts[m])
               /\ Progress(cmd[m], k3s, registries, manifests, missed)
    <2>1. cmd[m] = Idle
      BY <1>3
    <2>2. QED
      BY <2>1, IdleOK, IdleIsFresh
  <1>9. QED
    BY <1>5, <1>6, <1>7, <1>8 DEF Inv

LEMMA StepKeeps ==
  ASSUME Inv, NEW m \in Machine, Step(m)
  PROVE  Inv'
  <1>1. CASE GatherFacts(m) BY <1>1, GatherFactsKeeps
  <1>2. CASE RemoveDocker(m) BY <1>2, RemoveDockerKeeps
  <1>3. CASE ApplyFixes(m) BY <1>3, ApplyFixesKeeps
  <1>4. CASE Verdict(m) BY <1>4, VerdictKeeps
  <1>5. CASE Credentials(m) BY <1>5, CredentialsKeeps
  <1>6. CASE FixAppArmor(m) BY <1>6, FixAppArmorKeeps
  <1>7. CASE WriteRegistries(m) BY <1>7, WriteRegistriesKeeps
  <1>8. CASE InstallK3s(m) BY <1>8, InstallK3sKeeps
  <1>9. CASE RestartK3s(m)
    <2>1. Restart(m, "restart", "node")
      BY <1>9 DEF RestartK3s
    <2>2. QED
      BY <2>1, RestartKeeps
  <1>10. CASE WaitNode(m)
    <2>1. PICK next \in {"gpu", "manifests"} : To(m, next)
      BY <1>10 DEF WaitNode
    <2>2. cmd[m].pc = "node" /\ k3s # None /\ UNCHANGED World /\ UNCHANGED addons /\ UNCHANGED bounds
      BY <1>10 DEF WaitNode, At
    <2>3. QED
      BY <2>1, <2>2, WaitKeeps
  <1>11. CASE InstallGPU(m)
    <2>1. Restart(m, "gpu", "manifests")
      BY <1>11 DEF InstallGPU
    <2>2. QED
      BY <2>1, RestartKeeps
  <1>12. CASE \E a \in Addon : WriteManifest(m, a) BY <1>12, WriteManifestKeeps
  <1>13. CASE EnsureCertgen(m) BY <1>13, EnsureCertgenKeeps
  <1>14. CASE WaitContour(m)
    <2>1. cmd[m].pc = "contour" /\ To(m, "registry") /\ UNCHANGED World /\ UNCHANGED addons /\ UNCHANGED bounds
      BY <1>14 DEF WaitContour, At
    <2>2. QED
      BY <2>1, WaitKeeps
  <1>15. CASE WaitAddons(m)
    <2>1. cmd[m].pc = "registry" /\ To(m, "save") /\ UNCHANGED World /\ UNCHANGED addons /\ UNCHANGED bounds
      BY <1>15 DEF WaitAddons, At
    <2>2. QED
      BY <2>1, WaitKeeps
  <1>16. CASE SaveContext(m) BY <1>16, SaveContextKeeps
  <1>17. CASE SaveKubeconfig(m) BY <1>17, SaveKubeconfigKeeps
  <1>18. CASE UninstallK3s(m) BY <1>18, UninstallK3sKeeps
  <1>19. CASE RemoveConfig(m) BY <1>19, RemoveConfigKeeps
  <1>20. CASE RemoveContext(m) BY <1>20, RemoveContextKeeps
  <1>21. QED
    BY <1>1, <1>2, <1>3, <1>4, <1>5, <1>6, <1>7, <1>8, <1>9, <1>10, <1>11, <1>12, <1>13, <1>14, <1>15, <1>16,
       <1>17, <1>18, <1>19, <1>20 DEF Step

LEMMA NextInv ==
  ASSUME Inv, [Next]_vars
  PROVE  Inv'
  <1>1. ASSUME NEW m \in Machine, Begin(m) PROVE Inv'
    BY <1>1, BeginKeeps
  <1>2. ASSUME NEW m \in Machine, Step(m) PROVE Inv'
    BY <1>2, StepKeeps
  <1>3. ASSUME NEW m \in Machine, Return(m) PROVE Inv'
    BY <1>3, ReturnKeeps
  <1>4. ASSUME NEW m \in Machine, Fails(m) PROVE Inv'
    BY <1>4, FailsKeeps
  <1>5. ASSUME NEW a \in Addon, ApplyAddon(a) PROVE Inv'
    BY <1>5, ApplyAddonKeeps
  <1>6. CASE RunCertgen
    BY <1>6, RunCertgenKeeps
  <1>7. CASE UNCHANGED vars
    BY <1>7 DEF vars, Inv, TypeInv, ServerOK
  <1>8. QED
    BY <1>1, <1>2, <1>3, <1>4, <1>5, <1>6, <1>7 DEF Next

LEMMA AlwaysInv == Spec => []Inv
  <1>1. Init => Inv
    BY InitInv
  <1>2. Inv /\ [Next]_vars => Inv'
    BY NextInv
  <1>3. QED
    BY <1>1, <1>2, PTL DEF Spec

\* The server and its commands are always of their types: a server without k3s
\* has no addons, and an install that writes has a password.
THEOREM InstallTypeSafe == Spec => []TypeOK
  <1>1. ASSUME Inv PROVE TypeOK
    <2>1. ASSUME NEW m \in Machine
          PROVE  /\ cmd[m].pc \in PC /\ cmd[m].changed \in BOOLEAN /\ cmd[m].alone \in BOOLEAN
                 /\ cmd[m].todo \subseteq Addon /\ cmd[m].round \subseteq {"docker", "fix"}
                 /\ cmd[m].facts # None => cmd[m].facts \in Facts
                 /\ cmd[m].pc \in {"registries", "k3s", "restart", "manifests", "save"} => cmd[m].password \in Password
      <3>1. cmd[m] \in Command /\ CommandOK(cmd[m], host)
        BY <1>1, AtWork
      <3>2. QED
        BY <3>1 DEF Command, CommandOK, Cleared, Written, Restarts, Running, Done
    <2>2. QED
      BY <1>1, <2>1 DEF Inv, TypeInv, ServerOK, TypeOK, K3s, Context
  <1>2. QED
    BY <1>1, AlwaysInv, PTL

\* A server reported ready pulls from its own registry, with the password that
\* the registry, containerd and the context have: for any facts of the server and
\* any commands before, failed ones too, unless another command ran beside the
\* install, or a failed one had written registries.yaml and not restarted k3s,
\* which no later install makes up for (newServerInstallCmd, Install).
THEOREM PullsAlwaysWork == Spec => []PullsWork
  <1>1. ASSUME Inv PROVE PullsWork
    <2>1. ASSUME NEW m \in Machine, cmd[m].pc = "ready", cmd[m].alone, ~missed
          PROVE  /\ k3s.password = registries /\ manifests["registry"] = registries
                 /\ contexts[m] = [password |-> registries, kubeconfig |-> TRUE]
      <3>1. Saved(cmd[m], contexts[m]) /\ Progress(cmd[m], k3s, registries, manifests, missed)
        BY <1>1, <2>1, AtWork
      <3>2. registries = cmd[m].password /\ k3s.password = registries /\ manifests["registry"] = cmd[m].password
        BY <2>1, <3>1 DEF Progress, Written, Running, Done
      <3>3. QED
        BY <2>1, <3>1, <3>2 DEF Saved
    <2>2. QED
      BY <2>1 DEF PullsWork, At
  <1>2. QED
    BY <1>1, AlwaysInv, PTL

\* k3s starts only with an address of the server, or where they cannot be
\* listed: what the preflight has shown stays true until Install starts k3s.
THEOREM AddressAlwaysHeld == Spec => []AddressHeld
  <1>1. Inv => AddressHeld
    BY DEF Inv, ServerOK, AddressHeld
  <1>2. QED
    BY <1>1, AlwaysInv, PTL

\* With --fix an install is refused only for what has no fix, although apt's
\* sources can fail the preflight: what is fixed stays so for all machines.
THEOREM FixesAlwaysSuffice == Spec => []FixesSuffice
  <1>1. ASSUME Inv PROVE FixesSuffice
    <2>1. ASSUME NEW m \in Machine, cmd[m].pc = "refused", cmd[m].cfg.fix
          PROVE  Hopeless(cmd[m])
      BY <1>1, <2>1, AtWork DEF CommandOK
    <2>2. QED
      BY <2>1 DEF FixesSuffice, At, Hopeless
  <1>2. QED
    BY <1>1, AlwaysInv, PTL
=============================================================================

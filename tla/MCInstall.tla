------------------------------ MODULE MCInstall ------------------------------
(***************************************************************************)
(* Instances of Install for TLC.                                           *)
(***************************************************************************)
EXTENDS Install

CONSTANTS m1, m2

MCMachines == {m1, m2}
MCLocal    == {"1.2.3.4"}

Plain ==
  [os |-> "tested", arch |-> "x86_64", memory |-> "enough", disk |-> "enough", lvmFree |-> FALSE,
   held |-> [p \in Port |-> "nobody"], k3s |-> FALSE, otherK8s |-> FALSE, docker |-> FALSE,
   ufw |-> TRUE, networkManager |-> FALSE, clockSynced |-> TRUE, wireguard |-> TRUE, swap |-> FALSE,
   gpu |-> FALSE, secureBoot |-> FALSE, nouveau |-> FALSE, aptMissing |-> FALSE,
   wgQuickAppArmor |-> FALSE, appArmor4 |-> TRUE, criAppArmorManaged |-> FALSE, addrs |-> MCLocal]

Unlisted == [Plain EXCEPT !.addrs = {}]
Used == [Plain EXCEPT !.gpu = TRUE, !.aptMissing = TRUE, !.docker = TRUE,
                      !.held = [@ EXCEPT !["80/tcp"] = "docker"]]

Good == [ip |-> "1.2.3.4", domain |-> FALSE, noVPN |-> TRUE, noGPU |-> FALSE,
         fix |-> FALSE, removeDocker |-> FALSE, pids |-> "default"]
Bad     == [Good EXCEPT !.ip = "4.3.2.1"]
Fixing  == [Good EXCEPT !.fix = TRUE]
Clean   == [Fixing EXCEPT !.removeDocker = TRUE]
WithVPN == [Good EXCEPT !.domain = TRUE, !.noVPN = FALSE]

Install(cfg) == [kind |-> "install", cfg |-> cfg]
Uninstall    == [kind |-> "uninstall"]
By(one, two) == [m \in MCMachines |-> IF m = m1 THEN one ELSE two]

\* A wrong address, corrected, where the addresses cannot be listed, and where
\* they can; a server with a GPU, a broken apt source and a container of Docker's
\* on port 80; two machines that install, and one that uninstalls.
MCScenarios ==
  {[host |-> Unlisted, runs |-> By(<<Install(Bad), Install(Good), Install(Good)>>, <<>>)],
   [host |-> Plain, runs |-> By(<<Install(Bad), Install(WithVPN)>>, <<>>)],
   [host |-> Used, runs |-> By(<<Install(Good), Install(Fixing), Install(Clean), Install(Clean)>>, <<>>)],
   [host |-> Plain, runs |-> By(<<Install(Good), Uninstall, Install(Good)>>, <<Install(Good)>>)]}
=============================================================================

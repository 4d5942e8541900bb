------------------------------ MODULE MCVolumes ------------------------------
(***************************************************************************)
(* Instances of Volumes for TLC.                                           *)
(***************************************************************************)
EXTENDS Volumes, TLC

CONSTANTS s1, s2, m1, m2, web, db, jobs

MCServers   == {s1, s2}
MCMachines  == {m1, m2}
MCTypes     == web :> "deploy" @@ db :> "sts" @@ jobs :> "cron"
MCReplicas  == [s \in MCServers |-> [w \in Workload |-> 1]]

Runs(one, two) == [m \in MCMachines |-> IF m = m1 THEN one ELSE two]
Config(s)  == <<"config", s>>
Now(s)     == <<"now", s>>
Restore(s) == <<"restore", s>>
Copy(s)    == <<"copy", s>>

\* A restore and its retry; two machines that configure the target; a copy and
\* its retry; a restore beside a copy to, or from, the same volume.
MCPlans ==
  {[up |-> {s1}, others |-> 1, backup |-> TRUE, runs |-> Runs(<<Restore(s1), Restore(s1)>>, <<>>)],
   [up |-> {s1}, others |-> 1, backup |-> FALSE, runs |-> Runs(<<Config(s1), Now(s1)>>, <<Config(s1)>>)],
   [up |-> {s1}, others |-> 3, backup |-> FALSE, runs |-> Runs(<<Copy(s1), Copy(s1)>>, <<>>)],
   [up |-> {s1}, others |-> 1, backup |-> TRUE, runs |-> Runs(<<Restore(s1)>>, <<Copy(s2)>>)]}
=============================================================================

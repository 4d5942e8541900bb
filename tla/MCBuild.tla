------------------------------- MODULE MCBuild -------------------------------
(***************************************************************************)
(* Instances of Build for TLC.                                             *)
(***************************************************************************)
EXTENDS Build

CONSTANTS m1, m2

MCMachines == {m1, m2}

\* A service built from a directory with a Dockerfile and a .dockerignore, which
\* has a line for notes and one for logs that docker alone understands, and its
\* sidecar, which has the Dockerfile in the manifest.
MCBuilds ==
  [web |-> [files |-> {"Dockerfile", "main", "notes", "logs"},
            unhashed |-> {"notes"}, unsent |-> {"notes", "logs"},
            inline |-> None, named |-> None, top |-> "Dockerfile", own |-> "Dockerfile",
            args |-> {}, secrets |-> {"token"}],
   agent |-> [files |-> {}, unhashed |-> {}, unsent |-> {},
              inline |-> "inline", named |-> None, top |-> "Dockerfile", own |-> "Dockerfile",
              args |-> {}, secrets |-> {}]]

\* The same, with a .dockerignore that excludes everything and takes main back.
Negated == [MCBuilds EXCEPT !["web"].unhashed = {"notes", "logs", "main"}]

MCParts == {"Dockerfile", "main", "notes", "logs", "inline", "token"}
MCOrder == <<"agent", "web">>
=============================================================================

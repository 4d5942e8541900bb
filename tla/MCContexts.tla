----------------------------- MODULE MCContexts -----------------------------
(***************************************************************************)
(* Instances of Contexts for TLC.                                          *)
(***************************************************************************)
EXTENDS Contexts, TLC

CONSTANTS p1, p2, prod, stage, test, s1, s2

MCProcesses == {p1, p2}
MCNames     == {prod, stage, test}
MCServers   == {s1, s2}
Symmetry    == Permutations(MCProcesses) \cup Permutations(MCNames) \cup Permutations(MCServers)
=============================================================================

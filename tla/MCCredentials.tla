---------------------------- MODULE MCCredentials ----------------------------
(***************************************************************************)
(* An instance of Credentials for TLC: two machines, two registries with a *)
(* login each, and enough passwords for a new one to be there whenever an  *)
(* install makes one.                                                      *)
(***************************************************************************)
EXTENDS Credentials, TLC

CONSTANTS m1, m2,         \* machines
          h1, h2,         \* registries
          l1,             \* login
          pw1, pw2        \* passwords

KeepCommands == {"sync", "login", "logout", "add", "install"}

\* Passwords and registries are only ever compared.
Alike == Permutations(Password) \cup Permutations(Host)
=============================================================================

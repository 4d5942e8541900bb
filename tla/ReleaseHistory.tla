--------------------------- MODULE ReleaseHistory ---------------------------
(***************************************************************************)
(* What `jekyo history` and `jekyo rollback` promise, whatever happens to  *)
(* the commands that deploy: an app's releases are a log that only ever    *)
(* records, under the next number, the manifest the cluster runs at that   *)
(* moment; entries never change; and the oldest is forgotten only when     *)
(* enough newer ones exist, or all of them with the app itself.            *)
(***************************************************************************)
EXTENDS Naturals, FiniteSets

CONSTANTS App, Manifest, None, KeepReleases, MaxRevision

VARIABLES
  running,  \* App -> the manifest the cluster runs exactly, None if none
  log       \* App -> revision -> manifest, None if not recorded

vars == <<running, log>>

Revision == 1..MaxRevision
NoLog == [n \in Revision |-> None]
Recorded(a) == {n \in Revision : log[a][n] # None}

Init ==
  /\ running = [a \in App |-> None]
  /\ log = [a \in App |-> NoLog]

\* Commands and crashes move the cluster from one manifest to another, or to
\* something in between.
Change(a) ==
  /\ \E m \in Manifest \cup {None} : running' = [running EXCEPT ![a] = m]
  /\ UNCHANGED log

\* What runs is recorded, numbered just above the newest release.
Record(a) ==
  /\ running[a] # None
  /\ \E n \in Revision :
       /\ \A k \in Recorded(a) : k < n
       /\ n = 1 \/ n - 1 \in Recorded(a)
       /\ log' = [log EXCEPT ![a][n] = running[a]]
  /\ UNCHANGED running

\* The oldest release goes when KeepReleases newer ones exist.
Forget(a) ==
  /\ \E n \in Recorded(a) :
       /\ \A k \in Recorded(a) : n <= k
       /\ Cardinality(Recorded(a)) > KeepReleases
       /\ log' = [log EXCEPT ![a][n] = None]
  /\ UNCHANGED running

\* The app is removed with its history.
Remove(a) ==
  /\ running' = [running EXCEPT ![a] = None]
  /\ log' = [log EXCEPT ![a] = NoLog]

Next == \E a \in App : Change(a) \/ Record(a) \/ Forget(a) \/ Remove(a)

Spec == Init /\ [][Next]_vars
=============================================================================

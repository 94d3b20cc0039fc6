------------------------------- MODULE Teardown -------------------------------
(***************************************************************************)
(* What the end of the program promises of its native resources: each is   *)
(* released only after the ones that depend on it and never while it is in *)
(* use, nothing starts to use one that is gone, and one whose release is   *)
(* in doubt is kept for good.                                              *)
(***************************************************************************)
EXTENDS Naturals, Sequences

CONSTANT Order      \* the resources, each before those it depends on

VARIABLES
  held,     \* the resources that are not released
  busy      \* the resources in use

teardownVars == <<held, busy>>

Resources == {Order[i] : i \in DOMAIN Order}
Before(i) == {Order[j] : j \in 1 .. i - 1}

TeardownInit == held \subseteq Resources /\ busy \subseteq held

(* Uses come and go, as long as the resource is there. *)
Use == /\ busy' \subseteq held /\ held' = held

(* A resource that nothing uses is released, its dependents gone; with it *)
(* may end its own use of what it depends on.                             *)
Release == \E i \in DOMAIN Order :
  /\ Order[i] \in held \ busy
  /\ held \cap Before(i) = {}
  /\ held' = held \ {Order[i]} /\ busy' \subseteq busy

TeardownNext == Use \/ Release
TeardownSpec == TeardownInit /\ [][TeardownNext]_teardownVars
=============================================================================

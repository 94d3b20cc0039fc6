---------------------------- MODULE MCRootWindow -----------------------------
(* Checking RootWindow: scales are only compared with each other. *)
EXTENDS RootWindow, TLC

ScaleSymmetry == Permutations(Scales)
=============================================================================

----------------------------- MODULE MCDiscovery -----------------------------
(***************************************************************************)
(* Instances of Discovery for TLC.                                         *)
(***************************************************************************)
EXTENDS Discovery, TLC

\* Topics are interchangeable.
Symmetry == Permutations(Topics)
=============================================================================

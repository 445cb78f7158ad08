-------------------------- MODULE MCTestController --------------------------
(***************************************************************************)
(* Instances of TestController for TLC.                                    *)
(***************************************************************************)
EXTENDS TestController, TLC

\* Pod names are generated and never compared: any two are interchangeable.
PodSymmetry == Permutations(Pods)
=============================================================================

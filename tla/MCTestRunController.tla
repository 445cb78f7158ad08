------------------------ MODULE MCTestRunController -------------------------
(***************************************************************************)
(* Instances of TestRunController for TLC.                                 *)
(***************************************************************************)
EXTENDS TestRunController, TLC

\* Names of Tests are generated and never compared.
NameSymmetry == Permutations(Names)
=============================================================================

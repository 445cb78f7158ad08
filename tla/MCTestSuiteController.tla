----------------------- MODULE MCTestSuiteController ------------------------
(***************************************************************************)
(* Instances of TestSuiteController for TLC.                               *)
(***************************************************************************)
EXTENDS TestSuiteController, TLC

\* Names of TestRuns are generated and never compared.
NameSymmetry == Permutations(Names)
=============================================================================

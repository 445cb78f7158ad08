--------------------------- MODULE MCHelmWatcher ----------------------------
(***************************************************************************)
(* Instances of HelmWatcher for TLC.                                       *)
(***************************************************************************)
EXTENDS HelmWatcher, TLC

Plain   == <<Release>>
Dotted  == <<Home, ".", Release>>
Slashed == <<Home, "/", Release>>

AllSpecs   == {<<>>, <<"db">>, Plain, Dotted, Slashed}
AllExports == {<<"*">>, <<Home, "other">>}

\* The suites of other namespaces name the release with its namespace; or all
\* of them carry the label the watcher looks for, and find no release.
OneForeign == {[ns \in Namespaces |-> IF ns = Home THEN Plain ELSE Slashed]}
AllLabelled == {[ns \in Namespaces |-> Dotted]}
Both == OneForeign \cup AllLabelled

FirstAtOnce == [v \in Versions |-> IF v = 1 THEN "deployed" ELSE "pending"]
Later       == [v \in Versions |-> "pending"]
=============================================================================

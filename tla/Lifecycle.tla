----------------------------- MODULE Lifecycle ------------------------------
(***************************************************************************)
(* What a Test and a TestRun promise whoever reads their status: such an   *)
(* object is undecided until it passes or fails, keeps that verdict for    *)
(* the rest of its life, and disappears only after somebody deleted it; an *)
(* object of its name that is created later starts a life of its own.      *)
(* TestController and TestRunController implement it.                      *)
(***************************************************************************)
VARIABLES
  state,  \* "Undecided", a verdict, or "Gone"
  doomed  \* it is deleted

Verdicts == {"Passed", "Failed"}

Init == state = "Undecided" /\ doomed = FALSE

Decide ==
  /\ state = "Undecided" /\ state' \in Verdicts
  /\ UNCHANGED doomed

\* An object nobody holds is gone at once.
Doom ==
  /\ state # "Gone" /\ ~doomed /\ doomed' = TRUE
  /\ state' \in {state, "Gone"}

Remove ==
  /\ state # "Gone" /\ doomed
  /\ state' = "Gone"
  /\ UNCHANGED doomed

Create ==
  /\ state = "Gone"
  /\ state' = "Undecided" /\ doomed' = FALSE

Next == Decide \/ Doom \/ Remove \/ Create

Spec == Init /\ [][Next]_<<state, doomed>>
=============================================================================

------------------------- MODULE TestRunController --------------------------
(***************************************************************************)
(* The TestRun controller (controllers/testrun_controller.go): it keeps    *)
(* one Test per template of the run, collects their results, turns them    *)
(* into the run's phase, and deletes Tests as the retention policy says or *)
(* when the run is deleted.                                                *)
(*                                                                         *)
(* As in TestController a reconcile reads its caches once and every API    *)
(* call is an action.  The Tests' own controller, the suite's, users and   *)
(* the garbage collector are the cluster around it.                        *)
(***************************************************************************)
EXTENDS KubeApi, FiniteSets, Functions

CONSTANTS
  Names,        \* names the server can generate for Tests of the run
  NumTests,     \* templates a run has at most
  Radix,        \* how many template indices one character can tell apart
  Policies,     \* retention policies the run is created with
  InitialFins,  \* finalizers the run is created with: none by a user, the suite's by a suite
  MaxLag,       \* a reconcile starts with caches at most this many changes behind
  MaxBehind,    \* the cluster changes something only while a cache is less behind than this
  MaxFaults,    \* API calls that fail or whose reply is lost
  MaxDeletions, \* Tests deleted by somebody else
  MaxEdits,     \* changes of the run's template list
  MaxRestarts   \* crashes of the manager other than by a panic of this controller

RunFin   == "konfirm.goraft.tech/testrun-controller"
SuiteFin == "konfirm.goraft.tech/testsuite-controller"
TestFin  == "konfirm.goraft.tech/test-controller"

ASSUME ConstantsAssumption ==
  /\ IsFiniteSet(Names)
  /\ Policies \subseteq {"Always", "Never", "OnFailure"}
  /\ InitialFins \subseteq {{}, {SuiteFin}}
  /\ {NumTests, Radix} \subseteq Nat \ {0}
  /\ {MaxLag, MaxBehind, MaxFaults, MaxDeletions, MaxEdits, MaxRestarts} \subseteq Nat

VARIABLES
  runFeed,    \* the TestRun, from the cached to the stored state
  testFeed,   \* the Tests it controls, likewise
  queued,     \* the run's key is in the controller's work queue
  job,        \* the reconcile in progress
  verdict,    \* history: the phase each Test was decided with
  panics,     \* history: an index out of range killed the manager
  faults, deletions, edits, restarts

vars == <<runFeed, testFeed, queued, job, verdict, panics, faults, deletions, edits, restarts>>
env  == <<verdict, deletions, edits, restarts>>

IsFinal(phase) == phase \in {"Passed", "Failed"}

\* Mutant: templates are numbered from one.
Digit_OneBased(test) == (test.idx + 1) % Radix

\* The one character of a Test's generated name that the controller reads the
\* template's index from: the last one of "<run>-<index>-" before the dash.
Digit(test) == test.idx % Radix

Listed(tests) == {t \in Names : Exists(tests[t])}
Live(tests)   == {t \in Listed(tests) : ~tests[t].del}

NewRun(policy, fins) ==
  [policy |-> policy, n |-> NumTests, phase |-> "", results |-> {}, del |-> FALSE, fins |-> fins]
NoTest == [idx |-> 0, phase |-> "Unborn", del |-> FALSE, fins |-> {}]
NewTest(i) == [idx |-> i, phase |-> "", del |-> FALSE, fins |-> {TestFin}]

Run   == Stored(runFeed)
Tests == Stored(testFeed)

PublishTest(t, test) == testFeed' = Publish(testFeed, [Tests EXCEPT ![t] = test])

\* A status patch carries what differs from the caller's copy and no more.
WithStatus(run, copy, phase, results) ==
  IF ~Exists(run) THEN run
  ELSE [run EXCEPT !.phase   = IF phase = copy.phase THEN @ ELSE phase,
                   !.results = IF results = copy.results THEN @ ELSE results]

-----------------------------------------------------------------------------
(***************************************************************************)
(* The reconcile in progress: its step, its copies of the run and of the   *)
(* Tests, the Tests still to visit in the current loop, the templates      *)
(* still to get a Test, and whether an item of the loop failed.            *)
(***************************************************************************)
Steps == {"finalizer", "starting", "delete", "release", "map", "ensure", "retain"}

Idle == [step |-> "idle"]
Working == job.step # "idle"

At(step, run, tests, todo) ==
  [step |-> step, run |-> run, tests |-> tests, todo |-> todo, missing |-> {}, err |-> FALSE]

Return(requeue) ==
  /\ job' = Idle
  /\ queued' = (queued \/ requeue)

Answer(res) == faults' = IF res = "Error" THEN faults + 1 ELSE faults
Answers(outs) == {out \in outs : out.res = "Error" => faults < MaxFaults}

Drops(run) == run.policy = "Never" \/ (run.policy = "OnFailure" /\ run.phase = "Passed")

\* Tests whose name does not fit a template of the run.
Misnamed(run, tests) == {t \in Live(tests) : Digit(tests[t]) >= run.n}

\* Mutants: a run is released while its Tests are still being deleted; a
\* finished run starts again; it drops its Tests whatever the policy; the end
\* of a run is handled before its deletion.
Handle_IgnoresDeleting(run, tests) ==
  IF run.phase = "" THEN At("starting", run, tests, {})
  ELSE IF run.del THEN At(IF Live(tests) = {} THEN "release" ELSE "delete", run, tests, Listed(tests))
  ELSE IF IsFinal(run.phase) THEN At("retain", run, tests, IF Drops(run) THEN Live(tests) ELSE {})
  ELSE At("map", run, tests, Misnamed(run, tests))
Handle_StartsAgain(run, tests) ==
  IF run.phase \notin {"Starting", "Running"} THEN At("starting", run, tests, {})
  ELSE IF run.del THEN At(IF Listed(tests) = {} THEN "release" ELSE "delete", run, tests, Listed(tests))
  ELSE At("map", run, tests, Misnamed(run, tests))
Handle_DropsAll(run, tests) ==
  IF run.phase = "" THEN At("starting", run, tests, {})
  ELSE IF run.del THEN At(IF Listed(tests) = {} THEN "release" ELSE "delete", run, tests, Listed(tests))
  ELSE IF IsFinal(run.phase) THEN At("retain", run, tests, Live(tests))
  ELSE At("map", run, tests, Misnamed(run, tests))
Handle_FinalFirst(run, tests) ==
  IF run.phase = "" THEN At("starting", run, tests, {})
  ELSE IF IsFinal(run.phase) THEN At("retain", run, tests, IF Drops(run) THEN Live(tests) ELSE {})
  ELSE IF run.del THEN At(IF Listed(tests) = {} THEN "release" ELSE "delete", run, tests, Listed(tests))
  ELSE At("map", run, tests, Misnamed(run, tests))

\* What follows once the run has its finalizer and a phase.  The loop over
\* deleted Tests (see Compaction) leaves the live ones and calls nobody, for
\* no Test is created with this controller's finalizer.
Handle(run, tests) ==
  IF run.phase = "" THEN At("starting", run, tests, {})
  ELSE IF run.del THEN At(IF Listed(tests) = {} THEN "release" ELSE "delete", run, tests, Listed(tests))
  ELSE IF IsFinal(run.phase) THEN At("retain", run, tests, IF Drops(run) THEN Live(tests) ELSE {})
  ELSE At("map", run, tests, Misnamed(run, tests))

Reconcile ==
  /\ ~Working /\ queued
  /\ Len(runFeed) <= MaxLag + 1 /\ Len(testFeed) <= MaxLag + 1
  /\ queued' = FALSE
  /\ LET run   == Cached(runFeed)
         tests == Cached(testFeed)
     IN  job' = IF ~Exists(run) THEN Idle
                ELSE IF ~IsFinal(run.phase) /\ ~run.del /\ RunFin \notin run.fins
                  THEN At("finalizer", run, tests, {})
                ELSE Handle(run, tests)
  /\ UNCHANGED <<runFeed, testFeed, panics, faults, env>>

EnsureFinalizer ==
  /\ job.step = "finalizer"
  /\ \E out \in Answers(addFinalizer(job.run, Run, RunFin, "Resource")) :
       /\ Answer(out.res)
       /\ runFeed' = Publish(runFeed, out.obj)
       /\ IF out.res = "OK" THEN job' = Handle(out.obj, job.tests) /\ UNCHANGED queued
          ELSE Return(out.res # "NotFound")
  /\ UNCHANGED <<testFeed, panics, env>>

SetStarting ==
  /\ job.step = "starting"
  /\ \E out \in Answers(Patch(Run, WithStatus(Run, job.run, "Starting", job.run.results))) :
       /\ Answer(out.res)
       /\ runFeed' = Publish(runFeed, out.obj)
       /\ IF out.res = "OK" THEN job' = Handle(out.obj, job.tests) /\ UNCHANGED queued
          ELSE Return(out.res # "NotFound")
  /\ UNCHANGED <<testFeed, panics, env>>

-----------------------------------------------------------------------------
\* cleanUpAll: the Tests of a deleted run, or those a finished run drops.
CleanUpTest(t) ==
  /\ job.step \in {"delete", "retain"}
  /\ t \in job.todo
  /\ \E out \in Answers(cleanUp(job.tests[t], Tests[t], RunFin, "Resource")) :
       /\ Answer(out.res)
       /\ PublishTest(t, out.obj)
       /\ job' = [job EXCEPT !.todo = @ \ {t}, !.err = @ \/ out.res # "OK"]
  /\ UNCHANGED <<runFeed, queued, panics, env>>

\* Mutant: the errors of the loop are not returned.
CleanedUp_Swallowed ==
  /\ job.step \in {"delete", "retain"}
  /\ job.todo = {}
  /\ Return(FALSE)
  /\ UNCHANGED <<runFeed, testFeed, panics, faults, env>>

CleanedUp ==
  /\ job.step \in {"delete", "retain"}
  /\ job.todo = {}
  /\ Return(job.err)
  /\ UNCHANGED <<runFeed, testFeed, panics, faults, env>>

\* A deleted run without Tests loses its finalizer.
ReleaseRun ==
  /\ job.step = "release"
  /\ IF RunFin \in job.run.fins
       THEN \E out \in Answers(removeFinalizer(job.run, Run, RunFin, "Resource")) :
              /\ Answer(out.res)
              /\ runFeed' = Publish(runFeed, out.obj)
              /\ Return(out.res # "OK")
       ELSE Return(FALSE) /\ UNCHANGED <<runFeed, faults>>
  /\ UNCHANGED <<testFeed, panics, env>>

-----------------------------------------------------------------------------
(***************************************************************************)
(* Map tests.  For every Test of the list the digit of its name indexes    *)
(* both the templates and, the loop variable being shadowed, the list:     *)
(* mapped[d] is the d-th of the list, whichever that is.  The list comes   *)
(* from a cache index in any order.                                        *)
(***************************************************************************)
Digits == {Digit(job.tests[t]) : t \in Live(job.tests) \ Misnamed(job.run, job.tests)}

OutOfRange == \E d \in Digits : d >= Cardinality(Live(job.tests))

\* The list is indexed past its end and the manager dies; it starts anew.
\* Any of the misnamed Tests may have come first in the list.
Panic ==
  /\ job.step = "map" /\ OutOfRange
  /\ panics' = TRUE
  /\ runFeed' = <<Run>> /\ testFeed' = <<Tests>>
  /\ queued' = TRUE /\ job' = Idle
  /\ UNCHANGED <<faults, env>>

CleanUpMisnamed(t) ==
  /\ job.step = "map"
  /\ t \in job.todo
  /\ \E out \in Answers(cleanUp(job.tests[t], Tests[t], RunFin, "Resource")) :
       /\ Answer(out.res)
       /\ PublishTest(t, out.obj)
       /\ IF out.res = "OK" THEN job' = [job EXCEPT !.todo = @ \ {t}] /\ UNCHANGED queued
          ELSE Return(TRUE)
  /\ UNCHANGED <<runFeed, panics, env>>

\* Mutant: what was mapped is forgotten.
MapTests_Forgotten ==
  /\ job.step = "map" /\ job.todo = {} /\ ~OutOfRange
  /\ job' = [job EXCEPT !.step = "ensure", !.missing = 0..(job.run.n - 1)]
  /\ UNCHANGED <<runFeed, testFeed, queued, panics, faults, env>>

MapTests ==
  /\ job.step = "map" /\ job.todo = {} /\ ~OutOfRange
  /\ job' = [job EXCEPT !.step = "ensure", !.missing = 0..(job.run.n - 1) \ Digits]
  /\ UNCHANGED <<runFeed, testFeed, queued, panics, faults, env>>

\* Create the Test of the first template that has none.
CreateTest ==
  /\ job.step = "ensure"
  /\ \E i \in job.missing, t \in Names, res \in {"OK", "Error"} :
       /\ \A k \in job.missing : i <= k
       /\ Tests[t].phase = "Unborn"
       /\ res = "Error" => faults < MaxFaults
       /\ Answer(res)
       /\ PublishTest(t, NewTest(i))
       /\ IF res = "OK" THEN job' = [job EXCEPT !.missing = @ \ {i}] /\ UNCHANGED queued
          ELSE Return(TRUE)
  /\ UNCHANGED <<runFeed, panics, env>>

\* The create is refused: by a fault, or by a quota once all names are used.
CreateTestFails ==
  /\ job.step = "ensure" /\ job.missing # {}
  /\ \/ faults < MaxFaults /\ Answer("Error")
     \/ (\A t \in Names : Tests[t].phase # "Unborn") /\ UNCHANGED faults
  /\ Return(TRUE)
  /\ UNCHANGED <<runFeed, testFeed, panics, env>>

\* The results of the mapped Tests that are final, by template.
ResultsOf(items) ==
  {[template |-> d, test |-> items[d], passed |-> job.tests[items[d]].phase = "Passed"] :
     d \in {e \in Digits : IsFinal(job.tests[items[e]].phase)}}

\* Mutants: failures are not counted; one passed Test is enough.
PhaseOf_CountsOnly(results) == IF Cardinality(results) # job.run.n THEN "Running" ELSE "Passed"
PhaseOf_AnyPassed(results) ==
  IF Cardinality(results) # job.run.n THEN "Running"
  ELSE IF \E r \in results : r.passed THEN "Passed" ELSE "Failed"

PhaseOf(results) ==
  IF Cardinality(results) # job.run.n THEN "Running"
  ELSE IF \A r \in results : r.passed THEN "Passed" ELSE "Failed"

\* Only the patch that completes the run forgives a run that is not found.
UpdateStatus ==
  /\ job.step = "ensure" /\ job.missing = {}
  /\ \E items \in Bijection(0..(Cardinality(Live(job.tests)) - 1), Live(job.tests)) :
       LET results == ResultsOf(items)
           phase   == PhaseOf(results)
       IN  \E out \in Answers(Patch(Run, WithStatus(Run, job.run, phase, results))) :
             /\ Answer(out.res)
             /\ runFeed' = Publish(runFeed, out.obj)
             /\ Return(out.res = "Error" \/ (out.res = "NotFound" /\ ~IsFinal(phase)))
  /\ UNCHANGED <<testFeed, panics, env>>

Controller ==
  \/ Reconcile \/ EnsureFinalizer \/ SetStarting
  \/ \E t \in Names : CleanUpTest(t) \/ CleanUpMisnamed(t)
  \/ CleanedUp \/ ReleaseRun
  \/ Panic \/ MapTests \/ CreateTest \/ CreateTestFails \/ UpdateStatus

-----------------------------------------------------------------------------
RunEvent ==
  /\ ~Fresh(runFeed)
  /\ runFeed' = Tail(runFeed)
  /\ queued' = TRUE
  /\ UNCHANGED <<testFeed, job, panics, faults, env>>

\* Mutant: the Tests are not watched.
TestEvent_Unwatched ==
  /\ ~Fresh(testFeed)
  /\ testFeed' = Tail(testFeed)
  /\ UNCHANGED <<runFeed, queued, job, panics, faults, env>>

TestEvent ==
  /\ ~Fresh(testFeed)
  /\ testFeed' = Tail(testFeed)
  /\ queued' = TRUE
  /\ UNCHANGED <<runFeed, job, panics, faults, env>>

Restart ==
  /\ restarts < MaxRestarts
  /\ restarts' = restarts + 1
  /\ runFeed' = <<Run>> /\ testFeed' = <<Tests>>
  /\ queued' = TRUE
  /\ job' = Idle
  /\ UNCHANGED <<verdict, panics, faults, deletions, edits>>

-----------------------------------------------------------------------------
(***************************************************************************)
(* The cluster around the controller.                                      *)
(***************************************************************************)
Others == UNCHANGED <<queued, job, panics, faults, restarts>>

TestDecided(t, phase) ==
  /\ Exists(Tests[t]) /\ Tests[t].phase = ""
  /\ PublishTest(t, [Tests[t] EXCEPT !.phase = phase])
  /\ verdict' = [verdict EXCEPT ![t] = phase]
  /\ UNCHANGED <<runFeed, deletions, edits>> /\ Others

TestReleased(t) ==
  /\ Exists(Tests[t]) /\ Tests[t].del
  /\ PublishTest(t, Reaped(WithFins(Tests[t], Tests[t].fins \ {TestFin})))
  /\ UNCHANGED <<runFeed, verdict, deletions, edits>> /\ Others

TestDeleted(t) ==
  /\ deletions < MaxDeletions
  /\ t \in Live(Tests)
  /\ deletions' = deletions + 1
  /\ PublishTest(t, Reaped(Deleted(Tests[t])))
  /\ UNCHANGED <<runFeed, verdict, edits>> /\ Others

TestOrphaned(t) ==
  /\ t \in Live(Tests) /\ ~Exists(Run)
  /\ PublishTest(t, Reaped(Deleted(Tests[t])))
  /\ UNCHANGED <<runFeed, verdict, deletions, edits>> /\ Others

RunDeleted ==
  /\ Exists(Run) /\ ~Run.del
  /\ runFeed' = Publish(runFeed, Reaped(Deleted(Run)))
  /\ UNCHANGED <<testFeed, verdict, deletions, edits>> /\ Others

\* The suite lets go of a run of its own that is deleted.  Its patch writes the
\* list its copy of the run shows, without its own finalizer: a copy from before
\* this controller added RunFin takes RunFin away as well.
SuiteReleases ==
  /\ Exists(Run) /\ Run.del /\ SuiteFin \in Run.fins
  /\ \E fins \in SUBSET Run.fins :
       /\ SuiteFin \in fins
       /\ runFeed' = Publish(runFeed, Reaped(WithFins(Run, fins \ {SuiteFin})))
  /\ UNCHANGED <<testFeed, verdict, deletions, edits>> /\ Others

\* A user shortens the run's template list.
RunEdited ==
  /\ edits < MaxEdits /\ Exists(Run) /\ Run.n > 1
  /\ edits' = edits + 1
  /\ runFeed' = Publish(runFeed, [Run EXCEPT !.n = @ - 1])
  /\ UNCHANGED <<testFeed, verdict, deletions>> /\ Others

Cluster ==
  \/ /\ Len(testFeed) <= MaxBehind
     /\ \E t \in Names :
          \/ TestDecided(t, "Passed") \/ TestDecided(t, "Failed")
          \/ TestReleased(t) \/ TestDeleted(t) \/ TestOrphaned(t)
  \/ /\ Len(runFeed) <= MaxBehind
     /\ RunDeleted \/ SuiteReleases \/ RunEdited

-----------------------------------------------------------------------------
Init ==
  /\ \E policy \in Policies, fins \in InitialFins : runFeed = <<NewRun(policy, fins)>>
  /\ testFeed = <<[t \in Names |-> NoTest]>>
  /\ queued = TRUE
  /\ job = Idle
  /\ verdict = [t \in Names |-> "None"]
  /\ panics = FALSE
  /\ faults = 0 /\ deletions = 0 /\ edits = 0 /\ restarts = 0

Next == Controller \/ RunEvent \/ TestEvent \/ Restart \/ Cluster

Spec == Init /\ [][Next]_vars

\* The worker and the watches keep going, every Test is decided and released
\* by its own controller, and the suite releases a deleted run.
Fairness ==
  /\ WF_vars(Controller)
  /\ WF_vars(RunEvent) /\ WF_vars(TestEvent)
  /\ \A t \in Names : /\ WF_vars(TestDecided(t, "Passed") \/ TestDecided(t, "Failed"))
                      /\ WF_vars(TestReleased(t))
  /\ WF_vars(SuiteReleases)

FairSpec == Spec /\ Fairness

-----------------------------------------------------------------------------
(***************************************************************************)
(* What the controller promises with caches of any age.                    *)
(***************************************************************************)
Runs ==
  [policy : Policies, n : 1..NumTests, phase : {"", "Starting", "Running", "Passed", "Failed", "Gone"},
   results : SUBSET [template : 0..(NumTests - 1), test : Names, passed : BOOLEAN],
   del : BOOLEAN, fins : SUBSET {RunFin, SuiteFin}]
TestSets ==
  [Names -> [idx : 0..(NumTests - 1), phase : {"", "Passed", "Failed", "Unborn", "Gone"},
             del : BOOLEAN, fins : SUBSET {TestFin}]]
Jobs ==
  [step : Steps, run : Runs, tests : TestSets, todo : SUBSET Names,
   missing : SUBSET (0..(NumTests - 1)), err : BOOLEAN]

\* Every variable has the shape the code gives it.
TypeOK ==
  /\ runFeed \in Seq(Runs) /\ runFeed # <<>>
  /\ testFeed \in Seq(TestSets) /\ testFeed # <<>>
  /\ queued \in BOOLEAN
  /\ job \in {Idle} \cup Jobs
  /\ verdict \in [Names -> {"None", "Passed", "Failed"}]
  /\ panics \in BOOLEAN
  /\ faults \in 0..MaxFaults
  /\ deletions \in 0..MaxDeletions
  /\ edits \in 0..MaxEdits
  /\ restarts \in 0..MaxRestarts

\* A result names a Test that was decided that way, a Failed run has a Test
\* that failed and a Passed run one that passed, whatever the controller mixed
\* up, saw late or patched over on the way (isRunning's results and counters).
ResultsSound ==
  /\ \A r \in Run.results : verdict[r.test] = (IF r.passed THEN "Passed" ELSE "Failed")
  /\ IsFinal(Run.phase) => \E t \in Names : verdict[t] = Run.phase

Quiescent == ~Working /\ ~queued /\ Fresh(runFeed) /\ Fresh(testFeed)

(***************************************************************************)
(* When no work is left a run that is not deleted is where it should be:   *)
(* unfinished, it has its finalizer, a Test for every template and a Test  *)
(* it is waiting for; finished, the Tests its policy drops are deleted.    *)
(***************************************************************************)
Converged ==
  Quiescent /\ Exists(Run) /\ ~Run.del =>
    /\ ~IsFinal(Run.phase) =>
         /\ RunFin \in Run.fins
         /\ \A i \in 0..(Run.n - 1) : \E t \in Live(Tests) : Digit(Tests[t]) = i
         /\ \E t \in Live(Tests) : ~IsFinal(Tests[t].phase)
    /\ IsFinal(Run.phase) /\ Drops(Run) => Live(Tests) = {}

\* A deleted run the controller has no more work for waits for others only:
\* for Tests that are being deleted, or for the suite's finalizer.
DeletionGoesOn ==
  Quiescent /\ Exists(Run) /\ Run.del =>
    \/ RunFin \notin Run.fins
    \/ Listed(Tests) # {} /\ Live(Tests) = {}

-----------------------------------------------------------------------------
(***************************************************************************)
(* What it promises when every reconcile starts with current caches and    *)
(* nobody else deletes Tests (MaxLag = 0, MaxDeletions = 0).               *)
(***************************************************************************)

\* A run passes only if, for each of its templates, a Test of it passed, and
\* fails only if a Test it lists in its results failed.
RunVerdictSound ==
  /\ Run.phase = "Passed" =>
       \A i \in 0..(Run.n - 1) : \E t \in Names : Tests[t].idx = i /\ verdict[t] = "Passed"
  /\ Run.phase = "Failed" => \E r \in Run.results : ~r.passed

\* No template ever has two Tests, even if the reply to a creation was lost
\* or the manager restarted half way through the loop that creates them.
OneTestPerTemplate ==
  \A t, u \in Live(Tests) : Tests[t].idx = Tests[u].idx => t = u

\* The list of Tests is never indexed past its end.
NeverPanics == ~panics

Life == INSTANCE Lifecycle WITH
  state  <- IF ~Exists(Run) THEN "Gone" ELSE IF IsFinal(Run.phase) THEN Run.phase ELSE "Undecided",
  doomed <- Run.del

\* To whoever reads its status a run lives the life of module Lifecycle: once
\* finished it is never started again, whatever becomes of its Tests, and it
\* disappears only when deleted.
LifeOfRun == Life!Spec

\* A Test of a run that is not deleted is deleted by the controller only when
\* the run is finished and its policy says so.
TestsRetained ==
  [][Live(Tests) \ Live(Tests') # {} /\ Exists(Run) /\ ~Run.del
       => IsFinal(Run.phase) /\ Drops(Run)]_vars

\* A run without the suite's finalizer disappears only after its Tests, so each
\* of them is still found by its owner when it is cleaned up.  (With it, the
\* suite's patch can take this controller's finalizer away before.)
TestsFirst == ~Exists(Run) => Listed(Tests) = {}

-----------------------------------------------------------------------------
(***************************************************************************)
(* Progress, under FairSpec.                                               *)
(***************************************************************************)

\* Every run is finished in the end, unless it is deleted; a deleted run
\* disappears, after its Tests.
RunEnds ==
  /\ <>(IsFinal(Run.phase) \/ Run.del)
  /\ Run.del ~> Run.phase = "Gone"

-----------------------------------------------------------------------------
(***************************************************************************)
(* Statements of the repository that the code does not keep.               *)
(***************************************************************************)

\* "TestResult describes the outcome of a completed Test" (testrun_types.go):
\* the description of a result is the one of the Test it names.
ResultsLabelled == \A r \in Run.results : Tests[r.test].idx = r.template
=============================================================================

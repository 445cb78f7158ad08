# A TLA+ model of konfirm's controllers

konfirm runs integration tests inside a Kubernetes cluster. Three controllers in
one manager turn custom resources into each other and finally into Pods:

    TestSuite --(trigger)--> TestRun --(one per template)--> Test --> Pod

Results travel the other way: a Pod's phase decides its Test, the Tests decide
their run, the end of the run makes the suite Ready again. Everything is done by
*level-triggered* reconciles that read possibly old caches and then make one API
call after another, any of which can fail, be applied without an answer, or be
overtaken by users, kubelets, the garbage collector and the other controllers.
That is what these modules are about.

## Inventory

| Component | State | Operations | Talks to | What is hard |
|---|---|---|---|---|
| Test controller (`controllers/test_controller.go`) | the Test's phase and finalizer, its Pods and their finalizers, passed/failed counters | `Reconcile`, `isRunning`, `isComplete` | Pods it owns; deleted by the TestRun controller | stale listings, Pods deleted under it, lost replies to a create, errors in the middle of loops |
| TestRun controller (`controllers/testrun_controller.go`) | phase, results, finalizer of the run; its Tests | `Reconcile`, `isRunning`, `isComplete` | Tests it owns; deleted by the suite | mapping Tests to templates by name, edited templates, deletion in the right order |
| TestSuite controller (`controllers/testsuite_controller.go`) | phase, current run, next run, trigger, schedule annotation, finalizer; its runs | `Reconcile`, `notRunning`, `isRunning` | runs it owns; the clock; Helm secrets | several calls per transition, time, history limit, triggers of three kinds |
| Helpers (`controllers/helpers.go`) | none | `addFinalizer`, `removeFinalizer`, `cleanUp`, `cleanUpAll` | API server | whole-list patches from old copies, delete and patch as two calls |
| Compaction loop (in both upper controllers) | a list and two indices | release deleted items, close gaps | helpers | index arithmetic on a list that shrinks |
| Helm release watcher (`controllers/helmrelease_watcher.go`, `helpers.go:150-202`) | none of its own; reads the caches of suites and policies, writes the suite queue | predicate `IsHelmRelease`; `Create`, `Update`, `Delete`, `Generic`, `handle` | suites by label, HelmPolicies; the TestSuite controller's queue | labels two places spell, events that are dropped, a handler nobody repeats |
| Manager (`main.go`) | caches, work queues | start, restart | all of the above | a crash between any two calls |
| API types, error list, logging, mock program, generated code, chart | - | - | - | no behaviour of their own |

What makes each correct: a Test shows only what a node reported, keeps its
verdict, has one Pod at a time that nobody deleted, keeps the Pod its policy
retains and leaves none behind; a run has one Test per template, passes only if all
of them did, and, if no suite has its finalizer on it, goes after its Tests; a suite has one run at a time, loses no trigger, wakes up in time
and keeps no more runs than asked for; a release reaches the suites that may see
it, and no others; everything that was begun ends.

## Modules

- `KubeApi` - the API server and the watch-fed cache, as the controllers use them,
  and the finalizer helpers. A kind of objects is a *feed*: the sequence of states
  from the one the cache shows to the one the server has. A write appends to it, a
  watch event drops the first. A call is the set of its outcomes: applied, refused,
  failed before or after it was applied.
- `TestController`, `TestRunController`, `TestSuiteController` - one controller
  each, for one object of its kind. `Reconcile` takes copies from the heads of the
  feeds into `job`; after that every API call of the code is an action with
  `job.step` as its program counter. Loops over listed objects visit them in any
  order, because the listings come from a cache index. What other programs do is
  under "The cluster around the controller".
- `Compaction` - the two-index loop, with the code's indices.
- `HelmWatcher` - the watcher's handler and the Helm part of the TestSuite
  controller as two threads over the same caches: one release with several
  versions, one suite per namespace. `TestSuiteController` has the rest of that
  controller, and there a deployed release just may or may not queue the suite.
- `Lifecycle` - the abstract specification of what a reader of a status may rely
  on: undecided, decided once, gone only after a deletion.
- `RunAndTest` - the TestRun and the Test controller composed.
- `MCTestController`, `MCTestRunController`, `MCTestSuiteController` - symmetry
  sets for TLC; generated names are only compared for equality. `MCHelmWatcher` -
  the specs, policies and ways to create a secret that the runs choose from.
- `KubeApiProofs`, `TestControllerProofs`, `TestRunControllerProofs`,
  `TestRunLifeProofs`, `TestSuiteControllerProofs`, `CompactionProofs`,
  `HelmWatcherProofs`, `RunAndTestProofs` - theorems. `TestRunLifeProofs` and the
  later parts of `TestControllerProofs` are about a controller whose reconciles
  start with current caches.

Operators whose names have a suffix after an underscore (`Handle_AlwaysRuns`) are
mutants: plausible mistakes in the operator before the underscore, used to see
that each property notices one. No specification uses them.

### Correspondence

| Code | Model |
|---|---|
| `r.Get`, `r.List` | `Cached(feed)`, read once, in `Reconcile` |
| `DeletionTimestamp != nil` | `del` |
| a NotFound answer | the object's phase is `"Gone"` |
| `ErrRequeueDelay`, a returned error | `Return(TRUE)`: the key is queued again; the delay is not measured |
| `RequeueAfter: until` | `wake`, and the action `WakeUp` |
| `ErrorList` | `job.err` |
| `client.MergeFrom(orig)` | `Merged`, `WithStatus`: only fields that differ from the copy are sent |
| a patch made from a copy older than the last reply | carries a resourceVersion and so may answer `"Conflict"` (`PatchAnswers`) |
| the controller reference index by owner *name* | `podFeed` holds the Pods of all Tests of that name, told apart by `owner` |
| `GenerateName[l-2 : l-1]` | `Digit`, the index modulo `Radix` (10 in the code) |
| a panic | `Panic`, `NilSchedule`: the manager dies and starts anew |
| a release name in which the code looks for `.` or `/` | the sequence of its parts: `<<"app", "/", "db">>` |
| `release.LabelValue()` / the label of `testsuite_controller.go:218` | `LabelValue` (name first) / `HelmLabel` (namespace first) |
| `Update`, `Delete`, `Generic` of the handler | `SecretEvent` appends to `events` for a created secret only |
| one call of `handle` | `watcher`: a list, a lookup or one `AddRateLimited` per step; an error ends it |
| a secret | `kind`: `"helm"` (parses), `"unlabelled"` (Helm's type without its labels or with a version that is no number), `"opaque"` (not Helm's type) |
| the counters, the last trigger, what a policy once exported | history variables `counted`, `outcome`, `verdict`, `noticed`, `announced`, `exported` |

Abstractions: `cleanUp`'s delete and patch are one action with every combination
of outcomes, the states in between excepted; conditions, messages, events and logs
are left out, the two counters of Tests are `counted`; a Test's phases below final
are one phase to the run, and a run's to the suite; creation times are distinct
(`seq`), although the server's have seconds; periodic resyncs are left out, so
that progress has to come from events and errors alone; the Pod phase Unknown,
which nodes no longer report, is left out; one manager is active. A release's
secret is taken to carry the labels the code asks for, `owner: Helm` included, as
the repository's tests create it (`testsuite_controller_test.go:356`).

## Runs

`Max...` constants bound what the surroundings do: failing calls, evictions,
restarts, edits, deletions, triggers. `MaxLag` is how many changes a cache may be
behind when a reconcile starts (during the reconcile it may fall behind further),
`MaxBehind` keeps the cluster from running away from the cache. Deadlock is not an
error in any of them: with all bounds used up and nothing left to do the system
rests.

| Run | Checks | Instance |
|---|---|---|
| `test_stale` | `TypeOK`, `VerdictSound`, `PodProtected`, `Converged` | two Pods, lag 1, a failing call, an eviction |
| `test_fresh` | `CountedOnce`, `SinglePod`, `NoOrphanPods`, `EvidenceKept`, refinement `LifeOfTest` | lag 0, one failing call, one eviction, one restart, the Test created twice |
| `run_stale` | `ResultsSound`, `Converged`, `DeletionGoesOn` | two templates, one of which is removed; a Test deleted; lag 1, a failing call |
| `run_fresh` | `RunVerdictSound`, `OneTestPerTemplate`, `NeverPanics`, `TestsFirst`, `TestsRetained`, `RunEnds`, refinement `LifeOfRun` | two templates, a run without the suite's finalizer, lag 0, a failing call, a restart, fairness |
| `suite_stale` | `Converged`, `DeletionGoesOn` | two runs, history limit 1, two triggers, lag 1, a failing call, a run deleted |
| `suite_schedule` | `ScheduleArmed` | no, a valid and an invalid schedule with one edit, five units of time, one of grace, lag 1, a release, a restart |
| `suite_fresh` | `OneRunAtATime`, `TriggerKept`, `RunningRunKept`, `TriggerServed`, `DeletedSuiteGone` | two runs, history limit 0, two triggers, lag 0, fairness |
| `compaction` | `InRange`, `LeavesLive`, `ReleasesDeleted`, `Terminates` | every list of up to six objects |
| `helm` | `ExportedOnly`, `LabelConverged`, `CreatedNoticed`, `NeverBackwards` | two namespaces, two versions (the first created as deployed, the second as pending), five specs, three policies, lag 1, one edit, one failing call or restart |
| `pipeline` | `EndToEndSound`, `FailureEvidence`, `RunFinished`, `Cleared`, refinement `RunImplemented` | one template, one Pod, a run of a suite, lag 0, a restart, fairness |
| `helm_missed` | violates `ReleaseNoticed` | one version, created as pending, nothing fails |
| `suite_helm_repeats` | violates `TriggeredOnce` | one release, nothing fails |

Why the bounds are enough: two Pods are what it takes for a Pod and a mistaken
second one, two Tests for a list in the wrong order, two runs for an overlap; one
fault, one restart, one eviction put each hazard at every place of every
reconcile; a lag of one lets a reconcile miss its own last write, which is what
all the stale-cache hazards are made of. `Converged` is the safety face of
liveness: whenever the queue is empty and the caches are current, the object is
where it should be, so no reconcile gave up without coming back. In `helm` two
namespaces are the release's own and another, two versions are the least that can
be superseded, and the release is named like its namespace, because only then do
the watcher's label and the suite's agree (`helm_label` below). In `pipeline` one
Pod is enough, since with current caches a second one is started only after the
first was evicted, which is the business of `test_fresh` (`SinglePod`), and no call
fails, because of line 144 of the Test controller (`test_not_released` below).

`test_progress.cfg` is one more passing instance, of the Test controller alone
under each retention policy with an eviction: `Decided`, `DeletedTestGone`,
`DeletedPodGone`.
`suite_reschedule.cfg` is another, of the TestSuite controller: a schedule replaced by
a second valid one, invalidated or removed in two edits, with missed times and a
restart, when reconciles start with current caches: `ScheduleArmed` and
`ScheduleKnown`, that no reconcile comes to a next run without a schedule.

Fairness, used by `run_fresh`, `suite_fresh`, `pipeline`, `compaction`,
`test_progress` and `suite_run_missing`: the worker takes queued keys and finishes reconciles, watches
deliver, the timer fires and the clock goes on (controller-runtime); nodes end and
remove Pods, and the controller below decides and releases its objects, which the
module below shows. Users, faults and restarts are never fair. `RunAndTest` needs
least: weak fairness of one action `Progress`, that the workers, watches, nodes, the
garbage collector and the suite do not all stop together.

### Refinement and composition

`TestController` and `TestRunController` instantiate `Lifecycle` on what a reader
sees (`Life`): every phase that is not a verdict is `"Undecided"`, an object that
is not there is `"Gone"`. `LifeOfTest` and `LifeOfRun` say that every step of the
detailed specification is a step of that life or leaves it alone. They need current
caches: with a cache one change behind a verdict can be replaced
(`test_verdict_lost`).

`RunAndTest` instantiates both controllers, each with its own view of the one Test.
A step of the run's controller is a step of `TestRunController` after which the
Test is created, deleted or untouched on the other side too (`TestFollows`); before
it is created it is, to its own controller, an earlier Test of that name that is
gone (`Uncreated`). A step
of the Test's controller is one of `TestController` after which the run's side sees
the Test's phase, deletion and finalizers (`RunFollows`, `View`). `TestRunController`
on its own lets the cluster decide and release Tests at any time (`TestDecided`,
`TestReleased`); `RunImplemented` says that the real Test controller does no more
than that, so that what `run_fresh` shows of a run is not lost when the Tests are
real. Each module bounds how far its caches may be behind when the cluster acts;
to each of the two modules the other one is cluster, and it does not ask, so both
are instantiated with a bound (`AnyBehind`) that neither feed reaches, which is
part of what is proved.

The run is one of a suite. The suite, which is not composed, acts by
`SuiteReleases`, what its `removeFinalizer` can do to a deleted run: its patch
writes the whole list that its copy of the run shows without its own finalizer,
so it may take away the finalizer of the run's controller as well. A run that is
gone that way leaves its Test to the garbage collector (`Orphaned`), whose
progress `Cleared` therefore needs. `EndToEndSound`, `FailureEvidence` and
`Cleared` are about both: a run's verdict goes back to a report of a node, the
retention policy that both controllers apply, each at its own time, spares the
failed Pod, and deletion comes down from the run to the Pods and back up through
three finalizers, or past the run's.

### Two disagreements with the repository's own words

`helm_missed`: the comment of `EnqueueForHelmTrigger` (`helmrelease_watcher.go:67`)
says it responds to Create and Update events; `Update` (line 76) returns at once.
Helm creates a release's secret as pending and updates it to deployed, so the event
that would matter is dropped and the suite learns of the release at its next
unrelated reconcile.

`suite_helm_repeats`: `testsuite_controller.go:493` stores the annotation *named
like* the version, which does not exist, and so remembers nothing: the release
triggers again after every run. `testsuite_controller_test.go:452` expects the
version there, in an `Eventually` that nothing asserts.

### Where the promises end

The following configurations are not part of the runs above. Each makes TLC
produce a counterexample, and so says which assumption a promise needs or which
other line does something else than its comment or test says.

| Configuration | Violates | Because |
|---|---|---|
| `test_verdict_lost` | `LifeOfTest` with lag 1 | a reconcile that does not see the verdict yet goes through `isRunning` again (`test_controller.go:187`) |
| `test_counted_twice` | `CountedOnce` with lag 1 | the same, at line 384; "The number of Tests that have passed" (line 52) |
| `test_pod_orphaned` | `NoOrphanPods` with lag 1 | a Pod the listing did not have keeps its finalizer after the Test is gone (line 129) |
| `test_not_released` | `DeletedTestReleased` | the error of line 144 is shadowed and lost |
| `test_stopped_pod` | `DecidedByFinishedPod` | a Pod that ended because it was deleted decides the Test (line 220) |
| `test_two_pods` | `OnePodAtWork` | a Pod that is deleted while it runs is released and left out of the list, and the next one is created without waiting for its end (219-286); `SinglePod` is about Pods nobody deleted |
| `test_other_pod` | `DecidedByOwnPod` | Pods are found by the owner's name, not its UID (line 485) |
| `run_panics` | `NeverPanics` with a Test deleted | line 217 indexes past the end of the list |
| `run_outlived` | `TestsFirst` for a run of a suite | the suite's patch that removes its own finalizer writes a whole list from an old copy (`testsuite_controller.go:147,246`, `helpers.go:92-95`) and takes away the one of the run's controller too; the run is gone while it has Tests |
| `run_passed_unsound` | `RunVerdictSound` with lag 1 | duplicates of one Test stand for another template (line 217) |
| `run_many_templates` | `OneTestPerTemplate` with more templates than digits | one character of the index is read (line 214); radix 2 stands for 10 |
| `suite_two_runs` | `OneRunAtATime` with a failing call | a run is created and its name not recorded (`testsuite_controller.go:604-631`) |
| `suite_trigger_lost` | `TriggerKept` with a failing call | the trigger is reset before the suite is Running (475-542) |
| `run_mislabelled` | `ResultsLabelled` | `testrun_controller.go:215` declares a second `i`, so line 217 stores the i-th Test *of the list* under template i: in another order the results are swapped |
| `suite_run_missing` | `MissingRunForgotten` | `testsuite_controller.go:565` returns an error for a current run that is gone and leaves `currentTestRun` as it is: the suite is Running for good |
| `helm_label` | `CreatedNoticed` for a release not named like its namespace | the watcher looks for name.namespace (`helpers.go:162`), the suite carries namespace.name (`testsuite_controller.go:219`) |
| `helm_exported` | `ExportedNoticed` | a suite that names a release of another namespace has a `/` in its label, which the server refuses, and "*" is no wildcard at `testsuite_controller.go:431`; `testsuite_controller_test.go:558-575` expects a run |
| `suite_tick_repeats` | `TriggeredOnce` | a scheduled run leaves the next run where it was (517-524) |
| `suite_old_next_run` | `ScheduleArmed` with two valid schedules and lag 1 | a reconcile that does not see the next run yet does not clear it (`testsuite_controller.go:176`), annotates the new schedule and keeps the old time |
| `suite_clear_fails` | the same, with lag 0 and a failing call | the error of the call that clears it is only logged (line 181), and the reconcile goes on |
| `suite_nil_schedule` | `ScheduleKnown` with lag 1 | a next run that survives the removal of its schedule is found missed, and line 507 asks a nil schedule |
| `suite_finalizer_lost` | `RunFinalizerKept` | `helpers.go:95` writes a whole list from an old copy |
| `suite_run_skipped`, `compaction_skips` | `DeletedRunsReleased`, `ReleasesAll` | the inner loop releases item i and not item j (`testsuite_controller.go:267`, `testrun_controller.go:182`) |

## Proofs

Every theorem holds for every value of the constants that the module's
`ConstantsAssumption` allows: any number of Pods, names, templates, namespaces and
versions, any number of faults, restarts, evictions and edits. The assumptions are
those a cluster satisfies: bounds are natural numbers, policies are the three of
the API, names and versions are finite sets (a list has finitely many items), the
names of a release and of its namespace hold no separator (they are DNS labels),
`exportTo` is a list of strings. What a theorem needs beyond that is in its
statement:

- `MaxLag = 0`: a reconcile *starts* with current caches; it may fall behind while
  it goes on, calls fail and the manager restarts. `test_verdict_lost`,
  `test_counted_twice`, `test_pod_orphaned` and `run_passed_unsound` show that none
  of these promises is kept otherwise.
- `NumTests <= Radix`: one character tells the templates apart
  (`run_many_templates`).
- `MaxDeletions = 0`: nobody but the controller deletes Tests (`run_panics`).
- `InitialFins \subseteq {{}}`: the run does not carry the suite's finalizer, so that
  nobody else writes its list of finalizers (`run_outlived`). In the model this is a
  run that a user created; a suite creates all of its runs with the finalizer.
- `MaxEdits = 0`: nobody shortens the run's list of templates, for which the
  controller itself deletes Tests in the middle of a run; nobody edits the suite's
  schedule, which between the patch that resets a trigger and the patch that sets
  the suite Running makes the second one conflict, and the trigger is lost.
- `MaxFaults = 0`, `MaxRestarts = 0` (suite only): the two calls that start a run
  are both made and both answered (`suite_two_runs`, `suite_trigger_lost`).
- `OneSchedule \/ Punctual`: either no two valid schedules, so that a next run that
  outlives an edit is still one of the schedule that comes back, or current caches and
  no failing call, so that it never outlives one (`suite_old_next_run`,
  `suite_clear_fails`). `TimerAlwaysSet` has neither: that there is a next run, and
  a timer for it, does not depend on it.
- `Home = Release`: the release is named like its namespace (`helm_label`).

| Theorem | States | For |
|---|---|---|
| `TestControllerProofs!TypeCorrect` | `TypeOK` | caches of any age |
| `VerdictAlwaysSound`, `PodsAlwaysProtected` | `VerdictSound`, `PodProtected` | caches of any age |
| `TestControllerProofs!AlwaysConverged` | `Converged` | caches of any age |
| `AlwaysCountedOnce`, `AlwaysSinglePod`, `NeverOrphanPods`, `EvidenceAlwaysKept` | `CountedOnce`, `SinglePod`, `NoOrphanPods`, `EvidenceKept` | `MaxLag = 0` |
| `TestControllerProofs!LifeRefined` | the refinement `LifeOfTest` | `MaxLag = 0` |
| `TestRunControllerProofs!TypeCorrect` | `TypeOK` | caches of any age |
| `ResultsAlwaysSound` | `ResultsSound` | caches of any age |
| `TestRunControllerProofs!AlwaysConverged`, `DeletionAlwaysGoesOn` | `Converged`, `DeletionGoesOn` | caches of any age |
| `TestsAlwaysFirst` | `TestsFirst` | `MaxLag = 0`, runs without the suite's finalizer |
| `TestRunLifeProofs!LifeRefined` | the refinement `LifeOfRun` | `MaxLag = 0` |
| `AlwaysOneTestPerTemplate` | `OneTestPerTemplate` | `MaxLag = 0`, `NumTests <= Radix` |
| `PanicsNever` | `NeverPanics` | `MaxLag` and `MaxDeletions` 0, `NumTests <= Radix` |
| `AlwaysTestsRetained` | `TestsRetained` | `MaxLag`, `MaxDeletions` and `MaxEdits` 0 |
| `RunVerdictsAlwaysSound` | `RunVerdictSound` | `MaxLag` and `MaxEdits` 0, `NumTests <= Radix` |
| `TestSuiteControllerProofs!TypeCorrect` | `TypeOK` | caches of any age |
| `TestSuiteControllerProofs!AlwaysConverged`, `DeletionAlwaysGoesOn` | `Converged`, `DeletionGoesOn` | caches of any age |
| `OneRunAlwaysAtATime`, `RunningRunAlwaysKept` | `OneRunAtATime`, `RunningRunKept` | `MaxLag`, `MaxFaults` and `MaxRestarts` 0 |
| `TriggerAlwaysKept` | `TriggerKept` | the same, and `MaxEdits = 0` |
| `TimerAlwaysSet` | `TimerSet`: `ScheduleArmed` but for which times the next run may have | caches of any age |
| `AlwaysScheduleArmed` | `ScheduleArmed` | caches of any age if `OneSchedule`; `MaxLag` and `MaxFaults` 0 otherwise (`Punctual`) |
| `AlwaysScheduleKnown` | `ScheduleKnown` | `MaxLag = 0` |
| `AlwaysInRange`, `AlwaysLeavesLive`, `AlwaysReleasesDeleted` | `InRange`, `LeavesLive`, `ReleasesDeleted` | lists of any length |
| `AlwaysExportedOnly`, `BackwardsNever` | `ExportedOnly`, `NeverBackwards` | caches of any age |
| `AlwaysLabelConverged` | `LabelConverged` | caches of any age |
| `AlwaysCreatedNoticed` | `CreatedNoticed` | caches of any age, `Home = Release` |
| `RunRefined` | the refinement `RunImplemented` | the composition: one template, current caches |
| `TestRefined` | every step is one of `TestController` for the Test | the same |
| `AlwaysEndToEndSound`, `FailureEvidenceStays` | `EndToEndSound`, `FailureEvidence` | the same |

None of the safety invariants is inductive. The strengthenings, each of which TLC
checked on a run before it was proved:

**Old information is incomplete, not wrong** (`Evidence`, Test and TestRun
controller). A verdict is written from a copy that came from some state in the
feed. `FeedAgrees`: every listing in the feed that shows an object deleted or
decided is right about it today, since neither is ever undone. `JobAgrees`: so are
the copies of the reconcile in progress and what it has chosen from them.
`Unfinished`, `Undecided`: an object that is not decided has no report yet, so that
a report is made once. The run's type invariant needs `Mapped` besides: a reconcile
that got past the mapping of Tests to templates has not indexed their list past its
end, or the results would name no Test.

**A reconcile works for the object it read** (`Current`, `Owned`; `MaxLag = 0`).
Nobody else writes the status, so the copy of a reconcile that started current
stays right about phase and finalizer, and a list can only lose what others delete.
For the Test: `OwnTest` and `OwnPods` (the copies), `HeldPods` (a Pod that is to
be cleaned up is still to come, or an error is noted), `Unneeded` (a Test without finalizer has no Pod
that holds one), `Counting` (a Test that is not decided is not counted). For the
run: `OwnRun`, `OwnTests`, `Held`. A run of a suite may lose its finalizer to the
suite's patch at any time, so for `TestsFirst` there is `Outlives`: without the
suite's finalizer, in the stored run or in a copy, the run has its own as long as it
has Tests or one is about to be created. Both refinements of `Lifecycle` follow: a step
that decides starts from an object that is undecided, and no step after that
touches the verdict.

**One Test per template.** `Single`: no two live Tests have one index, and those
still to be created have none. `Gapless`: Tests are created in the order of the
templates, so the indices of a run that is going on are an initial segment, and the
position that `testrun_controller.go:217` takes from a name is one of the list.
`Unedited`: the list is then never longer than the templates. `RunVerdictSound`
adds a counting argument: a run has as many results as templates only if every
position of the list holds a decided Test, so although the second `i` of line 215
mixes the results up, none is left out.

**Whoever is not queued is done** (`Attentive`, all three controllers). While the key is
not queued and the feeds are current (`Calm`), nothing changed since the reconcile
in progress read its copies, so they are what the server has; and a step that could
not do what it should have done has an error to return. So when the reconcile ends
without an error, what it saw is what `Converged` is about.

**A patch changes what the reconcile changed** (`PatchKeeps`, TestSuite controller).
A merge patch is made from a copy, and the first of a reconcile is sent without a
version: the server may have moved on, and keeps all the fields that the reconcile
left alone. A later patch, made from a copy older than the last reply, carries the
version and is refused whole if anything changed. So a trigger, a schedule or a
deletion that came meanwhile is never overwritten, and with no failing call a
reconcile knows of each of its patches whether it was applied.

**One run at a time** (`Alone`). `Lone`: a run that is not finished is the one
`currentTestRun` names, or the one that the reconcile in progress has just created
and is about to record (step `"track"`). `Knows`: nobody else writes phase and
current run or creates runs, so the copy of a reconcile that started current is
still right about them when it decides to create another. The history is cut only
by a reconcile of a suite that is not Running, in which no run is unfinished, hence
`RunningRunKept`.

**A trigger is in somebody's hands** (`Owing`). A trigger that no run answers yet
is still set on the suite, or was reset by the reconcile in progress, whose copy
then is the stored suite, so that its next patch cannot conflict, or the suite is
Running without a run yet, and the next reconcile creates one.

**The timer is somebody's business** (`Armed`). As long as the reconcile is calm
(`Calm`, above) it knows the stored next run, or has just forgotten it and is on its
way to annotate another schedule (`AtTime`); it comes to the next run only with the
schedule annotated, and ends without one only if the suite is not Ready or its
schedule not valid (`Arms`). So whoever rests has just set the timer. A timer can
only be set earlier, never later, or go off and queue the key; a restart forgets it
and queues the key. Which times the next run may have is another matter: with one
valid schedule every next run in any copy was computed from it (`AllOnTime`); with
several, the stored one is a time of the *annotated* schedule, because a current copy
forgets it before it annotates another (`Planned`, `InStep`).

**No next run outlives its schedule** (`AllAbreast`, `MaxLag = 0`). Here calls fail,
and a copy may have forgotten a next run that the server still has: line 181 only
logs that. `Exact`: this happens only to a reconcile of an edited schedule, which it
goes on to annotate. `Cleared`: past the schedule a copy either has no next run or
has the schedule it was annotated with. `Follows`, `Abreast`: no copy ever has a
next run or a phase of its own. So a reconcile without a schedule has patched the
next run away and knows it, or has returned.

**Two controllers, one Test** (`RunAndTestProofs`). `Linked`: what the run's
controller has for its Test is the `View` of the Test its controller has, and both
have the run's retention policy. `Joint`: every step of the composition is a step,
or a stutter, of both modules at once, so the invariants of each (`RunInv`,
`TestInv`) hold as they were proved and need no second proof. For a step of one to
be allowed to the other the feeds have to stay short: the run's view of the Test
only ever moves up (`Rank`: created, decided, deleted, gone), so its feed has five
states at most (`Brief`), and the Test's controller reads the Test again after at
most two writes (`Short`). `Judged`: the verdict the run's side remembers is the
phase of a Test, for which a node reported. `Untouched`: as long as nobody evicts
Pods, a Test that is not deleted and whose policy drops nothing has all its Pods;
and `Retained`: a run that drops nothing has its Test. Together they are
`FailureEvidence`.

**The loop** (`LoopInv`). The items up to `i` are live (`Settled`), ids are distinct
and none of the live ones is lost (`Distinct`, `Complete`), between `i` and `j` lies
the gap (`Gap`), and only deleted ones were released, none of them only as long as
the list is as it was read (`Spared`).

**The watcher.** `Shape` is its type invariant. `Entitled`: every policy in the
feed, in a call of the handler and behind a job that lists or triggers was once
set, whatever it is now. `Rising`: a deployed version goes only after a newer one
is deployed, so *every* state of the feed, however old, covers the newest version
of any state before it, the version being acted on, and the last one noticed.
`Labelled`: a suite whose label does not follow its spec is queued, has events to
come, or is being labelled from a current copy. `Steady` and `Pursued`: a version
that was created as deployed and still is was never anything else in any copy that
has it; and if the ready suite was not triggered by it, the suite is queued or has
events to come, the handler has not come to it yet, or a reconcile works for it
from a current copy, on its way to a version at least as new. The critical step is
the handler that looks for the suite's label and does not find it: by `Labelled`
the suite is then about to get its label, and the reconcile that writes it goes on
to list the releases itself.

The proofs follow the actions: what each writes is stated once (`PodWritten`,
`SuiteWritten`, `HelmChanges`, `LabelPatched`...), then each conjunct is shown for
each action that can disturb it. `KubeApiProofs` has the facts about feeds:
reading, writing, forgetting and restarting.

Only model-checked: liveness under fairness (`RunEnds`, `RunFinished`, `Cleared`,
`TriggerServed`, `DeletedSuiteGone`, `Terminates`), which this prover cannot
express. Every invariant and every other action property that a passing run checks
is the property of a theorem.

## Plan

1. Done: `KubeApi`, the three controllers, `Compaction`; type correctness,
   `VerdictSound` and `PodProtected` of the Test controller proved.
2. Done: `HelmWatcher`; `Lifecycle` and the two refinements; `RunAndTest`.
3. Done: proofs about the Test controller, the TestRun controller, the loop and the
   watcher.
4. Done: proofs about the TestSuite controller.
5. Done: the composition `RunAndTest` from the invariants of its parts.
6. Done: the schedule and the timer of the TestSuite controller, `ScheduleArmed`
   and `ScheduleKnown`.

Nothing of the plan is left. What would come next is the suite composed with its
runs, as `RunAndTest` composes a run with its Test.

## Not modelled

Log output, Prometheus gauges, conditions, messages and events, the hash put on a
run as a label, chart and manifests, generated deep copies, the mock program, flags
and probes: nothing a controller reads back. Leader election: one manager is
active. The suite is not composed with the runs below it: what it asks of them
(adopted, decided, released) is what `run_fresh` and `pipeline` show they do, and the product of
all three is beyond TLC at bounds where anything happens.

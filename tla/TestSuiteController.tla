------------------------ MODULE TestSuiteController -------------------------
(***************************************************************************)
(* The TestSuite controller (controllers/testsuite_controller.go): it      *)
(* starts a TestRun when the suite is triggered by a user, by its schedule *)
(* or by a Helm release, one at a time, follows it until it finishes, and  *)
(* keeps no more runs than the history limit.                              *)
(*                                                                         *)
(* As in TestController a reconcile reads its caches once and every API    *)
(* call is an action.  Time is counted in units of the schedule; an error  *)
(* requeues the key after a delay the model does not measure.  How a suite *)
(* finds its Helm release, and the label it carries for the watcher of     *)
(* releases, are module HelmWatcher.                                       *)
(***************************************************************************)
EXTENDS KubeApi, FiniteSets, Integers

CONSTANTS
  Names,        \* names the server can generate for TestRuns of the suite
  HistoryLimit, \* spec.historyLimit
  Schedules,    \* schedules the suite can have: periods, 0 for none
  BadSchedule,  \* the one that is not a valid cron value
  HelmTrigger,  \* whether the suite waits for a Helm release
  Grace,        \* how late a scheduled run may start: the code's 10 seconds
  MaxTime, MaxTriggers, MaxReleases, MaxEdits, MaxDeletions,
  MaxLag,       \* a reconcile starts with caches at most this many changes behind
  MaxBehind,    \* the cluster changes something only while a cache is less behind than this
  MaxFaults,    \* API calls that fail or whose reply is lost
  MaxRestarts   \* crashes of the manager

None == -1

ASSUME ConstantsAssumption ==
  /\ Schedules \subseteq Nat
  /\ BadSchedule \in Nat \ {0}
  /\ HelmTrigger \in BOOLEAN
  /\ None \notin Names /\ IsFiniteSet(Names)
  /\ {HistoryLimit, Grace, MaxTime, MaxTriggers, MaxReleases, MaxEdits, MaxDeletions,
      MaxLag, MaxBehind, MaxFaults, MaxRestarts} \subseteq Nat

VARIABLES
  suiteFeed,  \* the TestSuite, from the cached to the stored state
  runFeed,    \* the TestRuns it controls, likewise
  queued,     \* the suite's key is in the controller's work queue
  wake,       \* when the key enters the queue by itself
  now,        \* the clock
  helm,       \* the version of the deployed Helm release, 0 for none
  job,        \* the reconcile in progress
  owed,       \* history: a user's trigger no TestRun was started for yet
  fired,      \* history: the scheduled times and releases that triggered
  repeated,   \* history: one of them triggered again
  faults, restarts, triggers, edits, deletions

bounds == <<triggers, edits, deletions>>
vars == <<suiteFeed, runFeed, queued, wake, now, helm, job, owed, fired, repeated,
          faults, restarts, bounds>>
history == <<owed, fired, repeated>>
env == <<now, helm, restarts, bounds>>

SuiteFin == "konfirm.goraft.tech/testsuite-controller"
RunFin   == "konfirm.goraft.tech/testrun-controller"

IsFinal(phase) == phase \in {"Passed", "Failed"}

Listed(runs)     == {r \in Names : Exists(runs[r])}
Live(runs)       == {r \in Listed(runs) : ~runs[r].del}
Unfinished(runs) == {r \in Live(runs) : ~IsFinal(runs[r].phase)}

\* The runs of rs created before r, as the sort by creation time has them.
Before(runs, rs, r) == {q \in rs : runs[q].seq < runs[r].seq}

NewSuite(sched) ==
  [phase |-> "", current |-> None, nextRun |-> None, needsRun |-> FALSE, sched |-> sched,
   annotated |-> 0, lastHelm |-> None, del |-> FALSE, fins |-> {}]
NoRun == [seq |-> 0, phase |-> "Unborn", del |-> FALSE, fins |-> {}]
NewRun(seq) == [seq |-> seq, phase |-> "", del |-> FALSE, fins |-> {SuiteFin}]

Suite == Stored(suiteFeed)
Runs  == Stored(runFeed)

PublishRun(r, run) == runFeed' = Publish(runFeed, [Runs EXCEPT ![r] = run])

\* The next time of a schedule after t.
NextTime(sched, t) == sched * (t \div sched + 1)

-----------------------------------------------------------------------------
(***************************************************************************)
(* The reconcile in progress: its step, its copies of the suite and of the *)
(* runs, the runs still to visit in the current loop, whether one of them  *)
(* failed, the schedule it parsed, what triggered a run, and the copy the  *)
(* next patch of the suite is made from.  Where that base is older than    *)
(* the reply to a patch made since, the patch carries the suite's version  *)
(* and so may conflict.                                                    *)
(***************************************************************************)
Idle == [step |-> "idle"]
Working == job.step # "idle"

At(step, suite, runs, todo) ==
  [step |-> step, suite |-> suite, runs |-> runs, todo |-> todo, err |-> FALSE,
   base |-> suite, when |-> 0, cause |-> <<>>]

Return(requeue) ==
  /\ job' = Idle
  /\ queued' = (queued \/ requeue)

Answer(res) == faults' = IF res = "Error" THEN faults + 1 ELSE faults
Answers(outs) == {out \in outs : out.res = "Error" => faults < MaxFaults}

\* The answers to a patch that makes the reconcile's copy of the suite new.
PatchAnswers(new) ==
  Answers(IF job.base # job.suite /\ Exists(Suite) /\ Suite # job.suite
            THEN {[obj |-> Suite, res |-> "Conflict"]}
            ELSE Patch(Suite, Merged(Suite, job.base, new)))

\* Patch the suite; go on with the reply, or give up and come back later.
PatchSuite(new, Then(_)) ==
  /\ \E out \in PatchAnswers(new) :
       /\ Answer(out.res)
       /\ suiteFeed' = Publish(suiteFeed, out.obj)
       /\ IF out.res = "OK" THEN job' = Then(out.obj) /\ UNCHANGED queued ELSE Return(TRUE)
  /\ UNCHANGED <<runFeed, wake, history, env>>

\* Patch the suite and go on whatever the answer.
TryPatchSuite(new, Then(_)) ==
  /\ \E out \in PatchAnswers(new) :
       /\ Answer(out.res)
       /\ suiteFeed' = Publish(suiteFeed, out.obj)
       /\ job' = Then(IF out.res = "OK" THEN out.obj ELSE new)
  /\ UNCHANGED <<runFeed, queued, wake, history, env>>

Locally == UNCHANGED <<suiteFeed, runFeed, wake, faults, history, env>>

-----------------------------------------------------------------------------
(***************************************************************************)
(* The order of the steps: each operator gives the next step that calls    *)
(* the API, for a copy of the suite and of its runs.                       *)
(***************************************************************************)
Triggered(suite, runs) ==
  At(IF suite.needsRun THEN "manual"
     ELSE IF HelmTrigger /\ helm # 0 /\ helm # suite.lastHelm THEN "helm"
     ELSE IF suite.nextRun # None THEN "due" ELSE "done", suite, runs, {})

\* With when the schedule the suite had before it was annotated.
Parsed(suite, runs, when) ==
  [ (IF when = BadSchedule THEN At("badSchedule", suite, runs, {})
     ELSE IF suite.nextRun = None THEN At("setNext", suite, runs, {})
     ELSE Triggered(suite, runs)) EXCEPT !.when = when]

Scheduled(suite, runs) ==
  IF suite.sched = 0 THEN Triggered(suite, runs)
  ELSE IF suite.annotated # suite.sched THEN At("annotate", suite, runs, {})
  ELSE Parsed(suite, runs, suite.sched)

\* The oldest runs beyond the limit.
Old(runs) ==
  {r \in Live(runs) : Cardinality(Live(runs)) - Cardinality(Before(runs, Live(runs), r)) > HistoryLimit}

notRunning(suite, runs) ==
  IF suite.phase = "Pending" THEN At("ready", suite, runs, {})
  ELSE IF Old(runs) # {} THEN At("history", suite, runs, Old(runs))
  ELSE Scheduled(suite, runs)

\* Mutants: a run is created whether there is one or not; none ever is.
isRunning_CreatesAlways(suite, runs) ==
  At(IF suite.current \in Live(runs) /\ IsFinal(runs[suite.current].phase) THEN "finish" ELSE "create", suite, runs, {})
isRunning_CreatesNever(suite, runs) ==
  At(IF suite.current \in Live(runs) /\ IsFinal(runs[suite.current].phase) THEN "finish" ELSE "done", suite, runs, {})

isRunning(suite, runs) ==
  At(IF suite.current = None THEN "create"
     ELSE IF suite.current \notin Live(runs) THEN "missing"
     ELSE IF IsFinal(runs[suite.current].phase) THEN "finish" ELSE "done", suite, runs, {})

\* Mutant: the history limit is enforced before the phase is looked at.
EnsurePhase_HistoryFirst(suite, runs) ==
  IF Old(runs) # {} THEN At("history", suite, runs, Old(runs))
  ELSE IF suite.phase = "Running" THEN isRunning(suite, runs)
  ELSE IF Unfinished(runs) # {} THEN At("focus", suite, runs, Unfinished(runs))
  ELSE IF suite.phase = "" THEN At("pending", suite, runs, {})
  ELSE notRunning(suite, runs)

EnsurePhase(suite, runs) ==
  IF suite.phase = "Running" THEN isRunning(suite, runs)
  ELSE IF Unfinished(runs) # {} THEN At("focus", suite, runs, Unfinished(runs))
  ELSE IF suite.phase = "" THEN At("pending", suite, runs, {})
  ELSE notRunning(suite, runs)

AfterSchedule(suite, runs) ==
  IF Listed(runs) # Live(runs) THEN At("compact", suite, runs, {}) ELSE EnsurePhase(suite, runs)

AfterFinalizer(suite, runs) ==
  IF suite.sched = 0 THEN At(IF suite.annotated # 0 THEN "dropSchedule" ELSE "noSchedule", suite, runs, {})
  ELSE IF suite.sched # suite.annotated /\ suite.nextRun # None THEN At("clearNext", suite, runs, {})
  ELSE AfterSchedule(suite, runs)

Reconcile ==
  /\ ~Working /\ queued
  /\ Len(suiteFeed) <= MaxLag + 1 /\ Len(runFeed) <= MaxLag + 1
  /\ queued' = FALSE
  /\ LET suite == Cached(suiteFeed)
         runs  == Cached(runFeed)
     IN  job' = IF ~Exists(suite) THEN Idle
                ELSE IF suite.del
                  THEN At(IF Listed(runs) = {} THEN "release" ELSE "delete", suite, runs, Listed(runs))
                ELSE IF SuiteFin \notin suite.fins THEN At("finalizer", suite, runs, {})
                ELSE AfterFinalizer(suite, runs)
  /\ Locally

Done ==
  /\ job.step = "done"
  /\ Return(FALSE)
  /\ Locally

-----------------------------------------------------------------------------
\* Mutant: the finalizer of the run's own controller is removed instead.
CleanUpRun_WrongFinalizer(r) ==
  /\ job.step \in {"delete", "history"}
  /\ r \in job.todo
  /\ \E out \in Answers(cleanUp(job.runs[r], Runs[r], RunFin, "Resource")) :
       /\ Answer(out.res)
       /\ PublishRun(r, out.obj)
       /\ job' = [job EXCEPT !.todo = @ \ {r}, !.err = @ \/ out.res # "OK"]
  /\ UNCHANGED <<suiteFeed, queued, wake, history, env>>

\* cleanUpAll: the runs of a deleted suite, or the oldest beyond the limit.
CleanUpRun(r) ==
  /\ job.step \in {"delete", "history"}
  /\ r \in job.todo
  /\ \E out \in Answers(cleanUp(job.runs[r], Runs[r], SuiteFin, "Resource")) :
       /\ Answer(out.res)
       /\ PublishRun(r, out.obj)
       /\ job' = [job EXCEPT !.todo = @ \ {r}, !.err = @ \/ out.res # "OK"]
  /\ UNCHANGED <<suiteFeed, queued, wake, history, env>>

\* Mutant: the errors of the loop are not returned.
RunsDeleted_Swallowed ==
  /\ job.step = "delete" /\ job.todo = {}
  /\ Return(FALSE)
  /\ Locally

RunsDeleted ==
  /\ job.step = "delete" /\ job.todo = {}
  /\ Return(job.err)
  /\ Locally

HistoryEnforced ==
  /\ job.step = "history" /\ job.todo = {}
  /\ IF job.err THEN Return(TRUE) ELSE job' = Scheduled(job.suite, job.runs) /\ UNCHANGED queued
  /\ Locally

\* A deleted suite without runs loses its finalizer.
ReleaseSuite ==
  /\ job.step = "release"
  /\ \E out \in Answers(cleanUp(job.suite, Suite, SuiteFin, "Resource")) :
       /\ Answer(out.res)
       /\ suiteFeed' = Publish(suiteFeed, out.obj)
       /\ Return(out.res # "OK")
  /\ UNCHANGED <<runFeed, wake, history, env>>

EnsureFinalizer ==
  /\ job.step = "finalizer"
  /\ \E out \in Answers(addFinalizer(job.suite, Suite, SuiteFin, "Resource")) :
       /\ Answer(out.res)
       /\ suiteFeed' = Publish(suiteFeed, out.obj)
       /\ IF out.res = "OK" THEN job' = AfterFinalizer(out.obj, job.runs) /\ UNCHANGED queued
          ELSE Return(TRUE)
  /\ UNCHANGED <<runFeed, wake, history, env>>

\* The schedule changed: forget the next run; a failure is only logged.
ClearNextRun ==
  /\ job.step = "clearNext"
  /\ TryPatchSuite([job.suite EXCEPT !.nextRun = None], LAMBDA suite : AfterSchedule(suite, job.runs))

\* The schedule was removed: drop the annotation, then the next run.
DropSchedule ==
  /\ job.step = "dropSchedule"
  /\ PatchSuite([job.suite EXCEPT !.annotated = 0],
       LAMBDA suite : [job EXCEPT !.step = "noSchedule", !.suite = suite])

NoSchedule ==
  /\ job.step = "noSchedule"
  /\ PatchSuite([job.suite EXCEPT !.nextRun = None], LAMBDA suite : AfterSchedule(suite, job.runs))

(***************************************************************************)
(* The loop over deleted runs removes the finalizer from those its outer   *)
(* index meets and not from those its inner index skips, so it reaches at  *)
(* least one of them and at most one more than there are runs to move into *)
(* their places, depending on the order of the list (see Compaction).      *)
(***************************************************************************)
Compact ==
  /\ job.step = "compact"
  /\ \E met \in SUBSET (Listed(job.runs) \ Live(job.runs)) :
       /\ Cardinality(met) \in 1..(Cardinality(Live(job.runs)) + 1)
       /\ job' = [job EXCEPT !.step = "releaseRuns", !.todo = {r \in met : SuiteFin \in job.runs[r].fins}]
  /\ UNCHANGED queued
  /\ Locally

ReleaseRun(r) ==
  /\ job.step = "releaseRuns"
  /\ r \in job.todo
  /\ \E out \in Answers(removeFinalizer(job.runs[r], Runs[r], SuiteFin, "Resource")) :
       /\ Answer(out.res)
       /\ PublishRun(r, out.obj)
       /\ IF out.res = "OK" THEN job' = [job EXCEPT !.todo = @ \ {r}] /\ UNCHANGED queued
          ELSE Return(TRUE)
  /\ UNCHANGED <<suiteFeed, wake, history, env>>

RunsReleased ==
  /\ job.step = "releaseRuns" /\ job.todo = {}
  /\ job' = EnsurePhase(job.suite, job.runs)
  /\ UNCHANGED queued
  /\ Locally

\* Follow a run that is not finished: one after the other from the oldest on,
\* so that the suite ends up with the newest.
Focus ==
  /\ job.step = "focus"
  /\ \E r \in job.todo :
       /\ Before(job.runs, job.todo, r) = {}
       /\ PatchSuite([job.suite EXCEPT !.phase = "Running", !.current = r],
            LAMBDA suite : IF job.todo = {r} THEN isRunning(suite, job.runs)
                           ELSE At("focus", suite, job.runs, job.todo \ {r}))

SetPending ==
  /\ job.step = "pending"
  /\ PatchSuite([job.suite EXCEPT !.phase = "Pending"], LAMBDA suite : notRunning(suite, job.runs))

-----------------------------------------------------------------------------
(***************************************************************************)
(* notRunning                                                              *)
(***************************************************************************)
SetReady ==
  /\ job.step = "ready"
  /\ PatchSuite([job.suite EXCEPT !.phase = "Ready"],
       LAMBDA suite : IF Old(job.runs) # {} THEN At("history", suite, job.runs, Old(job.runs))
                      ELSE Scheduled(suite, job.runs))

Annotate ==
  /\ job.step = "annotate"
  /\ PatchSuite([job.suite EXCEPT !.annotated = job.suite.sched], LAMBDA suite : Parsed(suite, job.runs, job.suite.sched))

SetNextRun ==
  /\ job.step = "setNext"
  /\ PatchSuite([job.suite EXCEPT !.nextRun = NextTime(job.when, now)],
       LAMBDA suite : [Triggered(suite, job.runs) EXCEPT !.when = job.when])

\* A schedule that does not parse has no next run; a failure is only logged.
RejectSchedule ==
  /\ job.step = "badSchedule"
  /\ TryPatchSuite([job.suite EXCEPT !.nextRun = None], LAMBDA suite : Triggered(suite, job.runs))

\* Mutant: the trigger is reset and the reconcile goes on as if there was none.
ResetTrigger_Only ==
  /\ job.step = "manual"
  /\ PatchSuite([job.suite EXCEPT !.needsRun = FALSE], LAMBDA suite : Triggered(suite, job.runs))

\* A manual trigger is reset before the suite is set Running.
ResetTrigger ==
  /\ job.step = "manual"
  /\ PatchSuite([job.suite EXCEPT !.needsRun = FALSE],
       LAMBDA suite : [job EXCEPT !.step = "trigger", !.suite = suite, !.cause = <<"Manual", 0>>])

\* The release is recorded before the suite is set Running: what is recorded
\* is the annotation that has the version for its name, and there is none, so
\* the last release becomes the empty string (0).
AnnotateRelease ==
  /\ job.step = "helm"
  /\ PatchSuite([job.suite EXCEPT !.lastHelm = 0],
       LAMBDA suite : [job EXCEPT !.step = "trigger", !.suite = suite, !.cause = <<"Helm", helm>>])

RequeueAt(t) == wake' = IF wake = None \/ t < wake THEN t ELSE wake

\* Mutant: the key is not queued again for the next run.
WaitForNextRun_Sleeps ==
  /\ job.step = "due"
  /\ now < job.suite.nextRun
  /\ Return(FALSE)
  /\ Locally

\* A scheduled run is early, late but within the grace, or missed.
WaitForNextRun ==
  /\ job.step = "due"
  /\ now < job.suite.nextRun
  /\ RequeueAt(job.suite.nextRun)
  /\ Return(FALSE)
  /\ UNCHANGED <<suiteFeed, runFeed, faults, history, env>>

NextRunIsDue ==
  /\ job.step = "due"
  /\ now \in job.suite.nextRun..(job.suite.nextRun + Grace)
  /\ job' = [job EXCEPT !.step = "trigger", !.cause = <<"Scheduled", job.suite.nextRun>>]
  /\ UNCHANGED queued
  /\ Locally

NextRunMissed ==
  /\ job.step = "due"
  /\ now > job.suite.nextRun + Grace /\ job.when # 0
  /\ LET next == NextTime(job.when, now)
     IN  \E out \in PatchAnswers([job.suite EXCEPT !.nextRun = next]) :
           /\ Answer(out.res)
           /\ suiteFeed' = Publish(suiteFeed, out.obj)
           /\ IF out.res = "OK" THEN RequeueAt(next) ELSE UNCHANGED wake
           /\ Return(out.res # "OK")
  /\ UNCHANGED <<runFeed, history, env>>

\* A next run was missed that outlived its schedule: there is no schedule to
\* ask for the next, the nil one kills the manager and it starts anew.
NilSchedule ==
  /\ job.step = "due"
  /\ now > job.suite.nextRun + Grace /\ job.when = 0
  /\ suiteFeed' = <<Suite>> /\ runFeed' = <<Runs>>
  /\ queued' = TRUE /\ wake' = None /\ job' = Idle
  /\ UNCHANGED <<faults, history, env>>

SetRunning ==
  /\ job.step = "trigger"
  /\ \E out \in PatchAnswers([job.suite EXCEPT !.phase = "Running", !.current = None]) :
       /\ Answer(out.res)
       /\ suiteFeed' = Publish(suiteFeed, out.obj)
       /\ Return(out.res # "OK")
       /\ IF out.res = "OK" /\ job.cause[1] # "Manual"
            THEN fired' = fired \cup {job.cause} /\ repeated' = (repeated \/ job.cause \in fired)
            ELSE UNCHANGED <<fired, repeated>>
  /\ UNCHANGED <<runFeed, wake, owed, env>>

-----------------------------------------------------------------------------
(***************************************************************************)
(* isRunning                                                               *)
(***************************************************************************)
MissingRun ==
  /\ job.step = "missing"
  /\ Return(TRUE)
  /\ Locally

CreateRun ==
  /\ job.step = "create"
  /\ \E r \in Names, res \in {"OK", "Error"} :
       /\ Runs[r].phase = "Unborn"
       /\ res = "Error" => faults < MaxFaults
       /\ Answer(res)
       /\ PublishRun(r, NewRun(1 + Cardinality({q \in Names : Runs[q].phase # "Unborn"})))
       /\ IF res = "OK" THEN job' = [job EXCEPT !.step = "track", !.todo = {r}] /\ UNCHANGED queued
          ELSE Return(TRUE)
  /\ owed' = (owed /\ Suite.needsRun)
  /\ UNCHANGED <<suiteFeed, wake, fired, repeated, env>>

\* The create is refused: by a fault, or by a quota once all names are used.
CreateRunFails ==
  /\ job.step = "create"
  /\ \/ faults < MaxFaults /\ Answer("Error")
     \/ (\A r \in Names : Runs[r].phase # "Unborn") /\ UNCHANGED faults
  /\ Return(TRUE)
  /\ UNCHANGED <<suiteFeed, runFeed, wake, history, env>>

TrackRun ==
  /\ job.step = "track"
  /\ \E r \in job.todo :
       PatchSuite([job.suite EXCEPT !.current = r], LAMBDA suite : At("done", suite, job.runs, {}))

FinishRun ==
  /\ job.step = "finish"
  /\ PatchSuite([job.suite EXCEPT !.phase = "Ready", !.current = None],
       LAMBDA suite : At("done", suite, job.runs, {}))

Controller ==
  \/ Reconcile \/ Done
  \/ \E r \in Names : CleanUpRun(r) \/ ReleaseRun(r)
  \/ RunsDeleted \/ HistoryEnforced \/ ReleaseSuite \/ EnsureFinalizer
  \/ ClearNextRun \/ DropSchedule \/ NoSchedule \/ Compact \/ RunsReleased
  \/ Focus \/ SetPending \/ SetReady \/ Annotate \/ SetNextRun \/ RejectSchedule
  \/ ResetTrigger \/ AnnotateRelease \/ WaitForNextRun \/ NextRunIsDue \/ NextRunMissed
  \/ NilSchedule
  \/ SetRunning \/ MissingRun \/ CreateRun \/ CreateRunFails \/ TrackRun \/ FinishRun

-----------------------------------------------------------------------------
(***************************************************************************)
(* The watches, the timer of the work queue and the clock.                 *)
(***************************************************************************)
SuiteEvent ==
  /\ ~Fresh(suiteFeed)
  /\ suiteFeed' = Tail(suiteFeed)
  /\ queued' = TRUE
  /\ UNCHANGED <<runFeed, wake, job, faults, history, env>>

\* Mutant: the runs are not watched.
RunEvent_Unwatched ==
  /\ ~Fresh(runFeed)
  /\ runFeed' = Tail(runFeed)
  /\ UNCHANGED <<suiteFeed, queued, wake, job, faults, history, env>>

RunEvent ==
  /\ ~Fresh(runFeed)
  /\ runFeed' = Tail(runFeed)
  /\ queued' = TRUE
  /\ UNCHANGED <<suiteFeed, wake, job, faults, history, env>>

WakeUp ==
  /\ wake # None /\ wake <= now
  /\ wake' = None
  /\ queued' = TRUE
  /\ UNCHANGED <<suiteFeed, runFeed, job, faults, history, env>>

Tick ==
  /\ now < MaxTime
  /\ now' = now + 1
  /\ UNCHANGED <<suiteFeed, runFeed, queued, wake, helm, job, faults, history, restarts, bounds>>

Restart ==
  /\ restarts < MaxRestarts
  /\ restarts' = restarts + 1
  /\ suiteFeed' = <<Suite>> /\ runFeed' = <<Runs>>
  /\ queued' = TRUE
  /\ wake' = None
  /\ job' = Idle
  /\ UNCHANGED <<now, helm, faults, history, bounds>>

-----------------------------------------------------------------------------
(***************************************************************************)
(* The cluster around the controller.                                      *)
(***************************************************************************)
Others == UNCHANGED <<queued, wake, now, helm, job, fired, repeated, faults, restarts>>

UserTriggers ==
  /\ triggers < MaxTriggers /\ Exists(Suite) /\ ~Suite.needsRun /\ ~Suite.del
  /\ triggers' = triggers + 1
  /\ suiteFeed' = Publish(suiteFeed, [Suite EXCEPT !.needsRun = TRUE])
  /\ owed' = TRUE
  /\ UNCHANGED <<runFeed, edits, deletions>> /\ Others

ScheduleEdited ==
  /\ edits < MaxEdits /\ Exists(Suite)
  /\ edits' = edits + 1
  /\ \E sched \in Schedules \ {Suite.sched} : suiteFeed' = Publish(suiteFeed, [Suite EXCEPT !.sched = sched])
  /\ UNCHANGED <<runFeed, owed, triggers, deletions>> /\ Others

SuiteDeleted ==
  /\ Exists(Suite) /\ ~Suite.del
  /\ suiteFeed' = Publish(suiteFeed, Reaped(Deleted(Suite)))
  /\ UNCHANGED <<runFeed, owed, bounds>> /\ Others

\* The run's own controller adds its finalizer, decides the run, and lets go
\* of it once it is deleted.
RunAdopted(r) ==
  /\ r \in Live(Runs) /\ RunFin \notin Runs[r].fins /\ ~IsFinal(Runs[r].phase)
  /\ PublishRun(r, [Runs[r] EXCEPT !.fins = @ \cup {RunFin}])
  /\ UNCHANGED <<suiteFeed, owed, bounds>> /\ Others

RunDecided(r, phase) ==
  /\ r \in Live(Runs) /\ ~IsFinal(Runs[r].phase)
  /\ PublishRun(r, [Runs[r] EXCEPT !.phase = phase])
  /\ UNCHANGED <<suiteFeed, owed, bounds>> /\ Others

RunLetGo(r) ==
  /\ Exists(Runs[r]) /\ Runs[r].del /\ RunFin \in Runs[r].fins
  /\ PublishRun(r, Reaped(WithFins(Runs[r], Runs[r].fins \ {RunFin})))
  /\ UNCHANGED <<suiteFeed, owed, bounds>> /\ Others

RunDeleted(r) ==
  /\ deletions < MaxDeletions /\ r \in Live(Runs)
  /\ deletions' = deletions + 1
  /\ PublishRun(r, Reaped(Deleted(Runs[r])))
  /\ UNCHANGED <<suiteFeed, owed, triggers, edits>> /\ Others

RunOrphaned(r) ==
  /\ r \in Live(Runs) /\ ~Exists(Suite)
  /\ PublishRun(r, Reaped(Deleted(Runs[r])))
  /\ UNCHANGED <<suiteFeed, owed, bounds>> /\ Others

\* A release is deployed; the watcher of releases may queue the suite or not
\* (see HelmWatcher).
ReleaseDeployed ==
  /\ HelmTrigger /\ helm < MaxReleases
  /\ helm' = helm + 1
  /\ queued' \in {queued, TRUE}
  /\ UNCHANGED <<suiteFeed, runFeed, wake, now, job, history, faults, restarts, bounds>>

Cluster ==
  \/ /\ Len(suiteFeed) <= MaxBehind
     /\ UserTriggers \/ ScheduleEdited \/ SuiteDeleted
  \/ /\ Len(runFeed) <= MaxBehind
     /\ \E r \in Names :
          \/ RunAdopted(r) \/ RunDecided(r, "Passed") \/ RunDecided(r, "Failed")
          \/ RunLetGo(r) \/ RunDeleted(r) \/ RunOrphaned(r)
  \/ ReleaseDeployed

-----------------------------------------------------------------------------
Init ==
  /\ \E sched \in Schedules : suiteFeed = <<NewSuite(sched)>>
  /\ runFeed = <<[r \in Names |-> NoRun]>>
  /\ queued = TRUE
  /\ wake = None
  /\ now = 0
  /\ helm = 0
  /\ job = Idle
  /\ owed = FALSE /\ fired = {} /\ repeated = FALSE
  /\ faults = 0 /\ restarts = 0 /\ triggers = 0 /\ edits = 0 /\ deletions = 0

Next ==
  \/ Controller
  \/ SuiteEvent \/ RunEvent \/ WakeUp \/ Tick \/ Restart
  \/ Cluster

Spec == Init /\ [][Next]_vars

\* The worker, the watches, the timer and the clock keep going, and the runs'
\* own controller decides every run and lets go of deleted ones.
Fairness ==
  /\ WF_vars(Controller)
  /\ WF_vars(SuiteEvent) /\ WF_vars(RunEvent) /\ WF_vars(WakeUp) /\ WF_vars(Tick)
  /\ \A r \in Names : /\ WF_vars(RunDecided(r, "Passed") \/ RunDecided(r, "Failed"))
                      /\ WF_vars(RunLetGo(r))

FairSpec == Spec /\ Fairness

-----------------------------------------------------------------------------
(***************************************************************************)
(* What the controller promises with caches of any age.                    *)
(***************************************************************************)
Suites ==
  [phase : {"", "Pending", "Ready", "Running", "Gone"}, current : Names \cup {None}, nextRun : Int,
   needsRun : BOOLEAN, sched : Schedules, annotated : Schedules \cup {0}, lastHelm : {None, 0},
   del : BOOLEAN, fins : SUBSET {SuiteFin}]
RunSets ==
  [Names -> [seq : Nat, phase : {"", "Passed", "Failed", "Unborn", "Gone"}, del : BOOLEAN,
             fins : SUBSET {SuiteFin, RunFin}]]

\* Every variable has the shape the code gives it, and a run that exists has a
\* place of its own in the order of creation.
TypeOK ==
  /\ suiteFeed \in Seq(Suites) /\ suiteFeed # <<>>
  /\ runFeed \in Seq(RunSets) /\ runFeed # <<>>
  /\ queued \in BOOLEAN
  /\ wake \in Int /\ now \in 0..MaxTime /\ helm \in 0..MaxReleases
  /\ Working => job.suite \in Suites /\ job.runs \in RunSets /\ job.todo \subseteq Names
  /\ \A r, q \in Listed(Runs) : Runs[r].seq = Runs[q].seq => r = q

Quiescent == ~Working /\ ~queued /\ Fresh(suiteFeed) /\ Fresh(runFeed)

(***************************************************************************)
(* When no work is left a suite that is not deleted is where it should be: *)
(* it has its finalizer; it is Running with a run that is not finished, or *)
(* Ready with no unfinished run, no trigger and no run beyond its history  *)
(* limit; and if runs are being deleted it has let go of one of them,      *)
(* whose end will bring it back to the others.                             *)
(***************************************************************************)
Converged ==
  Quiescent /\ Exists(Suite) /\ ~Suite.del =>
    /\ SuiteFin \in Suite.fins
    /\ Listed(Runs) # Live(Runs) =>
         \E r \in Listed(Runs) \ Live(Runs) : SuiteFin \notin Runs[r].fins
    /\ \/ Suite.phase = "Running" /\ Suite.current \in Unfinished(Runs)
       \/ /\ Suite.phase = "Ready"
          /\ Unfinished(Runs) = {}
          /\ ~Suite.needsRun
          /\ Cardinality(Live(Runs)) <= HistoryLimit

\* When no work is left a Ready suite with a schedule will not oversleep: it
\* has a next run on its current schedule, and the timer goes off by then.
ScheduleArmed ==
  Quiescent /\ Exists(Suite) /\ ~Suite.del /\ Suite.phase = "Ready" /\ Suite.sched \notin {0, BadSchedule} =>
    /\ Suite.annotated = Suite.sched
    /\ Suite.nextRun # None /\ Suite.nextRun % Suite.sched = 0
    /\ wake # None /\ wake <= Suite.nextRun

\* A deleted suite the controller has no more work for waits only for runs that
\* are being deleted and that it has let go of.
DeletionGoesOn ==
  Quiescent /\ Exists(Suite) /\ Suite.del =>
    /\ Listed(Runs) # {}
    /\ \A r \in Listed(Runs) : Runs[r].del /\ SuiteFin \notin Runs[r].fins

-----------------------------------------------------------------------------
(***************************************************************************)
(* What it promises when every reconcile starts with current caches and no *)
(* call fails (MaxLag = 0, MaxFaults = 0, MaxRestarts = 0).                *)
(***************************************************************************)

\* A suite has one run at a time.
OneRunAtATime == \A r, q \in Unfinished(Runs) : r = q

\* A reconcile that finds the next run missed has a schedule to ask for the next
\* one: the manager does not die of a nil schedule.
ScheduleKnown == job.step = "due" => job.when # 0

\* A user's trigger is not lost: with no work left, there was a run for it, or
\* the suite is Running and the trigger still set.
TriggerKept ==
  Quiescent /\ owed /\ Exists(Suite) /\ ~Suite.del => Suite.phase = "Running" /\ Suite.needsRun

\* A run that is not finished is not deleted to keep the history limit.
RunningRunKept ==
  [][\A r \in Unfinished(Runs) \ Live(Runs') : deletions' # deletions \/ ~Exists(Suite) \/ Suite.del]_vars

-----------------------------------------------------------------------------
(***************************************************************************)
(* Progress, under FairSpec.                                               *)
(***************************************************************************)

\* A user's trigger leads to a run, unless the suite is deleted.
TriggerServed == owed ~> (~owed \/ Suite.del \/ ~Exists(Suite))

\* A deleted suite disappears, after its runs.
DeletedSuiteGone == Suite.del ~> (Suite.phase = "Gone" /\ Listed(Runs) = {})

-----------------------------------------------------------------------------
(***************************************************************************)
(* Statements of the repository that the code does not keep.               *)
(***************************************************************************)

\* "If a current run was expected but no longer exists, restart reconcile loop"
\* (isRunning): a suite whose run is gone does not wait for it forever.
MissingRunForgotten == Suite.current # None /\ Runs[Suite.current].phase = "Gone" ~> Suite.phase # "Running" \/ Suite.del

\* "looking for deleted runs. If a deleted run is encountered, the finalizer is
\* removed" (Reconcile): with no work left no deleted run has the finalizer.
DeletedRunsReleased ==
  Quiescent /\ Exists(Suite) => \A r \in Listed(Runs) \ Live(Runs) : SuiteFin \notin Runs[r].fins

\* "Schedule in Cron format", "HelmRelease to watch for upgrades/install"
\* (testsuite_types.go): a scheduled time, or a release, triggers one run.
TriggeredOnce == ~repeated

\* "Unless a test run is completed, it MUST have the testrun-controller
\* finalizer" (testrun_controller.go): this controller does not take it away.
RunFinalizerKept ==
  [][\A r \in Names : ~IsFinal(Runs[r].phase) /\ RunFin \in Runs[r].fins /\ Working
       => RunFin \in Runs'[r].fins]_vars
=============================================================================

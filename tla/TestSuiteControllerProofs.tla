---------------------- MODULE TestSuiteControllerProofs ----------------------
(***************************************************************************)
(* Theorems about TestSuiteController, for every number of runs, faults,   *)
(* triggers, edits, deletions and releases.                                *)
(***************************************************************************)
EXTENDS TestSuiteController, KubeApiProofs, FiniteSetTheorems, WellFoundedInduction

SuitePhases == {"", "Pending", "Ready", "Running", "Gone"}
RunPhases   == {"", "Passed", "Failed", "Unborn", "Gone"}
SuiteRecs ==
  [phase : SuitePhases, current : Names \cup {None}, nextRun : Int, needsRun : BOOLEAN,
   sched : Schedules, annotated : Schedules \cup {0}, lastHelm : {None, 0}, del : BOOLEAN,
   fins : SUBSET {SuiteFin}]
RunRecs == [seq : Nat, phase : RunPhases, del : BOOLEAN, fins : SUBSET {SuiteFin, RunFin}]

\* The object has no phase yet.
Blank(obj) == obj.phase = ""

\* The shapes of TypeOK, with the sets of phases named.
LEMMA Shapes ==
  /\ Suites = SuiteRecs
  /\ RunSets = [Names -> RunRecs]
<1>1. Suites = SuiteRecs
  BY Zenon DEF Suites, SuiteRecs, SuitePhases
<1>2. RunSets = [Names -> RunRecs]
  BY Zenon DEF RunSets, RunRecs, RunPhases
<1> QED
  BY <1>1, <1>2

\* A suite that exists and is neither new nor pending is Ready or Running.
LEMMA Phases ==
  /\ {"Pending", "Ready", "Running", "Gone"} \subseteq SuitePhases
  /\ {"Passed", "Failed", "Unborn", "Gone"} \subseteq RunPhases
  /\ \A suite \in SuiteRecs :
       Exists(suite) /\ ~Blank(suite) /\ suite.phase # "Pending" => suite.phase \in {"Ready", "Running"}
<1>1. /\ {"Pending", "Ready", "Running", "Gone"} \subseteq SuitePhases
      /\ {"Passed", "Failed", "Unborn", "Gone"} \subseteq RunPhases
  BY Zenon DEF SuitePhases, RunPhases
<1>2. ASSUME NEW suite \in SuiteRecs PROVE suite.phase \in SuitePhases
  BY DEF SuiteRecs
<1>3. \A phase \in SuitePhases : phase \in {"", "Pending", "Ready", "Running", "Gone"}
  BY Zenon DEF SuitePhases
<1>4. ASSUME NEW suite \in SuiteRecs, Exists(suite), ~Blank(suite), suite.phase # "Pending"
      PROVE  suite.phase \in {"Ready", "Running"}
  BY <1>2, <1>3, <1>4, Zenon DEF Blank, Exists
<1> QED
  BY <1>1, <1>4

\* A suite is created without a run, a next run or a finalizer.
LEMMA NewSuiteShape ==
  ASSUME NEW sched \in Schedules
  PROVE  NewSuite(sched) \in SuiteRecs /\ ~NewSuite(sched).del
<1>1. "" \in SuitePhases
  BY Zenon DEF SuitePhases
<1>2. None \in Int
  BY DEF None
<1>3. NewSuite(sched) \in SuiteRecs
  BY <1>1, <1>2, Zenon DEF NewSuite, SuiteRecs
<1>4. NewSuite(sched).del = FALSE
  BY Zenon DEF NewSuite
<1> QED
  BY <1>3, <1>4

\* A run is created unfinished and held by this controller.
LEMMA NewRunShape ==
  ASSUME NEW seq \in Nat
  PROVE  /\ NewRun(seq) \in RunRecs /\ NoRun \in RunRecs
         /\ Exists(NewRun(seq)) /\ ~Exists(NoRun) /\ ~NewRun(seq).del
<1>1. "" \in RunPhases /\ "Unborn" \in RunPhases /\ "" \notin {"Unborn", "Gone"}
  BY Zenon DEF RunPhases
<1>2. NewRun(seq).phase = "" /\ NewRun(seq).del = FALSE
  BY Zenon DEF NewRun
<1>3. NewRun(seq) \in RunRecs
  BY <1>1, Zenon DEF NewRun, RunRecs
<1>4. NoRun \in RunRecs /\ NoRun.phase = "Unborn"
  BY <1>1 DEF NoRun, RunRecs
<1> QED
  BY <1>1, <1>2, <1>3, <1>4, Zenon DEF Exists

-----------------------------------------------------------------------------
(***************************************************************************)
(* What the API does to suites and runs.                                   *)
(***************************************************************************)
LEMMA SuiteTypes ==
  ASSUME NEW suite \in SuiteRecs
  PROVE  /\ Deleted(suite) \in SuiteRecs
         /\ Reaped(suite) \in SuiteRecs
         /\ \A fins \in SUBSET {SuiteFin} : WithFins(suite, fins) \in SuiteRecs
  BY Phases DEF Deleted, Reaped, WithFins, SuiteRecs

\* The changes the controller makes to its copy of the suite, and users to the
\* stored one.
LEMMA SuiteChanges ==
  ASSUME NEW suite \in SuiteRecs
  PROVE  /\ \A x \in {"Pending", "Ready", "Running"} : [suite EXCEPT !.phase = x] \in SuiteRecs
         /\ \A x \in {"Pending", "Ready", "Running"}, r \in Names \cup {None} :
              [suite EXCEPT !.phase = x, !.current = r] \in SuiteRecs
         /\ \A r \in Names \cup {None} : [suite EXCEPT !.current = r] \in SuiteRecs
         /\ \A t \in Int : [suite EXCEPT !.nextRun = t] \in SuiteRecs
         /\ \A x \in BOOLEAN : [suite EXCEPT !.needsRun = x] \in SuiteRecs
         /\ \A x \in Schedules : [suite EXCEPT !.sched = x] \in SuiteRecs
         /\ \A x \in Schedules \cup {0} : [suite EXCEPT !.annotated = x] \in SuiteRecs
         /\ [suite EXCEPT !.lastHelm = 0] \in SuiteRecs
  BY Phases DEF SuiteRecs

\* The server's and the runs' controller's changes to a run leave it a run.
LEMMA RunTypes ==
  ASSUME NEW run \in RunRecs
  PROVE  /\ Deleted(run) \in RunRecs
         /\ Reaped(run) \in RunRecs
         /\ \A fins \in SUBSET {SuiteFin, RunFin} :
              WithFins(run, fins) \in RunRecs /\ [run EXCEPT !.fins = fins] \in RunRecs
         /\ \A phase \in {"Passed", "Failed"} : [run EXCEPT !.phase = phase] \in RunRecs
  BY Phases DEF Deleted, Reaped, WithFins, RunRecs

\* A merge patch takes from the copy what was changed in it, and the rest from
\* the stored suite.
Taken(x, copy, new) == IF new = copy THEN x ELSE new

\* The fields of a suite after a merge patch, one by one.
LEMMA MergedFields ==
  ASSUME NEW suite \in SuiteRecs, NEW copy \in SuiteRecs, NEW new \in SuiteRecs, Exists(suite)
  PROVE  LET merged == Merged(suite, copy, new)
         IN  /\ merged \in SuiteRecs
             /\ merged.phase = Taken(suite.phase, copy.phase, new.phase)
             /\ merged.current = Taken(suite.current, copy.current, new.current)
             /\ merged.nextRun = Taken(suite.nextRun, copy.nextRun, new.nextRun)
             /\ merged.needsRun = Taken(suite.needsRun, copy.needsRun, new.needsRun)
             /\ merged.sched = Taken(suite.sched, copy.sched, new.sched)
             /\ merged.annotated = Taken(suite.annotated, copy.annotated, new.annotated)
             /\ merged.lastHelm = Taken(suite.lastHelm, copy.lastHelm, new.lastHelm)
             /\ merged.del = Taken(suite.del, copy.del, new.del)
             /\ merged.fins = Taken(suite.fins, copy.fins, new.fins)
<1>1. DOMAIN suite = {"phase", "current", "nextRun", "needsRun", "sched", "annotated", "lastHelm", "del", "fins"}
  BY DEF SuiteRecs
<1>2. Merged(suite, copy, new) = [f \in DOMAIN suite |-> Taken(suite[f], copy[f], new[f])]
  BY DEF Merged, Taken
<1>3. Merged(suite, copy, new) =
        [phase |-> Taken(suite.phase, copy.phase, new.phase),
         current |-> Taken(suite.current, copy.current, new.current),
         nextRun |-> Taken(suite.nextRun, copy.nextRun, new.nextRun),
         needsRun |-> Taken(suite.needsRun, copy.needsRun, new.needsRun),
         sched |-> Taken(suite.sched, copy.sched, new.sched),
         annotated |-> Taken(suite.annotated, copy.annotated, new.annotated),
         lastHelm |-> Taken(suite.lastHelm, copy.lastHelm, new.lastHelm),
         del |-> Taken(suite.del, copy.del, new.del),
         fins |-> Taken(suite.fins, copy.fins, new.fins)]
  BY <1>1, <1>2
<1>4. Merged(suite, copy, new) \in SuiteRecs
  BY <1>3 DEF SuiteRecs, Taken
<1> QED
  BY <1>3, <1>4

\* Only calls that may fail do.
LEMMA AnswersAre ==
  ASSUME NEW outs, NEW out \in Answers(outs)
  PROVE  out \in outs /\ (out.res = "Error" => faults < MaxFaults)
  BY DEF Answers

\* A patch of the suite is applied to what the server has, or it is not; one that
\* was made from an old copy is refused if the suite has changed since.
LEMMA SuiteAnswers ==
  ASSUME NEW new \in SuiteRecs, job.base \in SuiteRecs, Suite \in SuiteRecs, NEW out \in PatchAnswers(new)
  PROVE  /\ out.obj \in SuiteRecs
         /\ out.obj \in {Suite, Merged(Suite, job.base, new)}
         /\ out.res \in {"OK", "Error", "NotFound", "Conflict"}
         /\ out.res = "OK" => Exists(Suite) /\ out.obj = Merged(Suite, job.base, new)
         /\ out.res = "NotFound" => ~Exists(Suite)
         /\ out.res = "Conflict" => job.base # job.suite /\ Suite # job.suite /\ out.obj = Suite
         /\ out.res = "Error" => faults < MaxFaults
         /\ ~Exists(Suite) => out.obj = Suite
<1> DEFINE merged == Merged(Suite, job.base, new)
<1>1. merged \in SuiteRecs /\ (~Exists(Suite) => merged = Suite)
  BY MergedFields DEF Merged
<1>2. /\ \/ out = [obj |-> Suite, res |-> "Conflict"] /\ job.base # job.suite /\ Suite # job.suite
         \/ out \in Patch(Suite, merged)
      /\ out.res = "Error" => faults < MaxFaults
  BY AnswersAre DEF PatchAnswers
<1> HIDE DEF merged
<1>3. CASE out = [obj |-> Suite, res |-> "Conflict"] /\ job.base # job.suite /\ Suite # job.suite
  BY <1>3
<1>4. CASE out \in Patch(Suite, merged)
  BY <1>1, <1>2, <1>4, PatchOutcomes DEF merged
<1> QED
  BY <1>2, <1>3, <1>4

\* cleanUp of a suite or a run: deleted, then released by this controller.
LEMMA CleanUpOutcomes ==
  ASSUME NEW copy, NEW obj, NEW out \in cleanUp(copy, obj, SuiteFin, "Resource")
  PROVE  LET deleted == IF copy.del THEN obj ELSE Reaped(Deleted(obj))
         IN  /\ out.res \in {"OK", "Error", "NotFound", "Invalid"}
             /\ out.obj \in {obj, deleted, Reaped(WithFins(deleted, copy.fins \ {SuiteFin}))}
             /\ out.res = "OK" /\ SuiteFin \in copy.fins /\ (copy.del \/ Exists(obj)) =>
                  Exists(deleted) /\ out.obj = Reaped(WithFins(deleted, copy.fins \ {SuiteFin}))
             /\ out.res = "OK" /\ ~(SuiteFin \in copy.fins /\ (copy.del \/ Exists(obj))) => out.obj = deleted
             /\ copy.del /\ SuiteFin \notin copy.fins => out.res = "OK"
<1> DEFINE deleted == IF copy.del THEN obj ELSE Reaped(Deleted(obj))
<1>1. \/ ~copy.del /\ out \in {[obj |-> x, res |-> "Error"] : x \in {obj, deleted}}
      \/ /\ SuiteFin \in copy.fins /\ (copy.del \/ Exists(obj))
         /\ out \in PatchFins(deleted, copy.fins \ {SuiteFin}, "Resource")
      \/ /\ ~(SuiteFin \in copy.fins /\ (copy.del \/ Exists(obj)))
         /\ out = [obj |-> deleted, res |-> "OK"]
  BY DEF cleanUp, Settled
<1> HIDE DEF deleted
<1>2. CASE ~copy.del /\ out \in {[obj |-> x, res |-> "Error"] : x \in {obj, deleted}}
  BY <1>2 DEF deleted
<1>3. CASE /\ SuiteFin \in copy.fins /\ (copy.del \/ Exists(obj))
           /\ out \in PatchFins(deleted, copy.fins \ {SuiteFin}, "Resource")
  BY <1>3, FinOutcomes DEF deleted
<1>4. CASE /\ ~(SuiteFin \in copy.fins /\ (copy.del \/ Exists(obj)))
           /\ out = [obj |-> deleted, res |-> "OK"]
  BY <1>4 DEF deleted
<1> QED
  BY <1>1, <1>2, <1>3, <1>4

-----------------------------------------------------------------------------
(***************************************************************************)
(* Where a reconcile goes next.                                            *)
(***************************************************************************)
RunLists == [Names -> RunRecs]

Quiet == {"annotate", "badSchedule", "setNext", "manual", "helm", "due"}
Late  == {"focus", "pending", "ready", "history", "create", "missing", "finish", "done"} \cup Quiet
Begun == {"finalizer", "clearNext", "dropSchedule", "noSchedule", "compact"}
Steps == Late \cup Begun \cup {"delete", "release", "releaseRuns", "trigger", "track"}

Causes == {<<>>} \cup ({"Manual", "Helm", "Scheduled"} \X Int)
Jobs == [step : Steps, suite : SuiteRecs, runs : RunLists, todo : SUBSET Names, err : BOOLEAN,
         base : SuiteRecs, when : Schedules \cup {0}, cause : Causes]

\* A reconcile set to go on with a suite and its runs.
Proceeds(j, suite, runs) ==
  /\ j \in Jobs /\ j.suite = suite /\ j.base = suite /\ j.runs = runs /\ ~j.err
  /\ j.step \in Late \cup Begun
  /\ j.step = "setNext" => j.when # 0
  /\ j.step = "annotate" => suite.sched # 0

\* Nothing is left to do for the suite.
AtRest(suite, runs) ==
  \/ suite.phase = "Running" /\ suite.current \in Unfinished(runs)
  \/ suite.phase = "Ready" /\ Unfinished(runs) = {} /\ ~suite.needsRun /\ Old(runs) = {}

\* The step is the right one for the suite and its runs.
Placed(j, suite, runs) ==
  /\ j.step \in Late
  /\ j.step = "focus" => suite.phase # "Running"
  /\ j.step \in {"pending", "ready", "history"} \cup Quiet => Unfinished(runs) = {} /\ suite.phase # "Running"
  /\ j.step \in {"history"} \cup Quiet => suite.phase = "Ready"
  /\ j.step = "history" => j.todo = Old(runs)
  /\ j.step \in Quiet => Old(runs) = {}
  /\ j.step = "due" => ~suite.needsRun
  /\ j.step = "done" => AtRest(suite, runs)
  /\ j.step = "create" => suite.phase = "Running" /\ suite.current = None
  /\ j.step = "finish" => /\ suite.phase = "Running" /\ suite.current \in Live(runs)
                          /\ IsFinal(runs[suite.current].phase)

\* What At makes of its arguments.
LEMMA AtShape ==
  ASSUME NEW step, NEW suite, NEW runs, NEW todo
  PROVE  /\ At(step, suite, runs, todo).step = step
         /\ At(step, suite, runs, todo).suite = suite /\ At(step, suite, runs, todo).base = suite
         /\ At(step, suite, runs, todo).runs = runs /\ At(step, suite, runs, todo).todo = todo
         /\ ~At(step, suite, runs, todo).err
         /\ step \in Steps /\ suite \in SuiteRecs /\ runs \in RunLists /\ todo \in SUBSET Names =>
              At(step, suite, runs, todo) \in Jobs
<1>1. <<>> \in Causes
  BY DEF Causes
<1> QED
  BY <1>1 DEF At, Jobs

\* A reconcile placed at a step with its copies goes on from there.
LEMMA AtProceeds ==
  ASSUME NEW step \in Late \cup Begun, NEW suite \in SuiteRecs, NEW runs \in RunLists, NEW todo \in SUBSET Names,
         step # "setNext", step = "annotate" => suite.sched # 0
  PROVE  Proceeds(At(step, suite, runs, todo), suite, runs)
<1>1. step \in Steps
  BY DEF Steps
<1> QED
  BY <1>1, AtShape DEF Proceeds

\* The lists of runs the code goes through are lists of runs.
LEMMA ListedTypes ==
  ASSUME NEW runs
  PROVE  /\ Listed(runs) \in SUBSET Names /\ Live(runs) \in SUBSET Listed(runs)
         /\ Unfinished(runs) \in SUBSET Live(runs) /\ Old(runs) \in SUBSET Live(runs)
  BY DEF Listed, Live, Unfinished, Old

\* With a suite that is not running a reconcile looks for triggers last: the
\* user's first, then the release, then the schedule.
LEMMA TriggeredIs ==
  ASSUME NEW suite \in SuiteRecs, NEW runs \in RunLists, NEW when \in Schedules \cup {0}
  PROVE  /\ Proceeds(Triggered(suite, runs), suite, runs)
         /\ Triggered(suite, runs).step \in {"manual", "helm", "due", "done"}
         /\ suite.needsRun \/ Triggered(suite, runs).step # "manual"
         /\ ~suite.needsRun \/ Triggered(suite, runs).step = "manual"
         /\ Proceeds([Triggered(suite, runs) EXCEPT !.when = when], suite, runs)
         /\ [Triggered(suite, runs) EXCEPT !.when = when].step = Triggered(suite, runs).step
<1>1. PICK step \in {"manual", "helm", "due", "done"} :
        /\ Triggered(suite, runs) = At(step, suite, runs, {})
        /\ step = "manual" <=> suite.needsRun
  BY DEF Triggered, SuiteRecs
<1>2. step \in Late \cup Begun
  BY DEF Late, Quiet
<1> DEFINE j == At(step, suite, runs, {})
<1>3. Proceeds(j, suite, runs) /\ j.step = step
  BY <1>1, <1>2, AtProceeds, AtShape
<1> HIDE DEF j
<1>4. /\ Proceeds([j EXCEPT !.when = when], suite, runs)
      /\ [j EXCEPT !.when = when].step = j.step
  <2>1. step # "setNext" /\ step # "annotate"
    BY <1>1
  <2> QED
    BY <1>3, <2>1 DEF Proceeds, Jobs
<1> QED
  BY <1>1, <1>3, <1>4 DEF j

\* After the schedule is parsed: reject it, set the next run, or look for
\* triggers.
LEMMA ParsedIs ==
  ASSUME NEW suite \in SuiteRecs, NEW runs \in RunLists, NEW when \in Schedules, when # 0
  PROVE  /\ Proceeds(Parsed(suite, runs, when), suite, runs)
         /\ Parsed(suite, runs, when).step \in {"badSchedule", "setNext", "manual", "helm", "due", "done"}
         /\ Parsed(suite, runs, when).step \in {"due", "done"} => ~suite.needsRun
<1> DEFINE At0(step) == At(step, suite, runs, {})
           On(step) == [At(step, suite, runs, {}) EXCEPT !.when = when]
<1>1. \A step \in {"badSchedule", "setNext"} : Proceeds(On(step), suite, runs) /\ On(step).step = step
  <2> SUFFICES ASSUME NEW step \in {"badSchedule", "setNext"}
               PROVE  Proceeds(On(step), suite, runs) /\ On(step).step = step
    OBVIOUS
  <2>1. step \in Late \cup Begun /\ step \in Steps
    BY DEF Late, Quiet, Steps
  <2>2. /\ At0(step) \in Jobs /\ At0(step).suite = suite /\ At0(step).base = suite /\ At0(step).runs = runs
        /\ ~At0(step).err /\ At0(step).step = step
    BY <2>1, AtShape
  <2> HIDE DEF At0
  <2>3. On(step) = [At0(step) EXCEPT !.when = when]
    BY DEF At0
  <2> HIDE DEF On
  <2> QED
    BY <2>1, <2>2, <2>3 DEF Proceeds, Jobs
<1>2. \/ Parsed(suite, runs, when) \in {On("badSchedule"), On("setNext")}
      \/ Parsed(suite, runs, when) = [Triggered(suite, runs) EXCEPT !.when = when]
  BY DEF Parsed
<1> HIDE DEF On
<1>3. CASE Parsed(suite, runs, when) \in {On("badSchedule"), On("setNext")}
  BY <1>1, <1>3
<1>4. CASE Parsed(suite, runs, when) = [Triggered(suite, runs) EXCEPT !.when = when]
  BY <1>4, TriggeredIs
<1> QED
  BY <1>2, <1>3, <1>4

\* The part of notRunning that comes after the history limit.
LEMMA ScheduledIs ==
  ASSUME NEW suite \in SuiteRecs, NEW runs \in RunLists
  PROVE  /\ Proceeds(Scheduled(suite, runs), suite, runs)
         /\ Scheduled(suite, runs).step \in Quiet \cup {"done"}
         /\ Scheduled(suite, runs).step \in {"due", "done"} => ~suite.needsRun
<1>1. suite.sched \in Schedules
  BY DEF SuiteRecs
<1>2. CASE suite.sched = 0
  <2>1. Scheduled(suite, runs) = Triggered(suite, runs)
    BY <1>2 DEF Scheduled
  <2> QED
    BY <2>1, TriggeredIs DEF Quiet
<1>3. CASE suite.sched # 0 /\ suite.annotated # suite.sched
  <2>1. Scheduled(suite, runs) = At("annotate", suite, runs, {})
    BY <1>3 DEF Scheduled
  <2>2. "annotate" \in Late \cup Begun
    BY DEF Late, Quiet
  <2> QED
    BY <1>3, <2>1, <2>2, AtProceeds, AtShape DEF Quiet
<1>4. CASE suite.sched # 0 /\ suite.annotated = suite.sched
  <2>1. Scheduled(suite, runs) = Parsed(suite, runs, suite.sched)
    BY <1>4 DEF Scheduled
  <2> QED
    BY <1>1, <1>4, <2>1, ParsedIs DEF Quiet
<1> QED
  BY <1>2, <1>3, <1>4

\* A reconcile of a suite whose runs are all finished, once the suite is Ready
\* and within its limit.
LEMMA ReadyPlaced ==
  ASSUME NEW suite, NEW runs, NEW j, suite.phase = "Ready", Unfinished(runs) = {}, Old(runs) = {},
         j.step \in Quiet \cup {"done"}, j.step \in {"due", "done"} => ~suite.needsRun
  PROVE  Placed(j, suite, runs)
  BY DEF Placed, AtRest, Late, Quiet

\* It is the right one for a Ready suite whose runs are finished and within the
\* limit.
LEMMA ScheduledPlaced ==
  ASSUME NEW suite \in SuiteRecs, NEW runs \in RunLists,
         suite.phase = "Ready", Unfinished(runs) = {}, Old(runs) = {}
  PROVE  Placed(Scheduled(suite, runs), suite, runs)
  BY ScheduledIs, ReadyPlaced

\* Where a reconcile of a suite that is not Running goes.
LEMMA notRunningIs ==
  ASSUME NEW suite \in SuiteRecs, NEW runs \in RunLists
  PROVE  /\ Proceeds(notRunning(suite, runs), suite, runs)
         /\ /\ Unfinished(runs) = {} /\ suite.phase \in {"Pending", "Ready"}
            => Placed(notRunning(suite, runs), suite, runs)
<1>1. {"ready", "history"} \subseteq Late /\ {} \in SUBSET Names /\ Old(runs) \in SUBSET Names
  BY ListedTypes DEF Late
<1>2. CASE suite.phase = "Pending"
  <2>1. notRunning(suite, runs) = At("ready", suite, runs, {})
    BY <1>2 DEF notRunning
  <2> QED
    BY <1>1, <1>2, <2>1, AtProceeds, AtShape DEF Placed, Quiet
<1>3. CASE suite.phase # "Pending" /\ Old(runs) # {}
  <2>1. notRunning(suite, runs) = At("history", suite, runs, Old(runs))
    BY <1>3 DEF notRunning
  <2>2. Proceeds(At("history", suite, runs, Old(runs)), suite, runs)
    BY <1>1, AtProceeds
  <2> QED
    BY <1>1, <1>3, <2>1, <2>2, AtShape DEF Placed, Quiet
<1>4. CASE suite.phase # "Pending" /\ Old(runs) = {}
  <2>1. notRunning(suite, runs) = Scheduled(suite, runs)
    BY <1>4 DEF notRunning
  <2> QED
    BY <1>4, <2>1, ScheduledIs, ScheduledPlaced
<1> QED
  BY <1>2, <1>3, <1>4

\* Where a reconcile of a Running suite goes.
LEMMA isRunningIs ==
  ASSUME NEW suite \in SuiteRecs, NEW runs \in RunLists
  PROVE  /\ Proceeds(isRunning(suite, runs), suite, runs)
         /\ suite.phase = "Running" => Placed(isRunning(suite, runs), suite, runs)
<1>1. PICK step \in {"create", "missing", "finish", "done"} :
        /\ isRunning(suite, runs) = At(step, suite, runs, {})
        /\ step = "create" => suite.current = None
        /\ step \in {"finish", "done"} => suite.current \in Live(runs)
        /\ step = "finish" => IsFinal(runs[suite.current].phase)
        /\ step = "done" => ~IsFinal(runs[suite.current].phase)
  BY DEF isRunning
<1>2. step \in Late /\ {} \in SUBSET Names
  BY DEF Late
<1>3. Proceeds(At(step, suite, runs, {}), suite, runs)
  BY <1>1, <1>2, AtProceeds
<1> QED
  BY <1>1, <1>2, <1>3, AtShape DEF Placed, AtRest, Quiet, Unfinished

\* Where it goes by the phase of the suite.
LEMMA EnsurePhaseIs ==
  ASSUME NEW suite \in SuiteRecs, NEW runs \in RunLists
  PROVE  /\ Proceeds(EnsurePhase(suite, runs), suite, runs)
         /\ EnsurePhase(suite, runs).step \in Late
         /\ Exists(suite) => Placed(EnsurePhase(suite, runs), suite, runs)
<1>1. {"focus", "pending"} \subseteq Late /\ {} \in SUBSET Names /\ Unfinished(runs) \in SUBSET Names
  BY ListedTypes DEF Late
<1>2. CASE suite.phase = "Running"
  <2>1. EnsurePhase(suite, runs) = isRunning(suite, runs)
    BY <1>2 DEF EnsurePhase
  <2> QED
    BY <1>2, <2>1, isRunningIs DEF Placed
<1>3. CASE suite.phase # "Running" /\ Unfinished(runs) # {}
  <2>1. EnsurePhase(suite, runs) = At("focus", suite, runs, Unfinished(runs))
    BY <1>3 DEF EnsurePhase
  <2>2. Proceeds(At("focus", suite, runs, Unfinished(runs)), suite, runs)
    BY <1>1, AtProceeds
  <2> QED
    BY <1>1, <1>3, <2>1, <2>2, AtShape DEF Placed, Quiet
<1>4. CASE suite.phase # "Running" /\ Unfinished(runs) = {} /\ Blank(suite)
  <2>1. EnsurePhase(suite, runs) = At("pending", suite, runs, {})
    BY <1>4, Zenon DEF EnsurePhase, Blank
  <2>2. Proceeds(At("pending", suite, runs, {}), suite, runs)
    BY <1>1, AtProceeds
  <2> QED
    BY <1>1, <1>4, <2>1, <2>2, AtShape DEF Placed, Quiet
<1>5. CASE suite.phase # "Running" /\ Unfinished(runs) = {} /\ ~Blank(suite)
  <2>1. EnsurePhase(suite, runs) = notRunning(suite, runs)
    BY <1>5, Zenon DEF EnsurePhase, Blank
  <2>2. Exists(suite) => suite.phase \in {"Pending", "Ready"}
    BY <1>5, Phases
  <2>3. notRunning(suite, runs).step \in Late
    <3>1. \/ notRunning(suite, runs) = At("ready", suite, runs, {})
          \/ notRunning(suite, runs) = At("history", suite, runs, Old(runs))
          \/ notRunning(suite, runs) = Scheduled(suite, runs)
      BY DEF notRunning
    <3> QED
      BY <3>1, AtShape, ScheduledIs DEF Late
  <2> QED
    BY <1>5, <2>1, <2>2, <2>3, notRunningIs
<1> QED
  BY <1>2, <1>3, <1>4, <1>5

\* Before that it releases deleted runs.
LEMMA AfterScheduleIs ==
  ASSUME NEW suite \in SuiteRecs, NEW runs \in RunLists
  PROVE  /\ Proceeds(AfterSchedule(suite, runs), suite, runs)
         /\ \/ Listed(runs) # Live(runs) /\ AfterSchedule(suite, runs).step = "compact"
            \/ /\ Listed(runs) = Live(runs) /\ AfterSchedule(suite, runs).step \in Late
               /\ Exists(suite) => Placed(AfterSchedule(suite, runs), suite, runs)
<1>1. "compact" \in Late \cup Begun /\ {} \in SUBSET Names
  BY DEF Begun
<1>2. CASE Listed(runs) # Live(runs)
  <2>1. AfterSchedule(suite, runs) = At("compact", suite, runs, {})
    BY <1>2 DEF AfterSchedule
  <2>2. Proceeds(At("compact", suite, runs, {}), suite, runs)
    BY <1>1, AtProceeds
  <2> QED
    BY <1>2, <2>1, <2>2, AtShape
<1>3. CASE Listed(runs) = Live(runs)
  <2>1. AfterSchedule(suite, runs) = EnsurePhase(suite, runs)
    BY <1>3 DEF AfterSchedule
  <2> QED
    BY <1>3, <2>1, EnsurePhaseIs
<1> QED
  BY <1>2, <1>3

\* And before that it brings the next run in line with the schedule.
LEMMA AfterFinalizerIs ==
  ASSUME NEW suite \in SuiteRecs, NEW runs \in RunLists
  PROVE  /\ Proceeds(AfterFinalizer(suite, runs), suite, runs)
         /\ \/ AfterFinalizer(suite, runs).step \in {"clearNext", "dropSchedule", "noSchedule"}
            \/ Listed(runs) # Live(runs) /\ AfterFinalizer(suite, runs).step = "compact"
            \/ /\ Listed(runs) = Live(runs) /\ AfterFinalizer(suite, runs).step \in Late
               /\ Exists(suite) => Placed(AfterFinalizer(suite, runs), suite, runs)
<1>1. {} \in SUBSET Names /\ {"clearNext", "dropSchedule", "noSchedule"} \subseteq Late \cup Begun
  BY DEF Begun
<1>2. CASE \E step \in {"clearNext", "dropSchedule", "noSchedule"} :
             AfterFinalizer(suite, runs) = At(step, suite, runs, {})
  <2>1. PICK step \in {"clearNext", "dropSchedule", "noSchedule"} :
          AfterFinalizer(suite, runs) = At(step, suite, runs, {})
    BY <1>2
  <2>2. Proceeds(At(step, suite, runs, {}), suite, runs)
    BY <1>1, AtProceeds
  <2> QED
    BY <2>1, <2>2, AtShape
<1>3. CASE AfterFinalizer(suite, runs) = AfterSchedule(suite, runs)
  BY <1>3, AfterScheduleIs
<1> QED
  BY <1>2, <1>3 DEF AfterFinalizer

-----------------------------------------------------------------------------
(***************************************************************************)
(* Type correctness.  A reconcile in progress is one that Goes on; the     *)
(* place of a run in the order of creation is its own because a new run    *)
(* gets a place after those of all the runs there have ever been.          *)
(***************************************************************************)
Goes(j) ==
  /\ j \in Jobs
  /\ j.step = "setNext" => j.when # 0
  /\ j.step = "annotate" => j.suite.sched # 0

Shape ==
  /\ suiteFeed \in Seq(SuiteRecs) /\ suiteFeed # <<>>
  /\ runFeed \in Seq(RunLists) /\ runFeed # <<>>
  /\ queued \in BOOLEAN
  /\ wake \in Int /\ now \in 0..MaxTime /\ helm \in 0..MaxReleases
  /\ job = Idle \/ Goes(job)
  /\ faults \in Nat

\* The runs that were ever created.
Born(runs) == {q \in Names : runs[q].phase # "Unborn"}

Ordered ==
  /\ \A r \in Born(Runs) : Runs[r].seq \in 1..Cardinality(Born(Runs))
  /\ \A r, q \in Born(Runs) : Runs[r].seq = Runs[q].seq => r = q

\* The constants are numbers where the actions compare them.
LEMMA Bounds ==
  /\ MaxTime \in Nat /\ MaxReleases \in Nat /\ MaxLag \in Nat /\ MaxFaults \in Nat /\ MaxRestarts \in Nat
  /\ MaxEdits \in Nat /\ HistoryLimit \in Nat /\ Grace \in Nat /\ BadSchedule \in Nat \ {0}
  /\ Schedules \subseteq Nat /\ IsFiniteSet(Names) /\ None \in Int /\ None \notin Names /\ None \notin Nat
  BY ConstantsAssumption DEF None

\* What the shape of the state says of the stored and the cached objects.
LEMMA ShapeFacts ==
  ASSUME Shape
  PROVE  /\ Suite \in SuiteRecs /\ Cached(suiteFeed) \in SuiteRecs
         /\ Runs \in RunLists /\ Cached(runFeed) \in RunLists
         /\ \A r \in Names : Runs[r] \in RunRecs
         /\ Working => Goes(job)
         /\ Fresh(suiteFeed) => Cached(suiteFeed) = Suite
         /\ Fresh(runFeed) => Cached(runFeed) = Runs
<1>1. /\ Suite \in SuiteRecs /\ Cached(suiteFeed) \in SuiteRecs
      /\ Runs \in RunLists /\ Cached(runFeed) \in RunLists
  BY FeedStates DEF Shape, Suite, Runs
<1>2. \A r \in Names : Runs[r] \in RunRecs
  BY <1>1 DEF RunLists
<1>3. Working => Goes(job)
  BY DEF Shape, Working, Idle
<1>4. /\ Fresh(suiteFeed) => Cached(suiteFeed) = Suite
      /\ Fresh(runFeed) => Cached(runFeed) = Runs
  BY FreshStates DEF Shape, Suite, Runs
<1> QED
  BY <1>1, <1>2, <1>3, <1>4

\* What a reconcile in progress holds.
LEMMA JobFacts ==
  ASSUME NEW j, Goes(j)
  PROVE  /\ j.step \in Steps /\ j.suite \in SuiteRecs /\ j.base \in SuiteRecs /\ j.runs \in RunLists
         /\ j.todo \subseteq Names /\ j.err \in BOOLEAN /\ j.when \in Schedules \cup {0} /\ j.step # "idle"
         /\ j # Idle
         /\ \A r \in Names : j.runs[r] \in RunRecs
<1>1. /\ j.step \in Steps /\ j.suite \in SuiteRecs /\ j.base \in SuiteRecs /\ j.runs \in RunLists
      /\ j.todo \subseteq Names /\ j.err \in BOOLEAN /\ j.when \in Schedules \cup {0}
  BY DEF Goes, Jobs
<1>2. "idle" \notin Steps
  BY DEF Steps, Late, Quiet, Begun
<1>3. \A r \in Names : j.runs[r] \in RunRecs
  BY <1>1 DEF RunLists
<1> QED
  BY <1>1, <1>2, <1>3 DEF Idle

\* A step is only taken in a reconcile.
LEMMA StepWorks ==
  ASSUME Shape, job.step # "idle"
  PROVE  Working /\ Goes(job)
  BY ShapeFacts DEF Working

\* A write of the suite reaches the feed, and leaves the cache current only if
\* it changed nothing.
LEMMA SuiteWritten ==
  ASSUME Shape, NEW x \in SuiteRecs, suiteFeed' = Publish(suiteFeed, x)
  PROVE  /\ suiteFeed' \in Seq(SuiteRecs) /\ suiteFeed' # <<>> /\ Suite' = x
         /\ Fresh(suiteFeed') => Fresh(suiteFeed) /\ x = Suite /\ suiteFeed' = suiteFeed
  BY PublishStates, PublishFresh DEF Shape, Suite

\* Likewise for a run.
LEMMA RunWritten ==
  ASSUME Shape, NEW r \in Names, NEW run \in RunRecs, PublishRun(r, run)
  PROVE  /\ runFeed' \in Seq(RunLists) /\ runFeed' # <<>> /\ Runs' = [Runs EXCEPT ![r] = run]
         /\ Fresh(runFeed') => Fresh(runFeed) /\ run = Runs[r] /\ runFeed' = runFeed
<1> DEFINE new == [Runs EXCEPT ![r] = run]
<1>1. Runs \in RunLists
  BY ShapeFacts
<1>2. new \in RunLists /\ new[r] = run
  BY <1>1 DEF RunLists
<1>3. runFeed' = Publish(runFeed, new)
  BY DEF PublishRun
<1> HIDE DEF new
<1>4. /\ runFeed' \in Seq(RunLists) /\ runFeed' # <<>> /\ Runs' = new
      /\ Fresh(runFeed') => Fresh(runFeed) /\ new = Runs /\ runFeed' = runFeed
  BY <1>2, <1>3, PublishStates, PublishFresh DEF Shape, Runs
<1> QED
  BY <1>2, <1>4 DEF new

\* A call is answered once.
LEMMA AnswerType ==
  ASSUME Shape, NEW res, Answer(res)
  PROVE  faults' \in Nat
  BY DEF Shape, Answer

\* What every patch of the suite does, whatever the reconcile does next.
SuitePatched(new, out) ==
  /\ out \in PatchAnswers(new)
  /\ Answer(out.res)
  /\ suiteFeed' = Publish(suiteFeed, out.obj)
  /\ UNCHANGED <<runFeed, history, env>>

\* What is left after a patch, whatever its answer.
LEMMA PatchedShape ==
  ASSUME Shape, Working, NEW new \in SuiteRecs, NEW out, SuitePatched(new, out)
  PROVE  /\ out.obj \in SuiteRecs /\ Suite' = out.obj
         /\ suiteFeed' \in Seq(SuiteRecs) /\ suiteFeed' # <<>>
         /\ runFeed' = runFeed /\ Runs' = Runs /\ now' = now /\ helm' = helm
         /\ faults' \in Nat
         /\ Fresh(suiteFeed') => Fresh(suiteFeed) /\ out.obj = Suite /\ suiteFeed' = suiteFeed
<1>1. Suite \in SuiteRecs /\ job.base \in SuiteRecs
  BY ShapeFacts, JobFacts
<1>2. out.obj \in SuiteRecs
  BY <1>1, SuiteAnswers DEF SuitePatched
<1> QED
  BY <1>2, SuiteWritten, AnswerType DEF SuitePatched, Runs, env

\* The shape of a state, once the reconcile's part of it is known.
LEMMA ShapeKept ==
  ASSUME suiteFeed' \in Seq(SuiteRecs) /\ suiteFeed' # <<>>,
         runFeed' \in Seq(RunLists) /\ runFeed' # <<>>,
         queued' \in BOOLEAN, wake' \in Int, now' \in 0..MaxTime, helm' \in 0..MaxReleases,
         job' = Idle \/ Goes(job'), faults' \in Nat
  PROVE  Shape'
  BY DEF Shape, Goes

\* The two ways to go on after a patch: only with the reply, or in any case.
Proceeding(new, out, j) ==
  /\ SuitePatched(new, out)
  /\ UNCHANGED wake
  /\ IF out.res = "OK" THEN job' = j /\ UNCHANGED queued ELSE Return(TRUE)

Trying(new, out, j) ==
  /\ SuitePatched(new, out)
  /\ UNCHANGED <<wake, queued>>
  /\ job' = j

\* A reconcile that ends may queue its key.
LEMMA ReturnType ==
  ASSUME Shape, NEW b \in BOOLEAN, Return(b)
  PROVE  job' = Idle /\ queued' \in BOOLEAN
  BY DEF Shape, Return

\* A patch keeps the shape of the state,
LEMMA PatchEnds ==
  ASSUME Shape, Working, NEW new \in SuiteRecs, NEW out, SuitePatched(new, out),
         queued' \in BOOLEAN, wake' \in Int, job' = Idle \/ Goes(job')
  PROVE  Shape'
<1>1. /\ suiteFeed' \in Seq(SuiteRecs) /\ suiteFeed' # <<>>
      /\ runFeed' = runFeed /\ now' = now /\ helm' = helm /\ faults' \in Nat
  BY PatchedShape
<1> QED
  BY <1>1, ShapeKept DEF Shape

\* also if the reconcile goes on with the reply,
LEMMA ProceedingShape ==
  ASSUME Shape, Working, NEW new \in SuiteRecs, NEW out, NEW j, Proceeding(new, out, j),
         out.res = "OK" => Goes(j)
  PROVE  Shape'
<1>1. queued' \in BOOLEAN /\ wake' \in Int /\ (job' = Idle \/ Goes(job'))
  BY ReturnType DEF Proceeding, Shape
<1> QED
  BY <1>1, PatchEnds DEF Proceeding

\* or whatever the answer.
LEMMA TryingShape ==
  ASSUME Shape, Working, NEW new \in SuiteRecs, NEW out, NEW j, Trying(new, out, j), Goes(j)
  PROVE  Shape'
<1>1. queued' \in BOOLEAN /\ wake' \in Int /\ Goes(job')
  BY DEF Trying, Shape
<1> QED
  BY <1>1, PatchEnds DEF Trying

\* A step that calls nothing.
LEMMA LocalShape ==
  ASSUME Shape, Locally, queued' \in BOOLEAN, job' = Idle \/ Goes(job')
  PROVE  Shape' /\ Suite' = Suite /\ Runs' = Runs
  BY ShapeKept DEF Shape, Locally, env, Suite, Runs

\* A call about one run.
LEMMA RunCallShape ==
  ASSUME Shape, NEW r \in Names, NEW run \in RunRecs, PublishRun(r, run),
         NEW res, Answer(res), UNCHANGED <<suiteFeed, wake, env>>,
         queued' \in BOOLEAN, job' = Idle \/ Goes(job')
  PROVE  Shape'
<1>1. runFeed' \in Seq(RunLists) /\ runFeed' # <<>> /\ faults' \in Nat
  BY RunWritten, AnswerType
<1> QED
  BY <1>1, ShapeKept DEF Shape, env

\* The answers to the calls about a run keep its place in the order, and do not
\* bring it into being.
LEMMA RunAnswers ==
  ASSUME NEW run \in RunRecs, NEW copy \in RunRecs
  PROVE  /\ \A out \in cleanUp(copy, run, SuiteFin, "Resource") :
              out.obj \in RunRecs /\ out.obj.seq = run.seq /\ (out.obj.phase = "Unborn" <=> run.phase = "Unborn")
         /\ \A out \in removeFinalizer(copy, run, SuiteFin, "Resource") :
              out.obj \in RunRecs /\ out.obj.seq = run.seq /\ (out.obj.phase = "Unborn" <=> run.phase = "Unborn")
<1>1. copy.fins \ {SuiteFin} \in SUBSET {SuiteFin, RunFin}
  BY DEF RunRecs
<1>2. ASSUME NEW x \in RunRecs, NEW fins \in SUBSET {SuiteFin, RunFin}
      PROVE  /\ Deleted(x) \in RunRecs /\ Deleted(x).seq = x.seq /\ (Deleted(x).phase = "Unborn" <=> x.phase = "Unborn")
             /\ Reaped(x) \in RunRecs /\ Reaped(x).seq = x.seq /\ (Reaped(x).phase = "Unborn" <=> x.phase = "Unborn")
             /\ WithFins(x, fins) \in RunRecs /\ WithFins(x, fins).seq = x.seq
             /\ WithFins(x, fins).phase = "Unborn" <=> x.phase = "Unborn"
  <2>1. Deleted(x) \in RunRecs /\ Reaped(x) \in RunRecs /\ WithFins(x, fins) \in RunRecs
    BY RunTypes
  <2> QED
    BY <2>1 DEF Deleted, Reaped, WithFins, RunRecs, Exists
<1>3. ASSUME NEW out \in cleanUp(copy, run, SuiteFin, "Resource")
      PROVE  out.obj \in RunRecs /\ out.obj.seq = run.seq /\ (out.obj.phase = "Unborn" <=> run.phase = "Unborn")
  <2> DEFINE deleted == IF copy.del THEN run ELSE Reaped(Deleted(run))
  <2>1. deleted \in RunRecs /\ deleted.seq = run.seq /\ (deleted.phase = "Unborn" <=> run.phase = "Unborn")
    BY <1>1, <1>2
  <2>2. out.obj \in {run, deleted, Reaped(WithFins(deleted, copy.fins \ {SuiteFin}))}
    BY CleanUpOutcomes
  <2> HIDE DEF deleted
  <2> DEFINE less == WithFins(deleted, copy.fins \ {SuiteFin})
  <2>3. less \in RunRecs /\ less.seq = run.seq /\ (less.phase = "Unborn" <=> run.phase = "Unborn")
    BY <1>1, <1>2, <2>1
  <2>4. out.obj \in {run, deleted, Reaped(less)}
    BY <2>2
  <2> HIDE DEF less
  <2> QED
    BY <1>1, <1>2, <2>1, <2>3, <2>4
<1>4. ASSUME NEW out \in removeFinalizer(copy, run, SuiteFin, "Resource")
      PROVE  out.obj \in RunRecs /\ out.obj.seq = run.seq /\ (out.obj.phase = "Unborn" <=> run.phase = "Unborn")
  <2>1. out.obj \in {run, Reaped(WithFins(run, copy.fins \ {SuiteFin}))}
    BY FinOutcomes DEF removeFinalizer
  <2> QED
    BY <1>1, <1>2, <2>1
<1> QED
  BY <1>3, <1>4

\* The answers to the calls about the finalizer of the suite: a suite that is
\* left deleted still has it.
LEMMA CleanUpAnswers ==
  ASSUME NEW suite \in SuiteRecs, NEW copy \in SuiteRecs, NEW out \in cleanUp(copy, suite, SuiteFin, "Resource")
  PROVE  /\ out.obj \in SuiteRecs
         /\ out.obj = suite \/ (Exists(out.obj) /\ out.obj.del => SuiteFin \in out.obj.fins)
         /\ ~Exists(suite) => out.obj = suite
<1>1. copy.fins \ {SuiteFin} \in SUBSET {SuiteFin}
  BY DEF SuiteRecs
<1> DEFINE deleted == IF copy.del THEN suite ELSE Reaped(Deleted(suite))
           less == WithFins(deleted, copy.fins \ {SuiteFin})
<1>2. deleted \in SuiteRecs /\ (deleted = suite \/ \E x \in SuiteRecs : deleted = Reaped(x))
  BY SuiteTypes
<1>3. out.obj \in {suite, deleted, Reaped(less)}
  BY CleanUpOutcomes
<1>4. ~Exists(suite) => deleted = suite /\ less = suite /\ Reaped(suite) = suite
  BY DEF Deleted, Reaped, WithFins
<1> HIDE DEF deleted
<1>5. less \in SuiteRecs
  BY <1>1, <1>2, SuiteTypes
<1> HIDE DEF less
<1>6. \A x \in SuiteRecs : Reaped(x) \in SuiteRecs /\ (Exists(Reaped(x)) /\ Reaped(x).del => SuiteFin \in Reaped(x).fins)
  <2> TAKE x \in SuiteRecs
  <2>1. Reaped(x) \in SuiteRecs
    BY SuiteTypes
  <2>2. Exists(Reaped(x)) /\ Reaped(x).del => Reaped(x).fins # {}
    BY DEF Reaped, SuiteRecs, Exists
  <2>3. Reaped(x).fins # {} => SuiteFin \in Reaped(x).fins
    BY <2>1 DEF SuiteRecs
  <2> QED
    BY <2>1, <2>2, <2>3
<1> QED
  BY <1>2, <1>3, <1>4, <1>5, <1>6

\* addFinalizer adds the finalizer or leaves the suite as it is.
LEMMA AddAnswers ==
  ASSUME NEW suite \in SuiteRecs, NEW copy \in SuiteRecs, NEW out \in addFinalizer(copy, suite, SuiteFin, "Resource")
  PROVE  /\ out.obj \in SuiteRecs
         /\ out.obj = suite \/ (SuiteFin \in out.obj.fins /\ Exists(suite) /\ out.obj = [suite EXCEPT !.fins = {SuiteFin}])
         /\ out.res = "OK" => Exists(suite) /\ out.obj = [suite EXCEPT !.fins = {SuiteFin}]
<1>1. copy.fins \cup {SuiteFin} = {SuiteFin}
  BY DEF SuiteRecs
<1> DEFINE more == [suite EXCEPT !.fins = {SuiteFin}]
<1>2. more \in SuiteRecs /\ more.fins = {SuiteFin}
  BY DEF SuiteRecs
<1>3. Reaped(WithFins(suite, {SuiteFin})) = IF Exists(suite) THEN more ELSE suite
  <2>1. Reaped(more) = more
    BY <1>2 DEF Reaped
  <2>2. ~Exists(suite) => Reaped(suite) = suite
    BY DEF Reaped
  <2> QED
    BY <2>1, <2>2 DEF WithFins
<1>4. /\ out.obj \in {suite, Reaped(WithFins(suite, {SuiteFin}))}
      /\ out.res = "OK" => Exists(suite) /\ out.obj = Reaped(WithFins(suite, {SuiteFin}))
  BY <1>1, FinOutcomes DEF addFinalizer
<1> HIDE DEF more
<1> QED
  BY <1>2, <1>3, <1>4 DEF more

\* The next time of a schedule is a time.
LEMMA NextTimeType ==
  ASSUME NEW sched \in Schedules \cup {0}, sched # 0, NEW t \in Int
  PROVE  NextTime(sched, t) \in Int
<1>1. sched \in Nat /\ sched > 0
  BY Bounds
<1> QED
  BY <1>1 DEF NextTime

\* There are finitely many runs.
LEMMA BornFinite ==
  ASSUME NEW runs
  PROVE  IsFiniteSet(Born(runs)) /\ Cardinality(Born(runs)) \in Nat
<1>1. Born(runs) \subseteq Names
  BY DEF Born
<1> QED
  BY <1>1, Bounds, FS_Subset, FS_CardinalityType

\* A reconcile set to go on is well formed.
LEMMA ProceedsGoes ==
  ASSUME NEW j, NEW suite, NEW runs, Proceeds(j, suite, runs)
  PROVE  Goes(j)
  BY DEF Proceeds, Goes

-----------------------------------------------------------------------------
\* Every action of the controller keeps the shape of the state.
LEMMA ControllerShape ==
  ASSUME Shape, Controller
  PROVE  Shape'
<1> USE DEF Shape
<1>1. ASSUME Reconcile PROVE Shape'
  <2> DEFINE suite == Cached(suiteFeed)
             runs  == Cached(runFeed)
  <2>1. suite \in SuiteRecs /\ runs \in RunLists /\ Listed(runs) \in SUBSET Names
    BY ShapeFacts, ListedTypes
  <2>2. \/ job' = Idle
        \/ \E step \in {"release", "delete", "finalizer"}, todo \in {Listed(runs), {}} : job' = At(step, suite, runs, todo)
        \/ job' = AfterFinalizer(suite, runs)
    BY <1>1 DEF Reconcile
  <2> HIDE DEF suite, runs
  <2>3. {"release", "delete", "finalizer"} \subseteq Steps
    BY DEF Steps, Begun
  <2>4. \A step \in {"release", "delete", "finalizer"}, todo \in {Listed(runs), {}} : Goes(At(step, suite, runs, todo))
    BY <2>1, <2>3, AtShape DEF Goes
  <2>5. Goes(AfterFinalizer(suite, runs))
    BY <2>1, AfterFinalizerIs DEF Proceeds, Goes
  <2>6. job' = Idle \/ Goes(job')
    BY <2>2, <2>4, <2>5
  <2> QED
    BY <1>1, <2>6, LocalShape DEF Reconcile
<1>2. ASSUME Done \/ MissingRun \/ RunsDeleted PROVE Shape'
  <2>1. Working /\ Goes(job)
    BY <1>2, StepWorks DEF Done, MissingRun, RunsDeleted
  <2>2. PICK b \in BOOLEAN : Return(b) /\ Locally
    BY <1>2, <2>1, JobFacts DEF Done, MissingRun, RunsDeleted
  <2> QED
    BY <2>2, LocalShape, ReturnType
<1>3. ASSUME NEW r \in Names, CleanUpRun(r) PROVE Shape'
  <2>1. Working /\ Goes(job)
    BY <1>3, StepWorks DEF CleanUpRun
  <2>2. Runs[r] \in RunRecs /\ job.runs[r] \in RunRecs
    BY <2>1, ShapeFacts, JobFacts
  <2>3. PICK out \in cleanUp(job.runs[r], Runs[r], SuiteFin, "Resource") :
          /\ Answer(out.res) /\ PublishRun(r, out.obj)
          /\ job' = [job EXCEPT !.todo = @ \ {r}, !.err = @ \/ out.res # "OK"]
    BY <1>3, AnswersAre DEF CleanUpRun
  <2>4. out.obj \in RunRecs
    BY <2>2, RunAnswers
  <2>5. Goes(job')
    BY <2>1, <2>3 DEF Goes, Jobs
  <2> QED
    BY <1>3, <2>3, <2>4, <2>5, RunCallShape DEF CleanUpRun
<1>4. ASSUME NEW r \in Names, ReleaseRun(r) PROVE Shape'
  <2>1. Working /\ Goes(job)
    BY <1>4, StepWorks DEF ReleaseRun
  <2>2. Runs[r] \in RunRecs /\ job.runs[r] \in RunRecs
    BY <2>1, ShapeFacts, JobFacts
  <2>3. PICK out \in removeFinalizer(job.runs[r], Runs[r], SuiteFin, "Resource") :
          /\ Answer(out.res) /\ PublishRun(r, out.obj)
          /\ IF out.res = "OK" THEN job' = [job EXCEPT !.todo = @ \ {r}] /\ UNCHANGED queued
             ELSE Return(TRUE)
    BY <1>4, AnswersAre DEF ReleaseRun
  <2>4. out.obj \in RunRecs
    BY <2>2, RunAnswers
  <2>5. queued' \in BOOLEAN /\ (job' = Idle \/ Goes(job'))
    BY <2>1, <2>3, ReturnType DEF Goes, Jobs
  <2> QED
    BY <1>4, <2>3, <2>4, <2>5, RunCallShape DEF ReleaseRun
<1>5. ASSUME HistoryEnforced PROVE Shape'
  <2>1. Working /\ Goes(job)
    BY <1>5, StepWorks DEF HistoryEnforced
  <2>2. Goes(Scheduled(job.suite, job.runs))
    BY <2>1, JobFacts, ScheduledIs DEF Goes, Proceeds
  <2>3. queued' \in BOOLEAN /\ (job' = Idle \/ Goes(job'))
    BY <1>5, <2>2, ReturnType DEF HistoryEnforced
  <2> QED
    BY <1>5, <2>3, LocalShape DEF HistoryEnforced
<1>6. ASSUME Compact PROVE Shape'
  <2>1. Working /\ Goes(job)
    BY <1>6, StepWorks DEF Compact
  <2>2. PICK met \in SUBSET (Listed(job.runs) \ Live(job.runs)) :
          job' = [job EXCEPT !.step = "releaseRuns", !.todo = {r \in met : SuiteFin \in job.runs[r].fins}]
    BY <1>6 DEF Compact
  <2>3. {r \in met : SuiteFin \in job.runs[r].fins} \in SUBSET Names /\ "releaseRuns" \in Steps
    BY ListedTypes DEF Steps
  <2>4. Goes(job')
    BY <2>1, <2>2, <2>3 DEF Goes, Jobs
  <2> QED
    BY <1>6, <2>4, LocalShape DEF Compact
<1>7. ASSUME RunsReleased PROVE Shape'
  <2>1. Working /\ Goes(job)
    BY <1>7, StepWorks DEF RunsReleased
  <2>2. Goes(EnsurePhase(job.suite, job.runs))
    BY <2>1, JobFacts, EnsurePhaseIs DEF Goes, Proceeds
  <2> QED
    BY <1>7, <2>2, LocalShape DEF RunsReleased
<1>8. ASSUME ReleaseSuite PROVE Shape'
  <2>1. Working /\ Goes(job)
    BY <1>8, StepWorks DEF ReleaseSuite
  <2>2. PICK out \in cleanUp(job.suite, Suite, SuiteFin, "Resource") :
          Answer(out.res) /\ suiteFeed' = Publish(suiteFeed, out.obj) /\ Return(out.res # "OK")
    BY <1>8, AnswersAre DEF ReleaseSuite
  <2>3. out.obj \in SuiteRecs
    BY <2>1, ShapeFacts, JobFacts, CleanUpAnswers
  <2>4. queued' \in BOOLEAN /\ job' = Idle
    BY <2>2 DEF Return
  <2> QED
    BY <1>8, <2>2, <2>3, <2>4, SuiteWritten, AnswerType, ShapeKept DEF ReleaseSuite, env
<1>9. ASSUME EnsureFinalizer PROVE Shape'
  <2>1. Working /\ Goes(job)
    BY <1>9, StepWorks DEF EnsureFinalizer
  <2>2. PICK out \in addFinalizer(job.suite, Suite, SuiteFin, "Resource") :
          /\ Answer(out.res) /\ suiteFeed' = Publish(suiteFeed, out.obj)
          /\ IF out.res = "OK" THEN job' = AfterFinalizer(out.obj, job.runs) /\ UNCHANGED queued
             ELSE Return(TRUE)
    BY <1>9, AnswersAre DEF EnsureFinalizer
  <2>3. out.obj \in SuiteRecs
    BY <2>1, ShapeFacts, JobFacts, AddAnswers
  <2>4. Goes(AfterFinalizer(out.obj, job.runs))
    BY <2>1, <2>3, JobFacts, AfterFinalizerIs DEF Goes, Proceeds
  <2>5. queued' \in BOOLEAN /\ (job' = Idle \/ Goes(job'))
    BY <2>2, <2>4, ReturnType
  <2> QED
    BY <1>9, <2>2, <2>3, <2>5, SuiteWritten, AnswerType, ShapeKept DEF EnsureFinalizer, env

<1>10. ASSUME ClearNextRun PROVE Shape'
  <2>1. Working /\ Goes(job)
    BY <1>10, StepWorks DEF ClearNextRun
  <2>2. PICK out : Trying([job.suite EXCEPT !.nextRun = None], out,
                     AfterSchedule((IF out.res = "OK" THEN out.obj ELSE [job.suite EXCEPT !.nextRun = None]), job.runs))
    BY <1>10 DEF ClearNextRun, TryPatchSuite, Trying, SuitePatched
  <2>3. [job.suite EXCEPT !.nextRun = None] \in SuiteRecs
    BY <2>1, JobFacts, SuiteChanges, Bounds
  <2>4. (IF out.res = "OK" THEN out.obj ELSE [job.suite EXCEPT !.nextRun = None]) \in SuiteRecs
    BY <2>1, <2>2, <2>3, PatchedShape DEF Trying
  <2>5. Goes(AfterSchedule((IF out.res = "OK" THEN out.obj ELSE [job.suite EXCEPT !.nextRun = None]), job.runs))
    BY <2>1, <2>4, JobFacts, AfterScheduleIs DEF Goes, Proceeds
  <2> QED
    BY <2>1, <2>2, <2>3, <2>5, TryingShape
<1>11. ASSUME DropSchedule PROVE Shape'
  <2>1. Working /\ Goes(job)
    BY <1>11, StepWorks DEF DropSchedule
  <2>2. PICK out : Proceeding([job.suite EXCEPT !.annotated = 0], out, [job EXCEPT !.step = "noSchedule", !.suite = out.obj])
    BY <1>11 DEF DropSchedule, PatchSuite, Proceeding, SuitePatched
  <2>3. [job.suite EXCEPT !.annotated = 0] \in SuiteRecs
    BY <2>1, JobFacts, SuiteChanges
  <2>4. out.obj \in SuiteRecs
    BY <2>1, <2>2, <2>3, PatchedShape DEF Proceeding
  <2>5. Goes([job EXCEPT !.step = "noSchedule", !.suite = out.obj])
    BY <2>1, <2>4, JobFacts DEF Goes, Jobs, Steps, Begun
  <2> QED
    BY <2>1, <2>2, <2>3, <2>5, ProceedingShape
<1>12. ASSUME NoSchedule PROVE Shape'
  <2>1. Working /\ Goes(job)
    BY <1>12, StepWorks DEF NoSchedule
  <2>2. PICK out : Proceeding([job.suite EXCEPT !.nextRun = None], out, AfterSchedule(out.obj, job.runs))
    BY <1>12 DEF NoSchedule, PatchSuite, Proceeding, SuitePatched
  <2>3. [job.suite EXCEPT !.nextRun = None] \in SuiteRecs
    BY <2>1, JobFacts, SuiteChanges, Bounds
  <2>4. out.obj \in SuiteRecs
    BY <2>1, <2>2, <2>3, PatchedShape DEF Proceeding
  <2>5. Goes(AfterSchedule(out.obj, job.runs))
    BY <2>1, <2>4, JobFacts, AfterScheduleIs DEF Goes, Proceeds
  <2> QED
    BY <2>1, <2>2, <2>3, <2>5, ProceedingShape
<1>13. ASSUME Focus PROVE Shape'
  <2>1. Working /\ Goes(job)
    BY <1>13, StepWorks DEF Focus
  <2>2. PICK r, out : r \in job.todo /\ Proceeding([job.suite EXCEPT !.phase = "Running", !.current = r], out,
                     IF job.todo = {r} THEN isRunning(out.obj, job.runs)
                     ELSE At("focus", out.obj, job.runs, job.todo \ {r}))
    BY <1>13 DEF Focus, PatchSuite, Proceeding, SuitePatched
  <2>3. [job.suite EXCEPT !.phase = "Running", !.current = r] \in SuiteRecs
    BY <2>1, <2>2, JobFacts, SuiteChanges
  <2>4. out.obj \in SuiteRecs
    BY <2>1, <2>2, <2>3, PatchedShape DEF Proceeding
  <2>5. Goes(IF job.todo = {r} THEN isRunning(out.obj, job.runs)
                     ELSE At("focus", out.obj, job.runs, job.todo \ {r}))
    BY <2>1, <2>4, JobFacts, isRunningIs, AtShape DEF Goes, Proceeds, Steps, Late
  <2> QED
    BY <2>1, <2>2, <2>3, <2>5, ProceedingShape
<1>14. ASSUME SetPending PROVE Shape'
  <2>1. Working /\ Goes(job)
    BY <1>14, StepWorks DEF SetPending
  <2>2. PICK out : Proceeding([job.suite EXCEPT !.phase = "Pending"], out, notRunning(out.obj, job.runs))
    BY <1>14 DEF SetPending, PatchSuite, Proceeding, SuitePatched
  <2>3. [job.suite EXCEPT !.phase = "Pending"] \in SuiteRecs
    BY <2>1, JobFacts, SuiteChanges
  <2>4. out.obj \in SuiteRecs
    BY <2>1, <2>2, <2>3, PatchedShape DEF Proceeding
  <2>5. Goes(notRunning(out.obj, job.runs))
    BY <2>1, <2>4, JobFacts, notRunningIs DEF Goes, Proceeds
  <2> QED
    BY <2>1, <2>2, <2>3, <2>5, ProceedingShape
<1>15. ASSUME SetReady PROVE Shape'
  <2>1. Working /\ Goes(job)
    BY <1>15, StepWorks DEF SetReady
  <2>2. PICK out : Proceeding([job.suite EXCEPT !.phase = "Ready"], out,
                     IF Old(job.runs) # {} THEN At("history", out.obj, job.runs, Old(job.runs))
                     ELSE Scheduled(out.obj, job.runs))
    BY <1>15 DEF SetReady, PatchSuite, Proceeding, SuitePatched
  <2>3. [job.suite EXCEPT !.phase = "Ready"] \in SuiteRecs
    BY <2>1, JobFacts, SuiteChanges
  <2>4. out.obj \in SuiteRecs
    BY <2>1, <2>2, <2>3, PatchedShape DEF Proceeding
  <2>5. Goes(IF Old(job.runs) # {} THEN At("history", out.obj, job.runs, Old(job.runs))
                     ELSE Scheduled(out.obj, job.runs))
    BY <2>1, <2>4, JobFacts, ScheduledIs, ListedTypes, AtShape DEF Goes, Proceeds, Steps, Late
  <2> QED
    BY <2>1, <2>2, <2>3, <2>5, ProceedingShape
<1>16. ASSUME Annotate PROVE Shape'
  <2>1. Working /\ Goes(job)
    BY <1>16, StepWorks DEF Annotate
  <2>2. PICK out : Proceeding([job.suite EXCEPT !.annotated = job.suite.sched], out, Parsed(out.obj, job.runs, job.suite.sched))
    BY <1>16 DEF Annotate, PatchSuite, Proceeding, SuitePatched
  <2>3. [job.suite EXCEPT !.annotated = job.suite.sched] \in SuiteRecs
    BY <2>1, JobFacts, SuiteChanges DEF SuiteRecs
  <2>4. out.obj \in SuiteRecs
    BY <2>1, <2>2, <2>3, PatchedShape DEF Proceeding
  <2>5. Goes(Parsed(out.obj, job.runs, job.suite.sched))
    BY <2>1, <2>4, JobFacts, <1>16, ParsedIs DEF Goes, Proceeds, SuiteRecs, Annotate
  <2> QED
    BY <2>1, <2>2, <2>3, <2>5, ProceedingShape
<1>17. ASSUME SetNextRun PROVE Shape'
  <2>1. Working /\ Goes(job)
    BY <1>17, StepWorks DEF SetNextRun
  <2>2. PICK out : Proceeding([job.suite EXCEPT !.nextRun = NextTime(job.when, now)], out,
                     [Triggered(out.obj, job.runs) EXCEPT !.when = job.when])
    BY <1>17 DEF SetNextRun, PatchSuite, Proceeding, SuitePatched
  <2>3. [job.suite EXCEPT !.nextRun = NextTime(job.when, now)] \in SuiteRecs
    <3>1. job.when \in Schedules \cup {0} /\ job.when # 0
      BY <1>17, <2>1, JobFacts DEF Goes, SetNextRun
    <3>2. NextTime(job.when, now) \in Int
      BY <3>1, NextTimeType
    <3> QED
      BY <2>1, <3>2, JobFacts, SuiteChanges
  <2>4. out.obj \in SuiteRecs
    BY <2>1, <2>2, <2>3, PatchedShape DEF Proceeding
  <2>5. Goes([Triggered(out.obj, job.runs) EXCEPT !.when = job.when])
    BY <2>1, <2>4, JobFacts, TriggeredIs, ProceedsGoes
  <2> QED
    BY <2>1, <2>2, <2>3, <2>5, ProceedingShape
<1>18. ASSUME RejectSchedule PROVE Shape'
  <2>1. Working /\ Goes(job)
    BY <1>18, StepWorks DEF RejectSchedule
  <2>2. PICK out : Trying([job.suite EXCEPT !.nextRun = None], out,
                     Triggered((IF out.res = "OK" THEN out.obj ELSE [job.suite EXCEPT !.nextRun = None]), job.runs))
    BY <1>18 DEF RejectSchedule, TryPatchSuite, Trying, SuitePatched
  <2>3. [job.suite EXCEPT !.nextRun = None] \in SuiteRecs
    BY <2>1, JobFacts, SuiteChanges, Bounds
  <2>4. (IF out.res = "OK" THEN out.obj ELSE [job.suite EXCEPT !.nextRun = None]) \in SuiteRecs
    BY <2>1, <2>2, <2>3, PatchedShape DEF Trying
  <2>5. Goes(Triggered((IF out.res = "OK" THEN out.obj ELSE [job.suite EXCEPT !.nextRun = None]), job.runs))
    BY <2>1, <2>4, JobFacts, TriggeredIs, ProceedsGoes
  <2> QED
    BY <2>1, <2>2, <2>3, <2>5, TryingShape
<1>19. ASSUME ResetTrigger PROVE Shape'
  <2>1. Working /\ Goes(job)
    BY <1>19, StepWorks DEF ResetTrigger
  <2>2. PICK out : Proceeding([job.suite EXCEPT !.needsRun = FALSE], out,
                     [job EXCEPT !.step = "trigger", !.suite = out.obj, !.cause = <<"Manual", 0>>])
    BY <1>19 DEF ResetTrigger, PatchSuite, Proceeding, SuitePatched
  <2>3. [job.suite EXCEPT !.needsRun = FALSE] \in SuiteRecs
    BY <2>1, JobFacts, SuiteChanges
  <2>4. out.obj \in SuiteRecs
    BY <2>1, <2>2, <2>3, PatchedShape DEF Proceeding
  <2>5. Goes([job EXCEPT !.step = "trigger", !.suite = out.obj, !.cause = <<"Manual", 0>>])
    <3>1. <<"Manual", 0>> \in Causes /\ "trigger" \in Steps
      BY DEF Causes, Steps
    <3> QED
      BY <2>1, <2>4, <3>1 DEF Goes, Jobs
  <2> QED
    BY <2>1, <2>2, <2>3, <2>5, ProceedingShape
<1>20. ASSUME AnnotateRelease PROVE Shape'
  <2>1. Working /\ Goes(job)
    BY <1>20, StepWorks DEF AnnotateRelease
  <2>2. PICK out : Proceeding([job.suite EXCEPT !.lastHelm = 0], out,
                     [job EXCEPT !.step = "trigger", !.suite = out.obj, !.cause = <<"Helm", helm>>])
    BY <1>20 DEF AnnotateRelease, PatchSuite, Proceeding, SuitePatched
  <2>3. [job.suite EXCEPT !.lastHelm = 0] \in SuiteRecs
    BY <2>1, JobFacts, SuiteChanges
  <2>4. out.obj \in SuiteRecs
    BY <2>1, <2>2, <2>3, PatchedShape DEF Proceeding
  <2>5. Goes([job EXCEPT !.step = "trigger", !.suite = out.obj, !.cause = <<"Helm", helm>>])
    <3>1. <<"Helm", helm>> \in Causes /\ "trigger" \in Steps
      BY DEF Causes, Steps
    <3> QED
      BY <2>1, <2>4, <3>1 DEF Goes, Jobs
  <2> QED
    BY <2>1, <2>2, <2>3, <2>5, ProceedingShape
<1>21. ASSUME TrackRun PROVE Shape'
  <2>1. Working /\ Goes(job)
    BY <1>21, StepWorks DEF TrackRun
  <2>2. PICK r, out : r \in job.todo /\ Proceeding([job.suite EXCEPT !.current = r], out, At("done", out.obj, job.runs, {}))
    BY <1>21 DEF TrackRun, PatchSuite, Proceeding, SuitePatched
  <2>3. [job.suite EXCEPT !.current = r] \in SuiteRecs
    BY <2>1, <2>2, JobFacts, SuiteChanges
  <2>4. out.obj \in SuiteRecs
    BY <2>1, <2>2, <2>3, PatchedShape DEF Proceeding
  <2>5. Goes(At("done", out.obj, job.runs, {}))
    BY <2>1, <2>4, JobFacts, AtShape DEF Goes, Steps, Late
  <2> QED
    BY <2>1, <2>2, <2>3, <2>5, ProceedingShape
<1>22. ASSUME FinishRun PROVE Shape'
  <2>1. Working /\ Goes(job)
    BY <1>22, StepWorks DEF FinishRun
  <2>2. PICK out : Proceeding([job.suite EXCEPT !.phase = "Ready", !.current = None], out, At("done", out.obj, job.runs, {}))
    BY <1>22 DEF FinishRun, PatchSuite, Proceeding, SuitePatched
  <2>3. [job.suite EXCEPT !.phase = "Ready", !.current = None] \in SuiteRecs
    BY <2>1, JobFacts, SuiteChanges
  <2>4. out.obj \in SuiteRecs
    BY <2>1, <2>2, <2>3, PatchedShape DEF Proceeding
  <2>5. Goes(At("done", out.obj, job.runs, {}))
    BY <2>1, <2>4, JobFacts, AtShape DEF Goes, Steps, Late
  <2> QED
    BY <2>1, <2>2, <2>3, <2>5, ProceedingShape
<1>23. ASSUME WaitForNextRun PROVE Shape'
  <2>1. job.suite.nextRun \in Int
    BY <1>23, StepWorks, JobFacts DEF WaitForNextRun, SuiteRecs
  <2>2. wake' \in Int
    BY <1>23, <2>1 DEF WaitForNextRun, RequeueAt
  <2> QED
    BY <1>23, <2>2, ReturnType, ShapeKept DEF WaitForNextRun, env
<1>24. ASSUME NextRunIsDue PROVE Shape'
  <2>1. Working /\ Goes(job)
    BY <1>24, StepWorks DEF NextRunIsDue
  <2>2. job.suite.nextRun \in Int /\ "trigger" \in Steps
    BY <2>1, JobFacts DEF SuiteRecs, Steps
  <2>3. Goes([job EXCEPT !.step = "trigger", !.cause = <<"Scheduled", job.suite.nextRun>>])
    BY <2>1, <2>2 DEF Goes, Jobs, Causes
  <2> QED
    BY <1>24, <2>3, LocalShape DEF NextRunIsDue
<1>25. ASSUME NextRunMissed PROVE Shape'
  <2> DEFINE next == NextTime(job.when, now)
  <2>1. Working /\ Goes(job)
    BY <1>25, StepWorks DEF NextRunMissed
  <2>2. next \in Int
    BY <1>25, <2>1, JobFacts, NextTimeType DEF NextRunMissed
  <2> HIDE DEF next
  <2>3. PICK out : /\ SuitePatched([job.suite EXCEPT !.nextRun = next], out)
                   /\ IF out.res = "OK" THEN RequeueAt(next) ELSE UNCHANGED wake
                   /\ Return(out.res # "OK")
    BY <1>25 DEF NextRunMissed, SuitePatched, next
  <2>4. [job.suite EXCEPT !.nextRun = next] \in SuiteRecs
    BY <2>1, <2>2, JobFacts, SuiteChanges
  <2>5. wake' \in Int
    BY <2>2, <2>3 DEF RequeueAt
  <2> QED
    BY <2>1, <2>3, <2>4, <2>5, ReturnType, PatchEnds
<1>26. ASSUME NilSchedule PROVE Shape'
  <2>1. /\ <<Suite>> \in Seq(SuiteRecs) /\ <<Suite>> # <<>>
        /\ <<Runs>> \in Seq(RunLists) /\ <<Runs>> # <<>>
    BY ShapeFacts, RestartStates
  <2> QED
    BY <1>26, <2>1, ShapeKept, Bounds DEF NilSchedule, env
<1>27. ASSUME SetRunning PROVE Shape'
  <2>1. Working /\ Goes(job)
    BY <1>27, StepWorks DEF SetRunning
  <2> DEFINE new == [job.suite EXCEPT !.phase = "Running", !.current = None]
  <2>2. PICK out \in PatchAnswers(new) :
          Answer(out.res) /\ suiteFeed' = Publish(suiteFeed, out.obj) /\ Return(out.res # "OK")
    BY <1>27 DEF SetRunning
  <2>3. new \in SuiteRecs
    BY <2>1, JobFacts, SuiteChanges
  <2> HIDE DEF new
  <2>4. out.obj \in SuiteRecs
    BY <2>1, <2>3, ShapeFacts, JobFacts, SuiteAnswers
  <2> QED
    BY <1>27, <2>2, <2>4, SuiteWritten, AnswerType, ReturnType, ShapeKept DEF SetRunning, env
<1>28. ASSUME CreateRun PROVE Shape'
  <2>1. Working /\ Goes(job)
    BY <1>28, StepWorks DEF CreateRun
  <2> DEFINE seq == 1 + Cardinality(Born(Runs))
  <2>2. seq \in Nat
    BY BornFinite
  <2> HIDE DEF seq
  <2>3. PICK r \in Names, res \in {"OK", "Error"} :
          /\ Answer(res) /\ PublishRun(r, NewRun(seq))
          /\ IF res = "OK" THEN job' = [job EXCEPT !.step = "track", !.todo = {r}] /\ UNCHANGED queued
             ELSE Return(TRUE)
    BY <1>28 DEF CreateRun, seq, Born
  <2>4. NewRun(seq) \in RunRecs
    BY <2>2, NewRunShape
  <2>5. Goes([job EXCEPT !.step = "track", !.todo = {r}])
    BY <2>1 DEF Goes, Jobs, Steps
  <2>6. queued' \in BOOLEAN /\ (job' = Idle \/ Goes(job'))
    BY <2>3, <2>5, ReturnType
  <2> QED
    BY <1>28, <2>3, <2>4, <2>6, RunCallShape DEF CreateRun
<1>29. ASSUME CreateRunFails PROVE Shape'
  BY <1>29, ReturnType, AnswerType, ShapeKept DEF CreateRunFails, env
<1> QED
  BY <1>1, <1>2, <1>3, <1>4, <1>5, <1>6, <1>7, <1>8, <1>9, <1>10, <1>11, <1>12, <1>13, <1>14, <1>15, <1>16,
     <1>17, <1>18, <1>19, <1>20, <1>21, <1>22, <1>23, <1>24, <1>25, <1>26, <1>27, <1>28, <1>29 DEF Controller

-----------------------------------------------------------------------------
\* What users and the server do to the suite: trigger it, edit its schedule or
\* delete it.
ClusterSuite(x) ==
  \/ ~Suite.del /\ x = [Suite EXCEPT !.needsRun = TRUE]
  \/ \E sched \in Schedules : x = [Suite EXCEPT !.sched = sched]
  \/ ~Suite.del /\ x = Reaped(Deleted(Suite))

\* What its own controller, users and the server do to a run.
ClusterRun(run, x) ==
  \/ x = [run EXCEPT !.fins = @ \cup {RunFin}]
  \/ \E phase \in {"Passed", "Failed"} : x = [run EXCEPT !.phase = phase] /\ ~run.del /\ ~IsFinal(run.phase)
  \/ run.del /\ x = Reaped(WithFins(run, run.fins \ {RunFin}))
  \/ x = Reaped(Deleted(run))

\* A step of the cluster writes the suite, or one run, or deploys a release.
LEMMA ClusterWrites ==
  ASSUME Shape, Cluster
  PROVE  \/ /\ Exists(Suite)
            /\ \E x \in SuiteRecs : ClusterSuite(x) /\ suiteFeed' = Publish(suiteFeed, x)
            /\ UNCHANGED <<runFeed, queued, wake, now, helm, job, faults, restarts>>
         \/ /\ \E r \in Names, x \in RunRecs :
                 /\ Exists(Runs[r]) /\ ClusterRun(Runs[r], x) /\ PublishRun(r, x)
                 /\ x.seq = Runs[r].seq /\ x.phase # "Unborn"
            /\ UNCHANGED <<suiteFeed, queued, wake, now, helm, job, faults, restarts>>
         \/ /\ helm' \in 0..MaxReleases /\ queued' \in {queued, TRUE}
            /\ UNCHANGED <<suiteFeed, runFeed, wake, now, job, faults, restarts>>
<1>1. Suite \in SuiteRecs /\ \A r \in Names : Runs[r] \in RunRecs
  BY ShapeFacts
<1>2. ASSUME UserTriggers \/ ScheduleEdited \/ SuiteDeleted
      PROVE  /\ Exists(Suite)
             /\ \E x \in SuiteRecs : ClusterSuite(x) /\ suiteFeed' = Publish(suiteFeed, x)
             /\ UNCHANGED <<runFeed, queued, wake, now, helm, job, faults, restarts>>
  <2>1. CASE UserTriggers
    <3>1. [Suite EXCEPT !.needsRun = TRUE] \in SuiteRecs
      BY <1>1, SuiteChanges
    <3> QED
      BY <2>1, <3>1 DEF UserTriggers, Others, ClusterSuite
  <2>2. CASE ScheduleEdited
    <3>1. \A sched \in Schedules : [Suite EXCEPT !.sched = sched] \in SuiteRecs
      BY <1>1, SuiteChanges
    <3> QED
      BY <2>2, <3>1 DEF ScheduleEdited, Others, ClusterSuite
  <2>3. CASE SuiteDeleted
    <3>1. Reaped(Deleted(Suite)) \in SuiteRecs
      BY <1>1, SuiteTypes
    <3> QED
      BY <2>3, <3>1 DEF SuiteDeleted, Others, ClusterSuite, bounds
  <2> QED
    BY <1>2, <2>1, <2>2, <2>3
<1>3. ASSUME NEW r \in Names,
             \/ RunAdopted(r) \/ RunDecided(r, "Passed") \/ RunDecided(r, "Failed")
             \/ RunLetGo(r) \/ RunDeleted(r) \/ RunOrphaned(r)
      PROVE  /\ \E x \in RunRecs :
                  /\ Exists(Runs[r]) /\ ClusterRun(Runs[r], x) /\ PublishRun(r, x)
                  /\ x.seq = Runs[r].seq /\ x.phase # "Unborn"
             /\ UNCHANGED <<suiteFeed, queued, wake, now, helm, job, faults, restarts>>
  <2> DEFINE run == Runs[r]
  <2>1. run \in RunRecs /\ run.fins \cup {RunFin} \in SUBSET {SuiteFin, RunFin}
                        /\ run.fins \ {RunFin} \in SUBSET {SuiteFin, RunFin}
    BY <1>1 DEF RunRecs
  <2>2. /\ UNCHANGED <<suiteFeed, queued, wake, now, helm, job, faults, restarts>>
        /\ Exists(run)
        /\ \E x : ClusterRun(run, x) /\ PublishRun(r, x)
    <3>1. CASE RunAdopted(r)
      BY <3>1 DEF RunAdopted, Others, Live, Listed, ClusterRun
    <3>2. ASSUME NEW phase \in {"Passed", "Failed"}, RunDecided(r, phase)
          PROVE  /\ UNCHANGED <<suiteFeed, queued, wake, now, helm, job, faults, restarts>>
                 /\ Exists(run)
                 /\ \E x : ClusterRun(run, x) /\ PublishRun(r, x)
      BY <3>2 DEF RunDecided, Others, Live, Listed, ClusterRun
    <3>3. CASE RunLetGo(r)
      BY <3>3 DEF RunLetGo, Others, ClusterRun
    <3>4. CASE RunDeleted(r)
      BY <3>4 DEF RunDeleted, Others, Live, Listed, ClusterRun
    <3>5. CASE RunOrphaned(r)
      BY <3>5 DEF RunOrphaned, Others, Live, Listed, ClusterRun
    <3> QED
      BY <1>3, <3>1, <3>2, <3>3, <3>4, <3>5
  <2>3. PICK x : ClusterRun(run, x) /\ PublishRun(r, x)
    BY <2>2
  <2> HIDE DEF run
  <2>4. x \in RunRecs
    <3>1. Deleted(run) \in RunRecs /\ WithFins(run, run.fins \ {RunFin}) \in RunRecs
      BY <2>1, RunTypes
    <3> QED
      BY <2>1, <2>3, <3>1, RunTypes DEF ClusterRun
  <2>5. Exists(run) => x.seq = run.seq /\ x.phase # "Unborn"
    BY <2>1, <2>3 DEF ClusterRun, Deleted, Reaped, WithFins, Exists, RunRecs
  <2> QED
    BY <2>2, <2>3, <2>4, <2>5 DEF run
<1>4. ASSUME ReleaseDeployed
      PROVE  /\ helm' \in 0..MaxReleases /\ queued' \in {queued, TRUE}
             /\ UNCHANGED <<suiteFeed, runFeed, wake, now, job, faults, restarts>>
  <2>1. helm \in Nat /\ helm < MaxReleases /\ helm' = helm + 1 /\ MaxReleases \in Nat
    BY <1>4, Bounds DEF ReleaseDeployed, Shape
  <2>2. helm' \in 0..MaxReleases
    BY <2>1
  <2> QED
    BY <1>4, <2>2 DEF ReleaseDeployed
<1> QED
  BY <1>2, <1>3, <1>4 DEF Cluster

\* The watches, the timer, the clock and a restart.
LEMMA WatchShape ==
  ASSUME Shape, SuiteEvent \/ RunEvent \/ WakeUp \/ Tick \/ Restart
  PROVE  Shape' /\ Suite' = Suite /\ Runs' = Runs
<1>1. CASE SuiteEvent
  <2>1. suiteFeed' \in Seq(SuiteRecs) /\ suiteFeed' # <<>> /\ Suite' = Suite
    BY <1>1, EventStates DEF SuiteEvent, Shape, Suite
  <2> QED
    BY <1>1, <2>1, ShapeKept DEF SuiteEvent, Shape, env, Runs
<1>2. CASE RunEvent
  <2>1. runFeed' \in Seq(RunLists) /\ runFeed' # <<>> /\ Runs' = Runs
    BY <1>2, EventStates DEF RunEvent, Shape, Runs
  <2> QED
    BY <1>2, <2>1, ShapeKept DEF RunEvent, Shape, env, Suite
<1>3. CASE WakeUp
  BY <1>3, ShapeKept, Bounds DEF WakeUp, Shape, env, Suite, Runs
<1>4. CASE Tick
  <2>1. now' \in 0..MaxTime
    BY <1>4, Bounds DEF Tick, Shape
  <2> QED
    BY <1>4, <2>1, ShapeKept DEF Tick, Shape, Suite, Runs
<1>5. CASE Restart
  <2>1. /\ suiteFeed' \in Seq(SuiteRecs) /\ suiteFeed' # <<>> /\ Suite' = Suite
        /\ runFeed' \in Seq(RunLists) /\ runFeed' # <<>> /\ Runs' = Runs
    BY <1>5, ShapeFacts, RestartStates DEF Restart, Suite, Runs
  <2> QED
    BY <1>5, <2>1, ShapeKept, Bounds DEF Restart, Shape
<1> QED
  BY <1>1, <1>2, <1>3, <1>4, <1>5

\* So does every step of the cluster.
LEMMA ClusterShape ==
  ASSUME Shape, Cluster
  PROVE  Shape'
<1>1. CASE /\ \E x \in SuiteRecs : ClusterSuite(x) /\ suiteFeed' = Publish(suiteFeed, x)
           /\ UNCHANGED <<runFeed, queued, wake, now, helm, job, faults, restarts>>
  BY <1>1, SuiteWritten, ShapeKept DEF Shape
<1>2. CASE /\ \E r \in Names, x \in RunRecs : PublishRun(r, x)
           /\ UNCHANGED <<suiteFeed, queued, wake, now, helm, job, faults, restarts>>
  BY <1>2, RunWritten, ShapeKept DEF Shape
<1>3. CASE /\ helm' \in 0..MaxReleases /\ queued' \in {queued, TRUE}
           /\ UNCHANGED <<suiteFeed, runFeed, wake, now, job, faults, restarts>>
  BY <1>3, ShapeKept DEF Shape
<1> QED
  BY <1>1, <1>2, <1>3, ClusterWrites

\* And with it every step.
LEMMA NextShape == Shape /\ [Next]_vars => Shape'
<1>1. ASSUME Shape, UNCHANGED vars PROVE Shape'
  BY <1>1, ShapeKept DEF vars, Shape
<1> QED
  BY <1>1, ControllerShape, WatchShape, ClusterShape DEF Next

\* The first state has it.
LEMMA InitShape == Init => Shape
<1> SUFFICES ASSUME Init PROVE Shape
  OBVIOUS
<1>1. /\ suiteFeed \in Seq(SuiteRecs) /\ suiteFeed # <<>>
  BY NewSuiteShape, RestartStates DEF Init
<1>2. [r \in Names |-> NoRun] \in RunLists
  BY NewRunShape DEF RunLists
<1>3. runFeed \in Seq(RunLists) /\ runFeed # <<>>
  BY <1>2, RestartStates DEF Init
<1> QED
  BY <1>1, <1>3, Bounds DEF Init, Shape

-----------------------------------------------------------------------------
\* What a step can do to the runs: rewrite one without moving it in the order,
\* or create one.
RunRewritten(r, run) ==
  /\ run \in RunRecs /\ PublishRun(r, run) /\ Runs' = [Runs EXCEPT ![r] = run]
  /\ run.seq = Runs[r].seq /\ (run.phase = "Unborn" <=> Runs[r].phase = "Unborn")
RunCreated(r, run) ==
  /\ run = NewRun(1 + Cardinality(Born(Runs)))
  /\ Runs[r].phase = "Unborn" /\ PublishRun(r, run) /\ Runs' = [Runs EXCEPT ![r] = run]
  /\ run \in RunRecs

\* The actions of the controller that leave the runs alone.
OnSuite ==
  \/ Reconcile \/ Done \/ RunsDeleted \/ HistoryEnforced \/ ReleaseSuite \/ EnsureFinalizer
  \/ ClearNextRun \/ DropSchedule \/ NoSchedule \/ Compact \/ RunsReleased
  \/ Focus \/ SetPending \/ SetReady \/ Annotate \/ SetNextRun \/ RejectSchedule
  \/ ResetTrigger \/ AnnotateRelease \/ WaitForNextRun \/ NextRunIsDue \/ NextRunMissed
  \/ SetRunning \/ MissingRun \/ CreateRunFails \/ TrackRun \/ FinishRun

\* They do.
LEMMA OnSuiteKeepsRuns ==
  ASSUME OnSuite
  PROVE  runFeed' = runFeed /\ Runs' = Runs
<1>1. runFeed' = runFeed
  BY DEF OnSuite, Reconcile, Done, RunsDeleted, HistoryEnforced, ReleaseSuite, EnsureFinalizer,
     ClearNextRun, DropSchedule, NoSchedule, Compact, RunsReleased,
     Focus, SetPending, SetReady, Annotate, SetNextRun, RejectSchedule,
     ResetTrigger, AnnotateRelease, WaitForNextRun, NextRunIsDue, NextRunMissed,
     SetRunning, MissingRun, CreateRunFails, TrackRun, FinishRun, PatchSuite, TryPatchSuite, Locally
<1> QED
  BY <1>1 DEF Runs

\* CreateRun brings one run into being, in the next place of the order.
LEMMA RunCreates ==
  ASSUME Shape, CreateRun
  PROVE  \E r \in Names : \E run : RunCreated(r, run)
<1> DEFINE seq == 1 + Cardinality(Born(Runs))
<1>1. seq \in Nat
  BY BornFinite
<1> HIDE DEF seq
<1>2. PICK r \in Names : PublishRun(r, NewRun(seq)) /\ Runs[r].phase = "Unborn"
  BY DEF CreateRun, seq, Born
<1>3. NewRun(seq) \in RunRecs
  BY <1>1, NewRunShape
<1>4. Runs' = [Runs EXCEPT ![r] = NewRun(seq)]
  BY <1>2, <1>3, RunWritten
<1> QED
  BY <1>2, <1>3, <1>4 DEF RunCreated, seq

\* The controller rewrites one run, creates one, or leaves them alone.
LEMMA ControllerRuns ==
  ASSUME Shape, Controller
  PROVE  \/ OnSuite /\ Runs' = Runs
         \/ NilSchedule /\ Runs' = Runs
         \/ \E r \in Names : \E run : (CleanUpRun(r) \/ ReleaseRun(r)) /\ RunRewritten(r, run)
         \/ CreateRun /\ \E r \in Names : \E run : RunCreated(r, run)
<1>1. ASSUME NEW r \in Names, CleanUpRun(r) PROVE \E run : RunRewritten(r, run)
  <2>1. Working /\ Goes(job)
    BY <1>1, StepWorks DEF CleanUpRun
  <2>2. Runs[r] \in RunRecs /\ job.runs[r] \in RunRecs
    BY <2>1, ShapeFacts, JobFacts
  <2>3. PICK out \in cleanUp(job.runs[r], Runs[r], SuiteFin, "Resource") : PublishRun(r, out.obj)
    BY <1>1, AnswersAre DEF CleanUpRun
  <2>4. out.obj \in RunRecs /\ out.obj.seq = Runs[r].seq /\ (out.obj.phase = "Unborn" <=> Runs[r].phase = "Unborn")
    BY <2>2, RunAnswers
  <2>5. Runs' = [Runs EXCEPT ![r] = out.obj]
    BY <2>3, <2>4, RunWritten
  <2> QED
    BY <2>3, <2>4, <2>5 DEF RunRewritten
<1>2. ASSUME NEW r \in Names, ReleaseRun(r) PROVE \E run : RunRewritten(r, run)
  <2>1. Working /\ Goes(job)
    BY <1>2, StepWorks DEF ReleaseRun
  <2>2. Runs[r] \in RunRecs /\ job.runs[r] \in RunRecs
    BY <2>1, ShapeFacts, JobFacts
  <2>3. PICK out \in removeFinalizer(job.runs[r], Runs[r], SuiteFin, "Resource") : PublishRun(r, out.obj)
    BY <1>2, AnswersAre DEF ReleaseRun
  <2>4. out.obj \in RunRecs /\ out.obj.seq = Runs[r].seq /\ (out.obj.phase = "Unborn" <=> Runs[r].phase = "Unborn")
    BY <2>2, RunAnswers
  <2>5. Runs' = [Runs EXCEPT ![r] = out.obj]
    BY <2>3, <2>4, RunWritten
  <2> QED
    BY <2>3, <2>4, <2>5 DEF RunRewritten
<1>3. ASSUME CreateRun PROVE \E r \in Names : \E run : RunCreated(r, run)
  BY <1>3, RunCreates
<1>4. ASSUME NilSchedule PROVE Runs' = Runs
  BY <1>4, ShapeFacts, RestartStates DEF NilSchedule, Runs
<1> QED
  BY <1>1, <1>2, <1>3, <1>4, OnSuiteKeepsRuns DEF Controller, OnSuite

\* And so does every step.
LEMMA RunSteps ==
  ASSUME Shape, [Next]_vars
  PROVE  \/ Runs' = Runs
         \/ \E r \in Names : \E run : RunRewritten(r, run)
         \/ \E r \in Names : \E run : RunCreated(r, run)
<1>1. CASE Controller
  BY <1>1, ControllerRuns
<1>2. CASE SuiteEvent \/ RunEvent \/ WakeUp \/ Tick \/ Restart
  BY <1>2, WatchShape
<1>3. CASE Cluster
  <2>1. CASE runFeed' = runFeed
    BY <2>1 DEF Runs
  <2>2. CASE \E r \in Names, x \in RunRecs :
               /\ Exists(Runs[r]) /\ PublishRun(r, x) /\ x.seq = Runs[r].seq /\ x.phase # "Unborn"
    <3>1. PICK r \in Names, x \in RunRecs :
               /\ Exists(Runs[r]) /\ PublishRun(r, x) /\ x.seq = Runs[r].seq /\ x.phase # "Unborn"
      BY <2>2
    <3>2. Runs' = [Runs EXCEPT ![r] = x]
      BY <3>1, RunWritten
    <3> QED
      BY <3>1, <3>2 DEF RunRewritten, Exists
  <2> QED
    BY <1>3, <2>1, <2>2, ClusterWrites
<1>4. CASE UNCHANGED vars
  BY <1>4 DEF vars, Runs
<1> QED
  BY <1>1, <1>2, <1>3, <1>4 DEF Next

\* A new run gets a place after all others, so no two share one.
LEMMA NextOrdered ==
  ASSUME Shape, Ordered, [Next]_vars
  PROVE  Ordered'
<1>1. Runs \in RunLists
  BY ShapeFacts
<1>2. CASE Runs' = Runs
  BY <1>2 DEF Ordered
<1>3. ASSUME NEW r \in Names, NEW run, RunRewritten(r, run) PROVE Ordered'
  <2>1. /\ \A q \in Names : Runs'[q].seq = Runs[q].seq /\ (Runs'[q].phase = "Unborn" <=> Runs[q].phase = "Unborn")
    BY <1>1, <1>3 DEF RunRewritten, RunLists
  <2>2. Born(Runs') = Born(Runs)
    BY <2>1 DEF Born
  <2>3. Born(Runs) \subseteq Names
    BY DEF Born
  <2> QED
    BY <2>1, <2>2, <2>3 DEF Ordered
<1>4. ASSUME NEW r \in Names, NEW run, RunCreated(r, run) PROVE Ordered'
  <2> DEFINE n == Cardinality(Born(Runs))
  <2>1. IsFiniteSet(Born(Runs)) /\ n \in Nat /\ r \notin Born(Runs) /\ Born(Runs) \subseteq Names
    BY <1>4, BornFinite DEF Born, RunCreated
  <2>2. run.seq = 1 + n /\ run.phase # "Unborn"
    <3>1. run.seq = 1 + n
      BY <1>4, Zenon DEF RunCreated, NewRun
    <3>2. Exists(run)
      BY <1>4, <2>1, NewRunShape DEF RunCreated
    <3> QED
      BY <3>1, <3>2 DEF Exists
  <2>3. /\ Runs'[r] = run
        /\ \A q \in Names : q # r => Runs'[q] = Runs[q]
    BY <1>1, <1>4 DEF RunCreated, RunLists
  <2>4. Born(Runs') = Born(Runs) \cup {r}
    BY <2>1, <2>2, <2>3 DEF Born
  <2>5. Cardinality(Born(Runs')) = n + 1
    BY <2>1, <2>4, FS_AddElement
  <2>6. \A q \in Born(Runs) : Runs'[q] = Runs[q] /\ Runs[q].seq \in 1..n
    BY <2>1, <2>3 DEF Ordered
  <2>7. Runs'[r].seq = n + 1
    BY <2>1, <2>2, <2>3
  <2> HIDE DEF n
  <2>8. \A q \in Born(Runs') : Runs'[q].seq \in 1..(n + 1)
    BY <2>1, <2>4, <2>6, <2>7
  <2>9. \A q, p \in Born(Runs') : Runs'[q].seq = Runs'[p].seq => q = p
    BY <2>1, <2>4, <2>6, <2>7 DEF Ordered
  <2> QED
    BY <2>5, <2>8, <2>9 DEF Ordered
<1> QED
  BY <1>2, <1>3, <1>4, RunSteps

\* There are no runs at first.
LEMMA InitOrdered == Init => Ordered
<1> SUFFICES ASSUME Init PROVE Ordered
  OBVIOUS
<1>1. Runs = [r \in Names |-> NoRun]
  BY DEF Init, Runs, Stored
<1>2. Born(Runs) = {}
  BY <1>1 DEF Born, NoRun
<1> QED
  BY <1>2 DEF Ordered

\* The inductive invariant of type correctness.
LEMMA ShapeInvariant == Spec => [](Shape /\ Ordered)
<1>1. Init => Shape /\ Ordered
  BY InitShape, InitOrdered
<1>2. Shape /\ Ordered /\ [Next]_vars => Shape' /\ Ordered'
  BY NextShape, NextOrdered
<1> QED
  BY <1>1, <1>2, PTL DEF Spec

\* Whatever is edited, deleted, lost or restarted, every variable keeps the
\* shape the code gives it, and no two runs of the suite have the same place in
\* the order of creation by which the oldest are found.
THEOREM TypeCorrect == Spec => []TypeOK
<1>1. ASSUME Shape, Ordered PROVE TypeOK
  <2>1. Working => job.suite \in SuiteRecs /\ job.runs \in RunLists /\ job.todo \subseteq Names
    BY <1>1, ShapeFacts, JobFacts
  <2>2. \A r, q \in Listed(Runs) : Runs[r].seq = Runs[q].seq => r = q
    <3>1. Listed(Runs) \subseteq Born(Runs)
      BY DEF Listed, Born, Exists
    <3> QED
      BY <1>1, <3>1 DEF Ordered
  <2> QED
    BY <1>1, <2>1, <2>2, Shapes DEF TypeOK, Shape, RunLists
<1> QED
  BY <1>1, ShapeInvariant, PTL

-----------------------------------------------------------------------------
(***************************************************************************)
(* A patch never takes back what others did: it changes only the fields    *)
(* the reconcile changed in its copy, because a patch made from an older   *)
(* copy than the last reply carries the version of the suite.              *)
(***************************************************************************)
LEMMA PatchKeeps ==
  ASSUME Shape, Working, NEW new \in SuiteRecs, NEW out \in PatchAnswers(new)
  PROVE  /\ new.phase = job.suite.phase => out.obj.phase = Suite.phase
         /\ new.current = job.suite.current => out.obj.current = Suite.current
         /\ new.needsRun = job.suite.needsRun => out.obj.needsRun = Suite.needsRun
         /\ new.sched = job.suite.sched => out.obj.sched = Suite.sched
         /\ new.del = job.suite.del => out.obj.del = Suite.del
         /\ new.fins = job.suite.fins => out.obj.fins = Suite.fins
         /\ out.obj.phase \in {Suite.phase, new.phase}
         /\ out.obj.current \in {Suite.current, new.current}
         /\ out.obj.needsRun \in {Suite.needsRun, new.needsRun}
         /\ ~Exists(Suite) => out.obj = Suite
<1>1. Suite \in SuiteRecs /\ job.base \in SuiteRecs /\ job.suite \in SuiteRecs
  BY ShapeFacts, JobFacts
<1> DEFINE merged == Merged(Suite, job.base, new)
<1>2. out.obj \in {Suite, merged} /\ (~Exists(Suite) => out.obj = Suite)
  BY <1>1, SuiteAnswers
<1>3. CASE out.obj = Suite
  BY <1>3
<1>4. CASE out.obj # Suite
  <2>1. Exists(Suite) /\ out.obj = merged
    BY <1>2, <1>4
  <2>2. job.base = job.suite \/ Suite = job.suite
    BY <1>4, <2>1, AnswersAre DEF PatchAnswers
  <2> HIDE DEF merged
  <2>3. /\ merged.phase = Taken(Suite.phase, job.base.phase, new.phase)
        /\ merged.current = Taken(Suite.current, job.base.current, new.current)
        /\ merged.needsRun = Taken(Suite.needsRun, job.base.needsRun, new.needsRun)
        /\ merged.sched = Taken(Suite.sched, job.base.sched, new.sched)
        /\ merged.del = Taken(Suite.del, job.base.del, new.del)
        /\ merged.fins = Taken(Suite.fins, job.base.fins, new.fins)
    BY <1>1, <2>1, MergedFields DEF merged
  <2> QED
    BY <2>1, <2>2, <2>3 DEF Taken
<1> QED
  BY <1>3, <1>4

\* A reconcile's patch changes neither the schedule, the deletion nor the
\* finalizers of the suite.
Revised(new, out) ==
  /\ Working
  /\ new \in SuiteRecs /\ out \in PatchAnswers(new) /\ Suite' = out.obj
  /\ new.sched = job.suite.sched /\ new.del = job.suite.del /\ new.fins = job.suite.fins

\* What the controller can do to the suite: nothing, patch it, or add or give up
\* the finalizer.
LEMMA SuiteSteps ==
  ASSUME Shape, Controller
  PROVE  \/ Suite' = Suite
         \/ \E new, out : Revised(new, out)
         \/ ReleaseSuite \/ EnsureFinalizer
<1> USE DEF Shape
<1>1. ASSUME Reconcile \/ Done \/ RunsDeleted \/ HistoryEnforced \/ Compact \/ RunsReleased \/ WaitForNextRun
               \/ NextRunIsDue \/ MissingRun \/ CreateRun \/ CreateRunFails
               \/ \E r \in Names : CleanUpRun(r) \/ ReleaseRun(r)
      PROVE  Suite' = Suite
  <2>1. suiteFeed' = suiteFeed
    BY <1>1 DEF Reconcile, Done, RunsDeleted, HistoryEnforced, Compact, RunsReleased, WaitForNextRun,
       NextRunIsDue, MissingRun, CreateRun, CreateRunFails, CleanUpRun, ReleaseRun, Locally
  <2> QED
    BY <2>1 DEF Suite
<1>2. ASSUME NilSchedule PROVE Suite' = Suite
  BY <1>2, ShapeFacts, RestartStates DEF NilSchedule, Suite
<1>3. ASSUME NEW new, NEW out, Working, SuitePatched(new, out), new \in SuiteRecs,
             new.sched = job.suite.sched, new.del = job.suite.del, new.fins = job.suite.fins
      PROVE  Revised(new, out)
  BY <1>3, PatchedShape DEF SuitePatched, Revised
<1>4. ASSUME NEW suite \in SuiteRecs
      PROVE  /\ \A x \in {"Pending", "Ready", "Running"} :
                  LET new == [suite EXCEPT !.phase = x]
                  IN  new \in SuiteRecs /\ new.sched = suite.sched /\ new.del = suite.del /\ new.fins = suite.fins
             /\ \A x \in {"Pending", "Ready", "Running"}, r \in Names \cup {None} :
                  LET new == [suite EXCEPT !.phase = x, !.current = r]
                  IN  new \in SuiteRecs /\ new.sched = suite.sched /\ new.del = suite.del /\ new.fins = suite.fins
             /\ \A r \in Names \cup {None} :
                  LET new == [suite EXCEPT !.current = r]
                  IN  new \in SuiteRecs /\ new.sched = suite.sched /\ new.del = suite.del /\ new.fins = suite.fins
             /\ \A t \in Int :
                  LET new == [suite EXCEPT !.nextRun = t]
                  IN  new \in SuiteRecs /\ new.sched = suite.sched /\ new.del = suite.del /\ new.fins = suite.fins
             /\ \A x \in Schedules \cup {0} :
                  LET new == [suite EXCEPT !.annotated = x]
                  IN  new \in SuiteRecs /\ new.sched = suite.sched /\ new.del = suite.del /\ new.fins = suite.fins
             /\ LET new == [suite EXCEPT !.needsRun = FALSE]
                IN  new \in SuiteRecs /\ new.sched = suite.sched /\ new.del = suite.del /\ new.fins = suite.fins
             /\ LET new == [suite EXCEPT !.lastHelm = 0]
                IN  new \in SuiteRecs /\ new.sched = suite.sched /\ new.del = suite.del /\ new.fins = suite.fins
  BY Phases DEF SuiteRecs
<1>5. Working => /\ job.suite \in SuiteRecs /\ job.suite.sched \in Schedules /\ job.todo \subseteq Names
                 /\ job.when \in Schedules \cup {0}
  BY ShapeFacts, JobFacts DEF SuiteRecs
<1> DEFINE Goal == \E new, out : Revised(new, out)
<1>6. ASSUME ClearNextRun \/ RejectSchedule \/ NoSchedule PROVE Goal
  <2>1. Working
    BY <1>6 DEF Working, ClearNextRun, RejectSchedule, NoSchedule
  <2>2. \E out : SuitePatched([job.suite EXCEPT !.nextRun = None], out)
    BY <1>6 DEF ClearNextRun, RejectSchedule, NoSchedule, PatchSuite, TryPatchSuite, SuitePatched
  <2> QED
    BY <1>3, <1>4, <1>5, <2>1, <2>2, Bounds
<1>7. ASSUME DropSchedule PROVE Goal
  <2>1. Working /\ \E out : SuitePatched([job.suite EXCEPT !.annotated = 0], out)
    BY <1>7 DEF Working, DropSchedule, PatchSuite, SuitePatched
  <2> QED
    BY <1>3, <1>4, <1>5, <2>1
<1>8. ASSUME Focus PROVE Goal
  <2>1. Working /\ \E r \in job.todo : \E out : SuitePatched([job.suite EXCEPT !.phase = "Running", !.current = r], out)
    BY <1>8 DEF Working, Focus, PatchSuite, SuitePatched
  <2> QED
    BY <1>3, <1>4, <1>5, <2>1
<1>9. ASSUME SetPending \/ SetReady PROVE Goal
  <2>1. Working /\ \E x \in {"Pending", "Ready"} : \E out : SuitePatched([job.suite EXCEPT !.phase = x], out)
    BY <1>9 DEF Working, SetPending, SetReady, PatchSuite, SuitePatched
  <2>2. PICK x \in {"Pending", "Ready"} : \E out : SuitePatched([job.suite EXCEPT !.phase = x], out)
    BY <2>1
  <2> DEFINE new == [job.suite EXCEPT !.phase = x]
  <2>3. new \in SuiteRecs /\ new.sched = job.suite.sched /\ new.del = job.suite.del /\ new.fins = job.suite.fins
    BY <1>5, <2>1, Phases DEF SuiteRecs
  <2> HIDE DEF new
  <2>4. PICK out : SuitePatched(new, out)
    BY <2>2 DEF new
  <2> QED
    BY <1>3, <2>1, <2>3, <2>4
<1>10. ASSUME Annotate PROVE Goal
  <2>1. Working /\ \E out : SuitePatched([job.suite EXCEPT !.annotated = job.suite.sched], out)
    BY <1>10 DEF Working, Annotate, PatchSuite, SuitePatched
  <2> QED
    BY <1>3, <1>4, <1>5, <2>1
<1>11. ASSUME SetNextRun \/ NextRunMissed PROVE Goal
  <2> DEFINE next == NextTime(job.when, now)
  <2>1. Working /\ \E out : SuitePatched([job.suite EXCEPT !.nextRun = next], out)
    BY <1>11 DEF Working, SetNextRun, NextRunMissed, PatchSuite, SuitePatched
  <2>2. job.when # 0
    BY <1>11, <2>1, ShapeFacts DEF SetNextRun, NextRunMissed, Goes
  <2>3. next \in Int
    BY <1>5, <2>1, <2>2, NextTimeType
  <2> HIDE DEF next
  <2> DEFINE new == [job.suite EXCEPT !.nextRun = next]
  <2>4. new \in SuiteRecs /\ new.sched = job.suite.sched /\ new.del = job.suite.del /\ new.fins = job.suite.fins
    BY <1>5, <2>1, <2>3 DEF SuiteRecs
  <2> HIDE DEF new
  <2>5. \E out : SuitePatched(new, out)
    BY <2>1 DEF new
  <2> QED
    BY <1>3, <2>1, <2>4, <2>5
<1>12. ASSUME ResetTrigger \/ AnnotateRelease PROVE Goal
  <2>1. CASE ResetTrigger
    <3>1. Working /\ \E out : SuitePatched([job.suite EXCEPT !.needsRun = FALSE], out)
      BY <2>1 DEF Working, ResetTrigger, PatchSuite, SuitePatched
    <3> QED
      BY <1>3, <1>4, <1>5, <3>1
  <2>2. CASE AnnotateRelease
    <3>1. Working /\ \E out : SuitePatched([job.suite EXCEPT !.lastHelm = 0], out)
      BY <2>2 DEF Working, AnnotateRelease, PatchSuite, SuitePatched
    <3> QED
      BY <1>3, <1>4, <1>5, <3>1
  <2> QED
    BY <1>12, <2>1, <2>2
<1>13. ASSUME TrackRun PROVE Goal
  <2>1. Working /\ \E r \in job.todo : \E out : SuitePatched([job.suite EXCEPT !.current = r], out)
    BY <1>13 DEF Working, TrackRun, PatchSuite, SuitePatched
  <2> QED
    BY <1>3, <1>4, <1>5, <2>1
<1>14. ASSUME FinishRun PROVE Goal
  <2>1. Working /\ \E out : SuitePatched([job.suite EXCEPT !.phase = "Ready", !.current = None], out)
    BY <1>14 DEF Working, FinishRun, PatchSuite, SuitePatched
  <2> QED
    BY <1>3, <1>4, <1>5, <2>1
<1>15. ASSUME SetRunning PROVE Goal
  <2> DEFINE new == [job.suite EXCEPT !.phase = "Running", !.current = None]
  <2>1. Working /\ \E out \in PatchAnswers(new) : suiteFeed' = Publish(suiteFeed, out.obj)
    BY <1>15 DEF Working, SetRunning
  <2>2. new \in SuiteRecs /\ new.sched = job.suite.sched /\ new.del = job.suite.del /\ new.fins = job.suite.fins
    BY <1>4, <1>5, <2>1
  <2> HIDE DEF new
  <2>3. \A out \in PatchAnswers(new) : out.obj \in SuiteRecs
    BY <2>1, <2>2, ShapeFacts, JobFacts, SuiteAnswers
  <2> QED
    BY <2>1, <2>2, <2>3, SuiteWritten DEF Revised
<1> QED
  BY <1>1, <1>2, <1>6, <1>7, <1>8, <1>9, <1>10, <1>11, <1>12, <1>13, <1>14, <1>15 DEF Controller

\* A deleted suite stays until the controller lets go of it.
DeletedHeld == Exists(Suite) /\ Suite.del => SuiteFin \in Suite.fins

\* A suite is deleted with its finalizer or disappears, and loses it only as it
\* goes.
LEMMA NextDeletedHeld ==
  ASSUME Shape, DeletedHeld, [Next]_vars
  PROVE  DeletedHeld'
<1>1. Suite \in SuiteRecs
  BY ShapeFacts
<1>2. CASE Suite' = Suite
  BY <1>2 DEF DeletedHeld
<1>3. ASSUME NEW new, NEW out, Revised(new, out) PROVE DeletedHeld'
  BY <1>3, PatchKeeps DEF DeletedHeld, Revised
<1>4. CASE ReleaseSuite
  <2>1. Working /\ job.suite \in SuiteRecs
    BY <1>4, StepWorks, JobFacts DEF ReleaseSuite
  <2>2. PICK out \in cleanUp(job.suite, Suite, SuiteFin, "Resource") : suiteFeed' = Publish(suiteFeed, out.obj)
    BY <1>4, AnswersAre DEF ReleaseSuite
  <2> QED
    BY <1>1, <2>1, <2>2, SuiteWritten, CleanUpAnswers DEF DeletedHeld
<1>5. CASE EnsureFinalizer
  <2>1. Working /\ job.suite \in SuiteRecs
    BY <1>5, StepWorks, JobFacts DEF EnsureFinalizer
  <2>2. PICK out \in addFinalizer(job.suite, Suite, SuiteFin, "Resource") : suiteFeed' = Publish(suiteFeed, out.obj)
    BY <1>5, AnswersAre DEF EnsureFinalizer
  <2>3. out.obj \in SuiteRecs /\ (out.obj = Suite \/ SuiteFin \in out.obj.fins)
    BY <1>1, <2>1, AddAnswers
  <2>4. Suite' = out.obj
    BY <2>2, <2>3, SuiteWritten
  <2> QED
    BY <2>3, <2>4 DEF DeletedHeld
<1>6. CASE Cluster
  <2>1. CASE \E x \in SuiteRecs : ClusterSuite(x) /\ suiteFeed' = Publish(suiteFeed, x)
    <3>1. PICK x \in SuiteRecs : ClusterSuite(x) /\ suiteFeed' = Publish(suiteFeed, x)
      BY <2>1
    <3>2. Suite' = x
      BY <3>1, SuiteWritten
    <3>3. Exists(x) /\ x.del => SuiteFin \in x.fins
      BY <1>1, <3>1 DEF ClusterSuite, DeletedHeld, Exists, SuiteRecs, Reaped, Deleted
    <3> QED
      BY <3>2, <3>3 DEF DeletedHeld
  <2>2. CASE suiteFeed' = suiteFeed
    BY <1>2, <2>2 DEF Suite
  <2> QED
    BY <1>6, <2>1, <2>2, ClusterWrites
<1>7. CASE UNCHANGED vars
  BY <1>2, <1>7 DEF vars, Suite
<1> QED
  BY <1>2, <1>3, <1>4, <1>5, <1>6, <1>7, SuiteSteps, WatchShape DEF Next

\* A new suite is not deleted.
LEMMA InitDeletedHeld == Init => DeletedHeld
  BY NewSuiteShape DEF Init, DeletedHeld, Suite, Stored

-----------------------------------------------------------------------------
\* A set of runs that is not empty has an oldest.
LEMMA Oldest ==
  ASSUME NEW runs \in RunLists, NEW rs \in SUBSET Names, rs # {}
  PROVE  \E r \in rs : Before(runs, rs, r) = {}
<1> DEFINE seqs == {runs[r].seq : r \in rs}
           less == OpToRel(<, Nat)
<1>1. seqs \subseteq Nat /\ seqs # {}
  BY DEF RunLists, RunRecs
<1>2. \A x, y \in Nat : x < y => <<x, y>> \in less
  BY DEF OpToRel
<1>3. IsWellFoundedOn(less, Nat)
  BY NatLessThanWellFounded
<1> HIDE DEF less
<1>4. PICK x \in seqs : \A y \in seqs : ~(<<y, x>> \in less)
  <2> HIDE DEF seqs
  <2> QED
    BY <1>1, <1>3, WFMin
<1>5. PICK r \in rs : runs[r].seq = x
  OBVIOUS
<1>6. \A q \in rs : ~(runs[q].seq < runs[r].seq)
  BY <1>1, <1>2, <1>4, <1>5
<1> QED
  BY <1>6 DEF Before

\* If none of the runs is beyond the limit there are no more than the limit.
LEMMA LimitKept ==
  ASSUME NEW runs \in RunLists, Old(runs) = {}
  PROVE  Cardinality(Live(runs)) <= HistoryLimit
<1>1. Live(runs) \in SUBSET Names
  BY ListedTypes
<1>2. IsFiniteSet(Live(runs)) /\ Cardinality(Live(runs)) \in Nat /\ HistoryLimit \in Nat
  BY <1>1, Bounds, FS_Subset, FS_CardinalityType
<1>3. CASE Live(runs) = {}
  <2>1. Cardinality(Live(runs)) = 0
    BY <1>3, FS_EmptySet
  <2> QED
    BY <1>2, <2>1
<1>4. CASE Live(runs) # {}
  <2>1. PICK r \in Live(runs) : Before(runs, Live(runs), r) = {}
    BY <1>1, <1>4, Oldest
  <2>2. Cardinality(Before(runs, Live(runs), r)) = 0
    BY <2>1, FS_EmptySet
  <2>3. ~(Cardinality(Live(runs)) - 0 > HistoryLimit)
    BY <2>2 DEF Old
  <2> QED
    BY <1>2, <2>3
<1> QED
  BY <1>3, <1>4

-----------------------------------------------------------------------------
(***************************************************************************)
(* Convergence, with caches of any age.  Nothing is queued and no event is *)
(* under way only if nothing changed since the reconcile in progress read  *)
(* its copies, so its runs are the server's and its suite is, but for the  *)
(* next run; and one that could not do what it should has an error to      *)
(* return.                                                                 *)
(***************************************************************************)
Calm == ~queued /\ Fresh(suiteFeed) /\ Fresh(runFeed)

\* The two agree in all but the next run.
Alike(copy, suite) ==
  /\ copy.phase = suite.phase /\ copy.current = suite.current
  /\ copy.needsRun = suite.needsRun /\ copy.sched = suite.sched
  /\ copy.annotated = suite.annotated /\ copy.lastHelm = suite.lastHelm
  /\ copy.del = suite.del /\ copy.fins = suite.fins

LetGo(run) == run.del /\ SuiteFin \notin run.fins

\* If runs are being deleted the controller has let go of one.
OneReleased(runs) ==
  Listed(runs) # Live(runs) => \E r \in Listed(runs) \ Live(runs) : SuiteFin \notin runs[r].fins

Resting == Quiet \cup {"trigger"}

\* What a calm reconcile j knows of the suite,
CalmSuite(j, suite) ==
  /\ Exists(suite) /\ Alike(j.suite, suite) /\ Alike(j.base, suite)
  /\ j.step \in {"delete", "release"} => suite.del
  /\ j.step \notin {"delete", "release"} => ~suite.del
  /\ j.step = "finalizer" => SuiteFin \notin suite.fins
  /\ j.step \notin {"delete", "release", "finalizer"} => SuiteFin \in suite.fins

\* of its runs,
CalmRuns(j, runs) ==
  /\ j.runs = runs
  /\ j.step = "delete" => Listed(runs) # {} /\ (j.err \/ \A r \in Listed(runs) \ j.todo : LetGo(runs[r]))
  /\ j.step = "release" => Listed(runs) = {}
  /\ j.step = "compact" => Listed(runs) # Live(runs)
  /\ j.step = "releaseRuns" =>
       /\ j.todo \subseteq {r \in Listed(runs) : SuiteFin \in runs[r].fins}
       /\ j.todo = {} => OneReleased(runs)
  /\ j.step \in Late \cup {"trigger"} => OneReleased(runs)
  /\ j.step # "track"

\* and of what is left to do.
CalmPhase(j, suite, runs) ==
  /\ j.step = "focus" => suite.phase # "Running"
  /\ j.step \in {"pending", "ready", "history"} \cup Resting => Unfinished(runs) = {}
  /\ j.step \in {"history"} \cup Resting => suite.phase = "Ready"
  /\ j.step = "history" => j.todo \subseteq Live(runs) /\ (j.err \/ Old(runs) \subseteq j.todo)
  /\ j.step \in Resting => Old(runs) = {}
  /\ j.step = "due" => ~suite.needsRun
  /\ j.step = "done" => AtRest(suite, runs)
  /\ j.step = "finish" => suite.phase = "Running"

Attends(j, suite, runs) == CalmSuite(j, suite) /\ CalmRuns(j, runs) /\ CalmPhase(j, suite, runs)

Attentive ==
  /\ Converged /\ DeletionGoesOn
  /\ Working /\ Calm => Attends(job, Suite, Runs)

\* A step that queues the key, or leaves an event under way, has nothing to
\* show for.
LEMMA DisturbedAttentive ==
  ASSUME ~Calm'
  PROVE  Attentive'
  BY DEF Attentive, Converged, DeletionGoesOn, Quiescent, Calm

\* Nor has one that goes on.
LEMMA OngoingAttentive ==
  ASSUME Goes(job'), Calm' => Attends(job', Suite', Runs')
  PROVE  Attentive'
<1>1. job'.step # "idle"
  BY JobFacts
<1> QED
  BY <1>1 DEF Attentive, Converged, DeletionGoesOn, Quiescent, Working

\* A suite that is at rest has converged.
LEMMA RestingAttentive ==
  ASSUME Shape, job' = Idle, Suite' = Suite, Runs' = Runs,
         ~Suite.del, SuiteFin \in Suite.fins, OneReleased(Runs), AtRest(Suite, Runs)
  PROVE  Attentive'
<1>1. Runs \in RunLists
  BY ShapeFacts
<1>2. Old(Runs) = {} => Cardinality(Live(Runs)) <= HistoryLimit
  BY <1>1, LimitKept
<1>3. \/ Suite'.phase = "Running" /\ Suite'.current \in Unfinished(Runs')
      \/ /\ Suite'.phase = "Ready" /\ Unfinished(Runs') = {} /\ ~Suite'.needsRun
         /\ Cardinality(Live(Runs')) <= HistoryLimit
  BY <1>2 DEF AtRest
<1>4. Converged'
  BY <1>3 DEF Converged, OneReleased
<1>5. DeletionGoesOn' /\ ~Working'
  BY DEF DeletionGoesOn, Working, Idle
<1> QED
  BY <1>4, <1>5 DEF Attentive

\* A calm patch that the server accepted changed nothing it had not already.
LEMMA CalmPatch ==
  ASSUME Shape, Working, CalmSuite(job, Suite), NEW new \in SuiteRecs, NEW out, SuitePatched(new, out), Calm'
  PROVE  /\ Fresh(suiteFeed) /\ Fresh(runFeed) /\ Suite' = Suite /\ Runs' = Runs /\ out.obj = Suite
         /\ out.res = "OK" => Alike(new, Suite)
<1>1. /\ Fresh(suiteFeed) /\ Fresh(runFeed) /\ Suite' = Suite /\ Runs' = Runs /\ out.obj = Suite
  BY PatchedShape DEF Calm
<1>2. ASSUME out.res = "OK" PROVE Alike(new, Suite)
  <2>1. Suite \in SuiteRecs /\ job.base \in SuiteRecs
    BY ShapeFacts, JobFacts
  <2>2. Suite = Merged(Suite, job.base, new) /\ Exists(Suite)
    BY <1>1, <1>2, <2>1, SuiteAnswers DEF SuitePatched
  <2> DEFINE merged == Merged(Suite, job.base, new)
  <2>3. /\ merged.phase = Taken(Suite.phase, job.base.phase, new.phase)
        /\ merged.current = Taken(Suite.current, job.base.current, new.current)
        /\ merged.needsRun = Taken(Suite.needsRun, job.base.needsRun, new.needsRun)
        /\ merged.sched = Taken(Suite.sched, job.base.sched, new.sched)
        /\ merged.annotated = Taken(Suite.annotated, job.base.annotated, new.annotated)
        /\ merged.lastHelm = Taken(Suite.lastHelm, job.base.lastHelm, new.lastHelm)
        /\ merged.del = Taken(Suite.del, job.base.del, new.del)
        /\ merged.fins = Taken(Suite.fins, job.base.fins, new.fins)
    BY <2>1, <2>2, MergedFields
  <2>4. merged = Suite
    BY <2>2
  <2> HIDE DEF merged
  <2> QED
    BY <2>3, <2>4 DEF Taken, Alike, CalmSuite
<1> QED
  BY <1>1, <1>2

\* A patch the reconcile goes on after, by what it goes on with.
LEMMA ProceedingAttentive ==
  ASSUME Shape, Attentive, Working, NEW new \in SuiteRecs, NEW out, NEW j, Proceeding(new, out, j),
         out.res = "OK" => Goes(j),
         /\ Calm' /\ Attends(job, Suite, Runs) /\ out.res = "OK" /\ out.obj = Suite /\ Alike(new, Suite)
         => Attends(j, Suite, Runs)
  PROVE  Attentive'
<1>1. CASE ~Calm'
  BY <1>1, DisturbedAttentive
<1>2. CASE Calm'
  <2>1. out.res = "OK" /\ job' = j /\ ~queued
    BY <1>2 DEF Proceeding, Return, Calm, Shape
  <2>2. SuitePatched(new, out)
    BY DEF Proceeding
  <2>3. Fresh(suiteFeed) /\ Fresh(runFeed)
    BY <1>2, <2>2, PatchedShape DEF Calm
  <2>4. Attends(job, Suite, Runs)
    BY <2>1, <2>3 DEF Attentive, Calm
  <2>5. Suite' = Suite /\ Runs' = Runs /\ out.obj = Suite /\ Alike(new, Suite)
    BY <1>2, <2>1, <2>2, <2>4, CalmPatch DEF Attends
  <2> QED
    BY <1>2, <2>1, <2>4, <2>5, OngoingAttentive
<1> QED
  BY <1>1, <1>2

\* Likewise for one it goes on after in any case.
LEMMA TryingAttentive ==
  ASSUME Shape, Attentive, Working, NEW new \in SuiteRecs, NEW out, NEW j, Trying(new, out, j), Goes(j),
         /\ Calm' /\ Attends(job, Suite, Runs) /\ out.obj = Suite /\ (out.res = "OK" => Alike(new, Suite))
         => Attends(j, Suite, Runs)
  PROVE  Attentive'
<1>1. CASE ~Calm'
  BY <1>1, DisturbedAttentive
<1>2. CASE Calm'
  <2>1. job' = j /\ ~queued /\ SuitePatched(new, out)
    BY <1>2 DEF Trying, Calm
  <2>2. Fresh(suiteFeed) /\ Fresh(runFeed)
    BY <1>2, <2>1, PatchedShape DEF Calm
  <2>3. Attends(job, Suite, Runs)
    BY <2>1, <2>2 DEF Attentive, Calm
  <2>4. Suite' = Suite /\ Runs' = Runs /\ out.obj = Suite /\ (out.res = "OK" => Alike(new, Suite))
    BY <1>2, <2>1, <2>3, CalmPatch DEF Attends
  <2> QED
    BY <1>2, <2>1, <2>3, <2>4, OngoingAttentive
<1> QED
  BY <1>1, <1>2

\* A reconcile that goes on with a copy like the stored suite and with the
\* stored runs.
LEMMA PlacedAttends ==
  ASSUME NEW j, NEW copy \in SuiteRecs, NEW suite \in SuiteRecs, NEW runs \in RunLists,
         Proceeds(j, copy, runs), Placed(j, copy, runs), Alike(copy, suite), OneReleased(runs),
         Exists(suite), ~suite.del, SuiteFin \in suite.fins
  PROVE  Attends(j, suite, runs)
<1>1. j.step \in Late /\ j.suite = copy /\ j.base = copy /\ j.runs = runs
  BY DEF Proceeds, Placed
<1>2. j.step \notin {"delete", "release", "finalizer", "compact", "releaseRuns", "track", "trigger"}
  BY <1>1 DEF Late, Quiet
<1>3. CalmSuite(j, suite)
  BY <1>1, <1>2 DEF CalmSuite
<1>4. CalmRuns(j, runs)
  BY <1>1, <1>2 DEF CalmRuns
<1>5. copy.phase = suite.phase /\ copy.current = suite.current /\ copy.needsRun = suite.needsRun
  BY DEF Alike
<1>6. AtRest(copy, runs) => AtRest(suite, runs)
  BY <1>5 DEF AtRest
<1>7. CalmPhase(j, suite, runs)
  BY <1>2, <1>5, <1>6, ListedTypes DEF CalmPhase, Placed, Resting
<1> QED
  BY <1>3, <1>4, <1>7 DEF Attends

\* Also if it has not looked at the phase yet.
LEMMA BegunAttends ==
  ASSUME NEW j, NEW copy \in SuiteRecs, NEW suite \in SuiteRecs, NEW runs \in RunLists,
         Proceeds(j, copy, runs), j.step \in Begun \ {"finalizer"}, Alike(copy, suite),
         j.step = "compact" => Listed(runs) # Live(runs),
         Exists(suite), ~suite.del, SuiteFin \in suite.fins
  PROVE  Attends(j, suite, runs)
<1>1. /\ j.suite = copy /\ j.base = copy /\ j.runs = runs
      /\ j.step \in {"clearNext", "dropSchedule", "noSchedule", "compact"}
  BY DEF Proceeds, Begun
<1>2. j.step \notin Late \cup Resting
  BY <1>1 DEF Late, Quiet, Resting
<1>3. CalmSuite(j, suite)
  BY <1>1 DEF CalmSuite
<1>4. CalmRuns(j, runs)
  BY <1>1, <1>2 DEF CalmRuns, Resting
<1>5. CalmPhase(j, suite, runs)
  BY <1>1, <1>2 DEF CalmPhase
<1> QED
  BY <1>3, <1>4, <1>5 DEF Attends

\* So does one that got its finalizer or its schedule right.
LEMMA AfterAttends ==
  ASSUME NEW copy \in SuiteRecs, NEW suite \in SuiteRecs, NEW runs \in RunLists,
         Alike(copy, suite), Exists(suite), ~suite.del, SuiteFin \in suite.fins
  PROVE  Attends(AfterSchedule(copy, runs), suite, runs) /\ Attends(AfterFinalizer(copy, runs), suite, runs)
<1>1. Exists(copy)
  BY DEF Alike, Exists
<1>2. {"clearNext", "dropSchedule", "noSchedule", "compact"} \subseteq Begun \ {"finalizer"}
  BY DEF Begun
<1>3. ASSUME NEW j, Proceeds(j, copy, runs),
             \/ j.step \in {"clearNext", "dropSchedule", "noSchedule"}
             \/ Listed(runs) # Live(runs) /\ j.step = "compact"
             \/ Listed(runs) = Live(runs) /\ Placed(j, copy, runs)
      PROVE  Attends(j, suite, runs)
  <2>1. CASE Listed(runs) = Live(runs) /\ Placed(j, copy, runs)
    <3>1. OneReleased(runs)
      BY <2>1 DEF OneReleased
    <3> QED
      BY <1>3, <2>1, <3>1, PlacedAttends
  <2>2. CASE j.step \in {"clearNext", "dropSchedule", "noSchedule"}
    BY <1>2, <1>3, <2>2, BegunAttends
  <2>3. CASE Listed(runs) # Live(runs) /\ j.step = "compact"
    BY <1>2, <1>3, <2>3, BegunAttends
  <2> QED
    BY <1>3, <2>1, <2>2, <2>3
<1> QED
  BY <1>1, <1>3, AfterScheduleIs, AfterFinalizerIs

\* A call about a run that left it as it was: a delete failed unless the run is
\* gone or let go of, and so did a release of a run that is held.
LEMMA IneffectiveCalls ==
  ASSUME NEW run \in RunRecs, Exists(run)
  PROVE  /\ \A out \in cleanUp(run, run, SuiteFin, "Resource") :
              out.obj = run => out.res # "OK" \/ LetGo(run)
         /\ SuiteFin \in run.fins =>
              \A out \in removeFinalizer(run, run, SuiteFin, "Resource") : out.obj = run => out.res # "OK"
<1> DEFINE deleted == IF run.del THEN run ELSE Reaped(Deleted(run))
           less == run.fins \ {SuiteFin}
<1>1. /\ deleted \in RunRecs /\ deleted.del
      /\ less \in SUBSET {SuiteFin, RunFin}
  <2>1. Deleted(run) \in RunRecs /\ Deleted(run).del
    BY RunTypes DEF Deleted, RunRecs
  <2>2. Reaped(Deleted(run)) \in RunRecs /\ Reaped(Deleted(run)).del
    BY <2>1, RunTypes DEF Reaped, RunRecs
  <2> QED
    BY <2>2 DEF RunRecs
<1>2. ASSUME NEW x \in RunRecs, Exists(x) PROVE Reaped(WithFins(x, less)).fins = less
  BY <1>1, <1>2, RunTypes DEF WithFins, Reaped, RunRecs
<1>3. ASSUME NEW out \in cleanUp(run, run, SuiteFin, "Resource"), out.obj = run, out.res = "OK"
      PROVE  LetGo(run)
  <2>1. CASE SuiteFin \in run.fins
    <3>1. Exists(deleted) /\ run = Reaped(WithFins(deleted, less))
      BY <1>3, <2>1, CleanUpOutcomes
    <3> HIDE DEF deleted
    <3>2. run.fins = less
      BY <1>1, <1>2, <3>1
    <3> QED
      BY <2>1, <3>2
  <2>2. CASE SuiteFin \notin run.fins
    <3>1. run = deleted
      BY <1>3, <2>2, CleanUpOutcomes
    <3> QED
      BY <1>1, <2>2, <3>1 DEF LetGo
  <2> QED
    BY <2>1, <2>2
<1>4. ASSUME SuiteFin \in run.fins, NEW out \in removeFinalizer(run, run, SuiteFin, "Resource"), out.obj = run,
             out.res = "OK"
      PROVE  FALSE
  <2>1. run = Reaped(WithFins(run, less))
    BY <1>4, FinOutcomes DEF removeFinalizer
  <2>2. run.fins = less
    BY <1>2, <2>1
  <2> QED
    BY <1>4, <2>2
<1> QED
  BY <1>3, <1>4

\* Likewise for the suite: one that is deleted and held is not left as it is, nor
\* is one without the finalizer.
LEMMA IneffectiveOnSuite ==
  ASSUME NEW suite \in SuiteRecs, NEW copy \in SuiteRecs, Alike(copy, suite), Exists(suite)
  PROVE  /\ suite.del /\ SuiteFin \in suite.fins =>
              \A out \in cleanUp(copy, suite, SuiteFin, "Resource") : out.obj = suite => out.res # "OK"
         /\ SuiteFin \notin suite.fins =>
              \A out \in addFinalizer(copy, suite, SuiteFin, "Resource") : out.obj = suite => out.res # "OK"
<1> DEFINE less == suite.fins \ {SuiteFin}
<1>1. ASSUME suite.del, SuiteFin \in suite.fins, NEW out \in cleanUp(copy, suite, SuiteFin, "Resource"),
             out.obj = suite, out.res = "OK"
      PROVE  FALSE
  <2>1. copy.del /\ copy.fins = suite.fins
    BY <1>1 DEF Alike
  <2>2. suite = Reaped(WithFins(suite, less))
    <3> DEFINE deleted == IF copy.del THEN suite ELSE Reaped(Deleted(suite))
    <3>1. out.obj = Reaped(WithFins(deleted, copy.fins \ {SuiteFin}))
      BY <1>1, <2>1, CleanUpOutcomes
    <3>2. deleted = suite
      BY <2>1
    <3> HIDE DEF deleted
    <3> QED
      BY <1>1, <2>1, <3>1, <3>2
  <2>3. Reaped(WithFins(suite, less)).fins = less
    BY DEF WithFins, Reaped, SuiteRecs
  <2> QED
    BY <1>1, <2>2, <2>3
<1>2. ASSUME SuiteFin \notin suite.fins, NEW out \in addFinalizer(copy, suite, SuiteFin, "Resource"),
             out.obj = suite, out.res = "OK"
      PROVE  FALSE
  <2>1. suite = [suite EXCEPT !.fins = {SuiteFin}]
    BY <1>2, AddAnswers
  <2>2. [suite EXCEPT !.fins = {SuiteFin}].fins = {SuiteFin}
    BY DEF SuiteRecs
  <2> QED
    BY <1>2, <2>1, <2>2
<1> QED
  BY <1>1, <1>2

\* Every action of the controller keeps the work that is left in sight.
LEMMA ControllerAttentive ==
  ASSUME Shape, DeletedHeld, Attentive, Controller
  PROVE  Attentive'
<1>1. Suite \in SuiteRecs /\ Runs \in RunLists
  BY ShapeFacts
<1>2. Shape'
  BY ControllerShape
<1>3. ASSUME Reconcile PROVE Attentive'
  <2>1. CASE ~Calm'
    BY <2>1, DisturbedAttentive
  <2>2. CASE Calm'
    <3>1. suiteFeed' = suiteFeed /\ runFeed' = runFeed /\ Suite' = Suite /\ Runs' = Runs
      BY <1>3 DEF Reconcile, Locally, Suite, Runs
    <3>2. Cached(suiteFeed) = Suite /\ Cached(runFeed) = Runs
      BY <2>2, <3>1, ShapeFacts DEF Calm
    <3>3. job' = IF ~Exists(Suite) THEN Idle
                 ELSE IF Suite.del
                   THEN At(IF Listed(Runs) = {} THEN "release" ELSE "delete", Suite, Runs, Listed(Runs))
                 ELSE IF SuiteFin \notin Suite.fins THEN At("finalizer", Suite, Runs, {})
                 ELSE AfterFinalizer(Suite, Runs)
      BY <1>3, <3>2 DEF Reconcile
    <3>4. Alike(Suite, Suite)
      BY DEF Alike
    <3>5. CASE ~Exists(Suite)
      BY <3>1, <3>3, <3>5 DEF Attentive, Converged, DeletionGoesOn, Working, Idle
    <3>6. CASE Exists(Suite) /\ Suite.del
      <4> DEFINE step == IF Listed(Runs) = {} THEN "release" ELSE "delete"
      <4>1. job' = At(step, Suite, Runs, Listed(Runs))
        BY <3>3, <3>6
      <4>2. step \notin Late \cup Resting
        BY DEF Late, Resting, Quiet
      <4>3. /\ job'.step = step /\ job'.suite = Suite /\ job'.base = Suite
            /\ job'.runs = Runs /\ job'.todo = Listed(Runs)
        BY <4>1, AtShape
      <4>4. Attends(job', Suite, Runs)
        BY <3>4, <3>6, <4>2, <4>3 DEF Attends, CalmSuite, CalmRuns, CalmPhase, Resting
      <4>5. Goes(job')
        BY <1>2, <4>3 DEF Shape, Idle
      <4> QED
        BY <3>1, <4>4, <4>5, OngoingAttentive
    <3>7. CASE Exists(Suite) /\ ~Suite.del /\ SuiteFin \notin Suite.fins
      <4>1. job' = At("finalizer", Suite, Runs, {})
        BY <3>3, <3>7
      <4>2. "finalizer" \notin Late \cup Resting
        BY DEF Late, Resting, Quiet
      <4>3. job'.step = "finalizer" /\ job'.suite = Suite /\ job'.base = Suite /\ job'.runs = Runs
        BY <4>1, AtShape
      <4>4. Attends(job', Suite, Runs)
        BY <3>4, <3>7, <4>2, <4>3 DEF Attends, CalmSuite, CalmRuns, CalmPhase, Resting
      <4>5. Goes(job')
        BY <1>2, <4>3 DEF Shape, Idle
      <4> QED
        BY <3>1, <4>4, <4>5, OngoingAttentive
    <3>8. CASE Exists(Suite) /\ ~Suite.del /\ SuiteFin \in Suite.fins
      <4>1. job' = AfterFinalizer(Suite, Runs)
        BY <3>3, <3>8
      <4>2. Attends(job', Suite, Runs)
        BY <1>1, <3>4, <3>8, <4>1, AfterAttends
      <4>3. Goes(job')
        BY <1>1, <4>1, AfterFinalizerIs, ProceedsGoes
      <4> QED
        BY <3>1, <4>2, <4>3, OngoingAttentive
    <3> QED
      BY <3>5, <3>6, <3>7, <3>8
  <2> QED
    BY <2>1, <2>2
<1>4. ASSUME Calm, Working PROVE Attends(job, Suite, Runs)
  BY <1>4 DEF Attentive
<1>5. ASSUME Locally, Calm', queued' = queued PROVE Calm /\ Suite' = Suite /\ Runs' = Runs
  BY <1>5 DEF Locally, Calm, Suite, Runs
<1>6. ASSUME Done PROVE Attentive'
  <2>1. CASE ~Calm'
    BY <2>1, DisturbedAttentive
  <2>2. CASE Calm'
    <3>1. job' = Idle /\ queued' = queued /\ Locally /\ Working
      BY <1>6 DEF Done, Return, Shape, Working
    <3>2. Calm /\ Suite' = Suite /\ Runs' = Runs
      BY <1>5, <2>2, <3>1
    <3>3. Attends(job, Suite, Runs) /\ job.step = "done"
      BY <1>4, <1>6, <3>1, <3>2 DEF Done
    <3>4. "done" \in Late
      BY DEF Late
    <3>5. ~Suite.del /\ SuiteFin \in Suite.fins /\ OneReleased(Runs) /\ AtRest(Suite, Runs)
      BY <3>3, <3>4 DEF Attends, CalmSuite, CalmRuns, CalmPhase
    <3> QED
      BY <3>1, <3>2, <3>5, RestingAttentive
  <2> QED
    BY <2>1, <2>2
<1>7. ASSUME RunsDeleted PROVE Attentive'
  <2>1. CASE ~Calm'
    BY <2>1, DisturbedAttentive
  <2>2. CASE Calm'
    <3>1. job' = Idle /\ queued' = queued /\ Locally /\ Working /\ ~job.err /\ job.todo = {} /\ job.step = "delete"
      BY <1>7, <2>2 DEF RunsDeleted, Return, Shape, Working, Calm
    <3>2. Calm /\ Suite' = Suite /\ Runs' = Runs
      BY <1>5, <2>2, <3>1
    <3>3. Attends(job, Suite, Runs)
      BY <1>4, <3>1, <3>2
    <3>4. Suite.del /\ Listed(Runs) # {} /\ \A r \in Listed(Runs) : LetGo(Runs[r])
      BY <3>1, <3>3 DEF Attends, CalmSuite, CalmRuns
    <3>5. Converged' /\ DeletionGoesOn' /\ ~Working'
      BY <3>1, <3>2, <3>4 DEF Converged, DeletionGoesOn, LetGo, Working, Idle
    <3> QED
      BY <3>5 DEF Attentive
  <2> QED
    BY <2>1, <2>2
<1>8. ASSUME MissingRun \/ CreateRunFails \/ NilSchedule PROVE Attentive'
  <2>1. queued' = TRUE
    BY <1>8 DEF MissingRun, CreateRunFails, NilSchedule, Return, Shape
  <2> QED
    BY <2>1, DisturbedAttentive DEF Calm
<1>9. ASSUME HistoryEnforced PROVE Attentive'
  <2>1. CASE ~Calm'
    BY <2>1, DisturbedAttentive
  <2>2. CASE Calm'
    <3>1. /\ job' = Scheduled(job.suite, job.runs) /\ queued' = queued /\ Locally /\ Working
          /\ ~job.err /\ job.todo = {} /\ job.step = "history"
      BY <1>9, <2>2 DEF HistoryEnforced, Return, Shape, Working, Calm
    <3>2. Calm /\ Suite' = Suite /\ Runs' = Runs
      BY <1>5, <2>2, <3>1
    <3>3. Attends(job, Suite, Runs)
      BY <1>4, <3>1, <3>2
    <3>4. "history" \in Late
      BY DEF Late
    <3>5. /\ Suite.phase = "Ready" /\ Unfinished(Runs) = {} /\ Old(Runs) = {} /\ OneReleased(Runs) /\ job.runs = Runs
          /\ Exists(Suite) /\ ~Suite.del /\ SuiteFin \in Suite.fins /\ Alike(job.suite, Suite)
      BY <3>1, <3>3, <3>4 DEF Attends, CalmSuite, CalmRuns, CalmPhase
    <3>6. job.suite \in SuiteRecs /\ job.suite.phase = "Ready"
      BY <3>1, <3>5, ShapeFacts, JobFacts DEF Alike
    <3>7. Proceeds(job', job.suite, Runs) /\ Placed(job', job.suite, Runs)
      BY <1>1, <3>1, <3>5, <3>6, ScheduledIs, ScheduledPlaced
    <3>8. Attends(job', Suite, Runs) /\ Goes(job')
      BY <1>1, <3>5, <3>6, <3>7, PlacedAttends, ProceedsGoes
    <3> QED
      BY <3>2, <3>8, OngoingAttentive
  <2> QED
    BY <2>1, <2>2
<1>10. ASSUME RunsReleased PROVE Attentive'
  <2>1. CASE ~Calm'
    BY <2>1, DisturbedAttentive
  <2>2. CASE Calm'
    <3>1. /\ job' = EnsurePhase(job.suite, job.runs) /\ queued' = queued /\ Locally /\ Working
          /\ job.todo = {} /\ job.step = "releaseRuns"
      BY <1>10 DEF RunsReleased, Working
    <3>2. Calm /\ Suite' = Suite /\ Runs' = Runs
      BY <1>5, <2>2, <3>1
    <3>3. Attends(job, Suite, Runs)
      BY <1>4, <3>1, <3>2
    <3>4. /\ OneReleased(Runs) /\ job.runs = Runs
          /\ Exists(Suite) /\ ~Suite.del /\ SuiteFin \in Suite.fins /\ Alike(job.suite, Suite)
      BY <3>1, <3>3 DEF Attends, CalmSuite, CalmRuns
    <3>5. job.suite \in SuiteRecs /\ Exists(job.suite)
      BY <3>1, <3>4, ShapeFacts, JobFacts DEF Alike, Exists
    <3>6. Proceeds(job', job.suite, Runs) /\ Placed(job', job.suite, Runs)
      BY <1>1, <3>1, <3>4, <3>5, EnsurePhaseIs
    <3>7. Attends(job', Suite, Runs) /\ Goes(job')
      BY <1>1, <3>4, <3>5, <3>6, PlacedAttends, ProceedsGoes
    <3> QED
      BY <3>2, <3>7, OngoingAttentive
  <2> QED
    BY <2>1, <2>2
<1>11. ASSUME Compact PROVE Attentive'
  <2>1. CASE ~Calm'
    BY <2>1, DisturbedAttentive
  <2>2. CASE Calm'
    <3>1. Working /\ Goes(job) /\ job.step = "compact" /\ queued' = queued /\ Locally
      BY <1>11, StepWorks DEF Compact
    <3>2. Calm /\ Suite' = Suite /\ Runs' = Runs
      BY <1>5, <2>2, <3>1
    <3>3. Attends(job, Suite, Runs)
      BY <1>4, <3>1, <3>2
    <3>4. PICK met \in SUBSET (Listed(job.runs) \ Live(job.runs)) :
            /\ Cardinality(met) \in 1..(Cardinality(Live(job.runs)) + 1)
            /\ job' = [job EXCEPT !.step = "releaseRuns", !.todo = {r \in met : SuiteFin \in job.runs[r].fins}]
      BY <1>11 DEF Compact
    <3>5. met # {}
      BY <3>4, FS_EmptySet
    <3>6. /\ job'.step = "releaseRuns" /\ job'.suite = job.suite /\ job'.base = job.base /\ job'.runs = job.runs
          /\ job'.todo = {r \in met : SuiteFin \in job.runs[r].fins}
      BY <3>1, <3>4 DEF Goes, Jobs
    <3>7. job.runs = Runs /\ CalmSuite(job, Suite)
      BY <3>3 DEF Attends, CalmRuns
    <3>8. job'.todo = {} => OneReleased(Runs)
      BY <3>5, <3>6, <3>7 DEF OneReleased
    <3>9. "releaseRuns" \notin Late \cup Resting
      BY DEF Late, Resting, Quiet
    <3>10. Attends(job', Suite, Runs)
      BY <3>1, <3>6, <3>7, <3>8, <3>9 DEF Attends, CalmSuite, CalmRuns, CalmPhase, Resting
    <3>11. Goes(job')
      BY <1>2, <3>6 DEF Shape, Idle
    <3> QED
      BY <3>2, <3>10, <3>11, OngoingAttentive
  <2> QED
    BY <2>1, <2>2
<1>12. ASSUME NEW r \in Names, CleanUpRun(r) PROVE Attentive'
  <2>1. Working /\ Goes(job)
    BY <1>12, StepWorks DEF CleanUpRun
  <2>2. PICK out \in cleanUp(job.runs[r], Runs[r], SuiteFin, "Resource") :
          /\ PublishRun(r, out.obj)
          /\ job' = [job EXCEPT !.todo = @ \ {r}, !.err = @ \/ out.res # "OK"]
    BY <1>12, AnswersAre DEF CleanUpRun
  <2>3. Runs[r] \in RunRecs /\ job.runs[r] \in RunRecs
    BY <2>1, ShapeFacts, JobFacts
  <2>4. out.obj \in RunRecs
    BY <2>3, RunAnswers
  <2>5. CASE ~Calm'
    BY <2>5, DisturbedAttentive
  <2>6. CASE Calm'
    <3>1. suiteFeed' = suiteFeed /\ queued' = queued /\ job.step \in {"delete", "history"} /\ r \in job.todo
      BY <1>12 DEF CleanUpRun
    <3>2. runFeed' = runFeed /\ out.obj = Runs[r]
      BY <2>2, <2>4, <2>6, RunWritten DEF Calm
    <3>3. Calm /\ Suite' = Suite /\ Runs' = Runs
      BY <2>6, <3>1, <3>2 DEF Calm, Suite, Runs
    <3>4. Attends(job, Suite, Runs)
      BY <1>4, <2>1, <3>3
    <3>5. job.runs = Runs
      BY <3>4 DEF Attends, CalmRuns
    <3>6. /\ job'.step = job.step /\ job'.suite = job.suite /\ job'.base = job.base /\ job'.runs = job.runs
          /\ job'.todo = job.todo \ {r} /\ job'.err = (job.err \/ out.res # "OK")
      BY <2>1, <2>2 DEF Goes, Jobs
    <3>7. Exists(Runs[r]) => job'.err \/ LetGo(Runs[r])
      BY <2>3, <3>2, <3>5, <3>6, IneffectiveCalls
    <3>8. CalmSuite(job', Suite)
      BY <3>4, <3>6 DEF Attends, CalmSuite
    <3>9. CASE job.step = "delete"
      <4>1. "delete" \notin Late \cup Resting
        BY DEF Late, Resting, Quiet
      <4>2. \A q \in Listed(Runs) \ job'.todo : job'.err \/ LetGo(Runs[q])
        BY <3>4, <3>6, <3>7, <3>9 DEF Attends, CalmRuns, Listed
      <4>3. CalmRuns(job', Runs)
        BY <3>4, <3>6, <3>9, <4>1, <4>2 DEF Attends, CalmRuns, Resting
      <4>4. CalmPhase(job', Suite, Runs)
        BY <3>6, <3>9, <4>1 DEF CalmPhase
      <4>5. Goes(job')
        BY <1>2, <3>6, <3>9 DEF Shape, Idle
      <4> QED
        BY <3>3, <3>8, <4>3, <4>4, <4>5, OngoingAttentive DEF Attends
    <3>10. CASE job.step = "history"
      <4>1. "history" \in Late /\ "history" \notin Resting
        BY DEF Late, Resting, Quiet
      <4>2. r \in Live(Runs)
        BY <3>1, <3>4, <3>10 DEF Attends, CalmPhase
      <4>3. job'.err
        BY <3>7, <4>2 DEF Live, Listed, LetGo
      <4>4. CalmRuns(job', Runs)
        BY <3>4, <3>6, <3>10, <4>1 DEF Attends, CalmRuns
      <4>5. CalmPhase(job', Suite, Runs)
        BY <3>4, <3>6, <3>10, <4>1, <4>3 DEF Attends, CalmPhase
      <4>6. Goes(job')
        BY <1>2, <3>6, <3>10 DEF Shape, Idle
      <4> QED
        BY <3>3, <3>8, <4>4, <4>5, <4>6, OngoingAttentive DEF Attends
    <3> QED
      BY <3>1, <3>9, <3>10
  <2> QED
    BY <2>5, <2>6
<1>13. ASSUME NEW r \in Names, ReleaseRun(r) PROVE Attentive'
  <2>1. Working /\ Goes(job)
    BY <1>13, StepWorks DEF ReleaseRun
  <2>2. PICK out \in removeFinalizer(job.runs[r], Runs[r], SuiteFin, "Resource") :
          PublishRun(r, out.obj) /\ (out.res # "OK" => Return(TRUE)) /\ (out.res = "OK" => UNCHANGED queued)
    BY <1>13, AnswersAre DEF ReleaseRun
  <2>3. Runs[r] \in RunRecs /\ job.runs[r] \in RunRecs
    BY <2>1, ShapeFacts, JobFacts
  <2>4. out.obj \in RunRecs
    BY <2>3, RunAnswers
  <2>5. ASSUME Calm' PROVE FALSE
    <3>1. out.res = "OK" /\ queued' = queued /\ suiteFeed' = suiteFeed /\ r \in job.todo /\ job.step = "releaseRuns"
      BY <1>13, <2>2, <2>5 DEF ReleaseRun, Calm, Return
    <3>2. runFeed' = runFeed /\ out.obj = Runs[r]
      BY <2>2, <2>4, <2>5, RunWritten DEF Calm
    <3>3. Calm
      BY <2>5, <3>1, <3>2 DEF Calm
    <3>4. job.runs = Runs /\ Exists(Runs[r]) /\ SuiteFin \in Runs[r].fins
      BY <1>4, <2>1, <3>1, <3>3 DEF Attends, CalmRuns, Listed
    <3> QED
      BY <2>3, <3>1, <3>2, <3>4, IneffectiveCalls
  <2> QED
    BY <2>5, DisturbedAttentive
<1>14. ASSUME ReleaseSuite PROVE Attentive'
  <2>1. Working /\ Goes(job) /\ job.suite \in SuiteRecs
    BY <1>14, StepWorks, JobFacts DEF ReleaseSuite
  <2>2. PICK out \in cleanUp(job.suite, Suite, SuiteFin, "Resource") :
          suiteFeed' = Publish(suiteFeed, out.obj) /\ Return(out.res # "OK")
    BY <1>14, AnswersAre DEF ReleaseSuite
  <2>3. out.obj \in SuiteRecs
    BY <1>1, <2>1, CleanUpAnswers
  <2>4. ASSUME Calm' PROVE FALSE
    <3>1. out.res = "OK" /\ ~queued /\ runFeed' = runFeed /\ job.step = "release"
      BY <1>14, <2>2, <2>4 DEF ReleaseSuite, Calm, Return, Shape
    <3>2. Fresh(suiteFeed) /\ out.obj = Suite
      BY <2>2, <2>3, <2>4, SuiteWritten DEF Calm
    <3>3. Calm
      BY <2>4, <3>1, <3>2 DEF Calm
    <3>4. Exists(Suite) /\ Suite.del /\ Alike(job.suite, Suite)
      BY <1>4, <2>1, <3>1, <3>3 DEF Attends, CalmSuite
    <3> QED
      BY <1>1, <2>1, <3>1, <3>2, <3>4, IneffectiveOnSuite DEF DeletedHeld
  <2> QED
    BY <2>4, DisturbedAttentive
<1>15. ASSUME EnsureFinalizer PROVE Attentive'
  <2>1. Working /\ Goes(job) /\ job.suite \in SuiteRecs
    BY <1>15, StepWorks, JobFacts DEF EnsureFinalizer
  <2>2. PICK out \in addFinalizer(job.suite, Suite, SuiteFin, "Resource") :
          /\ suiteFeed' = Publish(suiteFeed, out.obj)
          /\ out.res # "OK" => Return(TRUE)
          /\ out.res = "OK" => UNCHANGED queued
    BY <1>15, AnswersAre DEF EnsureFinalizer
  <2>3. out.obj \in SuiteRecs
    BY <1>1, <2>1, AddAnswers
  <2>4. ASSUME Calm' PROVE FALSE
    <3>1. out.res = "OK" /\ queued' = queued /\ runFeed' = runFeed /\ job.step = "finalizer"
      BY <1>15, <2>2, <2>4 DEF EnsureFinalizer, Calm, Return
    <3>2. Fresh(suiteFeed) /\ out.obj = Suite
      BY <2>2, <2>3, <2>4, SuiteWritten DEF Calm
    <3>3. Calm
      BY <2>4, <3>1, <3>2 DEF Calm
    <3>4. Exists(Suite) /\ SuiteFin \notin Suite.fins /\ Alike(job.suite, Suite)
      BY <1>4, <2>1, <3>1, <3>3 DEF Attends, CalmSuite
    <3> QED
      BY <1>1, <2>1, <3>1, <3>2, <3>4, IneffectiveOnSuite
  <2> QED
    BY <2>4, DisturbedAttentive
<1>16. ASSUME CreateRun PROVE Attentive'
  <2>1. PICK r \in Names, run \in RunRecs : PublishRun(r, run) /\ run # Runs[r]
    <3>1. \E r \in Names : \E run : RunCreated(r, run)
      BY <1>16, RunCreates
    <3>2. \A r, run : RunCreated(r, run) => run \in RunRecs /\ PublishRun(r, run) /\ run # Runs[r]
      <4> SUFFICES ASSUME NEW r, NEW run, RunCreated(r, run)
                   PROVE  run \in RunRecs /\ PublishRun(r, run) /\ run # Runs[r]
        OBVIOUS
      <4>1. 1 + Cardinality(Born(Runs)) \in Nat
        BY BornFinite
      <4>2. Exists(run)
        BY <4>1, NewRunShape DEF RunCreated
      <4> QED
        BY <4>2 DEF RunCreated, Exists
    <3> QED
      BY <3>1, <3>2
  <2>2. ~Calm'
    BY <2>1, RunWritten DEF Calm
  <2> QED
    BY <2>2, DisturbedAttentive
<1>17. ASSUME SetRunning PROVE Attentive'
  <2> DEFINE new == [job.suite EXCEPT !.phase = "Running", !.current = None]
  <2>1. Working /\ Goes(job) /\ job.suite \in SuiteRecs
    BY <1>17, StepWorks, JobFacts DEF SetRunning
  <2>2. new \in SuiteRecs /\ new.phase = "Running"
    BY <2>1, SuiteChanges DEF SuiteRecs
  <2>3. PICK out \in PatchAnswers(new) :
          Answer(out.res) /\ suiteFeed' = Publish(suiteFeed, out.obj) /\ Return(out.res # "OK")
    BY <1>17 DEF SetRunning
  <2> HIDE DEF new
  <2>4. out.obj \in SuiteRecs
    BY <1>1, <2>1, <2>2, JobFacts, SuiteAnswers
  <2>5. ASSUME Calm' PROVE FALSE
    <3>1. out.res = "OK" /\ ~queued /\ runFeed' = runFeed /\ job.step = "trigger"
      BY <1>17, <2>3, <2>5 DEF SetRunning, Calm, Return, Shape
    <3>2. Fresh(suiteFeed) /\ out.obj = Suite
      BY <2>3, <2>4, <2>5, SuiteWritten DEF Calm
    <3>3. Calm
      BY <2>5, <3>1, <3>2 DEF Calm
    <3>4. CalmSuite(job, Suite) /\ Suite.phase = "Ready"
      BY <1>4, <2>1, <3>1, <3>3 DEF Attends, CalmPhase, Resting
    <3>5. Suite = Merged(Suite, job.base, new) /\ Exists(Suite) /\ job.base \in SuiteRecs
      BY <1>1, <2>1, <2>2, <3>1, <3>2, JobFacts, SuiteAnswers
    <3>6. Merged(Suite, job.base, new).phase = Taken(Suite.phase, job.base.phase, new.phase)
      BY <1>1, <2>2, <3>5, MergedFields
    <3>7. Suite.phase = Taken(Suite.phase, job.base.phase, new.phase)
      BY <3>5, <3>6
    <3> QED
      BY <2>2, <3>4, <3>7 DEF Taken, CalmSuite, Alike
  <2> QED
    BY <2>5, DisturbedAttentive
<1>18. ASSUME ClearNextRun PROVE Attentive'
  <2>1. Working /\ Goes(job) /\ job.suite \in SuiteRecs /\ job.runs \in RunLists
    BY <1>18, StepWorks, JobFacts DEF ClearNextRun
  <2> DEFINE new == [job.suite EXCEPT !.nextRun = None]
  <2>2. PICK out : Trying(new, out, AfterSchedule(IF out.res = "OK" THEN out.obj ELSE new, job.runs))
    BY <1>18 DEF ClearNextRun, TryPatchSuite, Trying, SuitePatched
  <2>3. new \in SuiteRecs
    BY <2>1, JobFacts, SuiteChanges, Bounds
  <2> DEFINE x == IF out.res = "OK" THEN out.obj ELSE new
  <2>4. x \in SuiteRecs
    BY <2>1, <2>2, <2>3, PatchedShape DEF Trying
  <2>5. Goes(AfterSchedule(x, job.runs))
    BY <2>1, <2>4, AfterScheduleIs, ProceedsGoes
  <2>6. ASSUME Attends(job, Suite, Runs), out.obj = Suite
        PROVE  Attends(AfterSchedule(x, job.runs), Suite, Runs)
    <3>1. job.step = "clearNext"
      BY <1>18 DEF ClearNextRun
    <3>2. /\ Exists(Suite) /\ ~Suite.del /\ SuiteFin \in Suite.fins /\ job.runs = Runs
          /\ Alike(job.suite, Suite) /\ Alike(Suite, Suite)
      BY <2>6, <3>1 DEF Attends, CalmSuite, CalmRuns, Alike
    <3>3. Alike(x, Suite)
      BY <2>1, <2>6, <3>2 DEF Alike, SuiteRecs
    <3> HIDE DEF x
    <3> QED
      BY <1>1, <2>4, <3>2, <3>3, AfterAttends
  <2>7. Trying(new, out, AfterSchedule(x, job.runs))
    BY <2>2
  <2> HIDE DEF new, x
  <2> QED
    BY <2>1, <2>3, <2>5, <2>6, <2>7, TryingAttentive
<1>19. ASSUME NoSchedule PROVE Attentive'
  <2>1. Working /\ Goes(job) /\ job.suite \in SuiteRecs /\ job.runs \in RunLists
    BY <1>19, StepWorks, JobFacts DEF NoSchedule
  <2> DEFINE new == [job.suite EXCEPT !.nextRun = None]
  <2>2. PICK out : Proceeding(new, out, AfterSchedule(out.obj, job.runs))
    BY <1>19 DEF NoSchedule, PatchSuite, Proceeding, SuitePatched
  <2>3. new \in SuiteRecs
    BY <2>1, JobFacts, SuiteChanges, Bounds
  <2>4. out.obj \in SuiteRecs
    BY <2>1, <2>2, <2>3, PatchedShape DEF Proceeding
  <2>5. Goes(AfterSchedule(out.obj, job.runs))
    BY <2>1, <2>4, AfterScheduleIs, ProceedsGoes
  <2>6. ASSUME Attends(job, Suite, Runs), out.obj = Suite, Alike(new, Suite)
        PROVE  Attends(AfterSchedule(out.obj, job.runs), Suite, Runs)
    <3>1. job.step = "noSchedule"
      BY <1>19 DEF NoSchedule
    <3>2. /\ Exists(Suite) /\ ~Suite.del /\ SuiteFin \in Suite.fins /\ job.runs = Runs
          /\ Alike(job.suite, Suite) /\ Alike(Suite, Suite)
      BY <2>6, <3>1 DEF Attends, CalmSuite, CalmRuns, Alike
    <3> QED
      BY <1>1, <2>6, <3>2, AfterAttends
  <2> HIDE DEF new
  <2> QED
    BY <2>1, <2>2, <2>3, <2>5, <2>6, ProceedingAttentive
<1>20. ASSUME DropSchedule PROVE Attentive'
  <2>1. Working /\ Goes(job) /\ job.suite \in SuiteRecs /\ job.runs \in RunLists
    BY <1>20, StepWorks, JobFacts DEF DropSchedule
  <2> DEFINE new == [job.suite EXCEPT !.annotated = 0]
  <2>2. PICK out : Proceeding(new, out, [job EXCEPT !.step = "noSchedule", !.suite = out.obj])
    BY <1>20 DEF DropSchedule, PatchSuite, Proceeding, SuitePatched
  <2>3. new \in SuiteRecs
    BY <2>1, JobFacts, SuiteChanges
  <2>4. out.obj \in SuiteRecs
    BY <2>1, <2>2, <2>3, PatchedShape DEF Proceeding
  <2>5. Goes([job EXCEPT !.step = "noSchedule", !.suite = out.obj])
    BY <2>1, <2>4 DEF Goes, Jobs, Steps, Begun
  <2>6. ASSUME Attends(job, Suite, Runs), out.obj = Suite, Alike(new, Suite)
        PROVE  Attends([job EXCEPT !.step = "noSchedule", !.suite = out.obj], Suite, Runs)
    <3>1. job.step = "dropSchedule"
      BY <1>20 DEF DropSchedule
    <3>2. /\ Exists(Suite) /\ ~Suite.del /\ SuiteFin \in Suite.fins /\ job.runs = Runs
          /\ Alike(job.suite, Suite) /\ Alike(Suite, Suite)
      BY <2>6, <3>1 DEF Attends, CalmSuite, CalmRuns, Alike
    <3> DEFINE j == [job EXCEPT !.step = "noSchedule", !.suite = out.obj]
    <3>3. j.step = "noSchedule" /\ j.suite = Suite /\ j.base = job.base /\ j.runs = Runs
      BY <2>1, <2>6, <3>2 DEF Goes, Jobs
    <3>4. "noSchedule" \notin Late \cup Resting
      BY DEF Late, Resting, Quiet
    <3> HIDE DEF j
    <3>5. Attends(j, Suite, Runs)
      BY <2>6, <3>1, <3>2, <3>3, <3>4 DEF Attends, CalmSuite, CalmRuns, CalmPhase, Resting
    <3> QED
      BY <3>5 DEF j
  <2> HIDE DEF new
  <2> QED
    BY <2>1, <2>2, <2>3, <2>5, <2>6, ProceedingAttentive
<1>21. ASSUME Focus PROVE Attentive'
  <2>1. Working /\ Goes(job) /\ job.suite \in SuiteRecs /\ job.runs \in RunLists
    BY <1>21, StepWorks, JobFacts DEF Focus
  <2> DEFINE new(r) == [job.suite EXCEPT !.phase = "Running", !.current = r]
  <2>2. PICK r, out : r \in job.todo /\ Proceeding(new(r), out, IF job.todo = {r} THEN isRunning(out.obj, job.runs)
                           ELSE At("focus", out.obj, job.runs, job.todo \ {r}))
    BY <1>21 DEF Focus, PatchSuite, Proceeding, SuitePatched
  <2>3. new(r) \in SuiteRecs
    BY <2>1, <2>2, JobFacts, SuiteChanges
  <2>4. out.obj \in SuiteRecs
    BY <2>1, <2>2, <2>3, PatchedShape DEF Proceeding
  <2>5. Goes(IF job.todo = {r} THEN isRunning(out.obj, job.runs)
                           ELSE At("focus", out.obj, job.runs, job.todo \ {r}))
    BY <2>1, <2>4, JobFacts, isRunningIs, AtShape DEF Goes, Proceeds, Steps, Late
  <2>6. ASSUME Attends(job, Suite, Runs), out.obj = Suite, Alike(new(r), Suite)
        PROVE  Attends(IF job.todo = {r} THEN isRunning(out.obj, job.runs)
                           ELSE At("focus", out.obj, job.runs, job.todo \ {r}), Suite, Runs)
    <3>1. job.step = "focus"
      BY <1>21 DEF Focus
    <3>2. Suite.phase # "Running"
      BY <2>6, <3>1 DEF Attends, CalmPhase
    <3>3. new(r).phase = "Running"
      BY <2>1 DEF SuiteRecs
    <3> QED
      BY <2>6, <3>2, <3>3 DEF Alike
  <2> HIDE DEF new
  <2> QED
    BY <2>1, <2>2, <2>3, <2>5, <2>6, ProceedingAttentive
<1>22. ASSUME SetPending PROVE Attentive'
  <2>1. Working /\ Goes(job) /\ job.suite \in SuiteRecs /\ job.runs \in RunLists
    BY <1>22, StepWorks, JobFacts DEF SetPending
  <2> DEFINE new == [job.suite EXCEPT !.phase = "Pending"]
  <2>2. PICK out : Proceeding(new, out, notRunning(out.obj, job.runs))
    BY <1>22 DEF SetPending, PatchSuite, Proceeding, SuitePatched
  <2>3. new \in SuiteRecs
    BY <2>1, JobFacts, SuiteChanges
  <2>4. out.obj \in SuiteRecs
    BY <2>1, <2>2, <2>3, PatchedShape DEF Proceeding
  <2>5. Goes(notRunning(out.obj, job.runs))
    BY <2>1, <2>4, notRunningIs, ProceedsGoes
  <2>6. ASSUME Attends(job, Suite, Runs), out.obj = Suite, Alike(new, Suite)
        PROVE  Attends(notRunning(out.obj, job.runs), Suite, Runs)
    <3>1. job.step = "pending"
      BY <1>22 DEF SetPending
    <3>2. /\ Exists(Suite) /\ ~Suite.del /\ SuiteFin \in Suite.fins /\ job.runs = Runs
          /\ Alike(job.suite, Suite) /\ Alike(Suite, Suite)
      BY <2>6, <3>1 DEF Attends, CalmSuite, CalmRuns, Alike
    <3>3. Suite.phase = "Pending" /\ Unfinished(Runs) = {} /\ OneReleased(Runs)
      <4>1. new.phase = "Pending" /\ "pending" \in Late
        BY <2>1 DEF SuiteRecs, Late
      <4> QED
        BY <2>6, <3>1, <4>1 DEF Attends, CalmRuns, CalmPhase, Alike
    <3>4. Proceeds(notRunning(Suite, Runs), Suite, Runs) /\ Placed(notRunning(Suite, Runs), Suite, Runs)
      BY <1>1, <3>3, notRunningIs
    <3> QED
      BY <1>1, <2>6, <3>2, <3>3, <3>4, PlacedAttends
  <2> HIDE DEF new
  <2> QED
    BY <2>1, <2>2, <2>3, <2>5, <2>6, ProceedingAttentive
<1>23. ASSUME SetReady PROVE Attentive'
  <2>1. Working /\ Goes(job) /\ job.suite \in SuiteRecs /\ job.runs \in RunLists
    BY <1>23, StepWorks, JobFacts DEF SetReady
  <2> DEFINE new == [job.suite EXCEPT !.phase = "Ready"]
  <2>2. PICK out : Proceeding(new, out, IF Old(job.runs) # {} THEN At("history", out.obj, job.runs, Old(job.runs))
                           ELSE Scheduled(out.obj, job.runs))
    BY <1>23 DEF SetReady, PatchSuite, Proceeding, SuitePatched
  <2>3. new \in SuiteRecs
    BY <2>1, JobFacts, SuiteChanges
  <2>4. out.obj \in SuiteRecs
    BY <2>1, <2>2, <2>3, PatchedShape DEF Proceeding
  <2>5. Goes(IF Old(job.runs) # {} THEN At("history", out.obj, job.runs, Old(job.runs))
                           ELSE Scheduled(out.obj, job.runs))
    BY <2>1, <2>4, ScheduledIs, ListedTypes, AtShape DEF Goes, Proceeds, Steps, Late
  <2>6. ASSUME Attends(job, Suite, Runs), out.obj = Suite, Alike(new, Suite)
        PROVE  Attends(IF Old(job.runs) # {} THEN At("history", out.obj, job.runs, Old(job.runs))
                           ELSE Scheduled(out.obj, job.runs), Suite, Runs)
    <3>1. job.step = "ready"
      BY <1>23 DEF SetReady
    <3>2. /\ Exists(Suite) /\ ~Suite.del /\ SuiteFin \in Suite.fins /\ job.runs = Runs
          /\ Alike(job.suite, Suite) /\ Alike(Suite, Suite)
      BY <2>6, <3>1 DEF Attends, CalmSuite, CalmRuns, Alike
    <3>3. Suite.phase = "Ready" /\ Unfinished(Runs) = {} /\ OneReleased(Runs)
      <4>1. new.phase = "Ready" /\ "ready" \in Late
        BY <2>1 DEF SuiteRecs, Late
      <4> QED
        BY <2>6, <3>1, <4>1 DEF Attends, CalmRuns, CalmPhase, Alike
    <3>4. Proceeds(notRunning(Suite, Runs), Suite, Runs) /\ Placed(notRunning(Suite, Runs), Suite, Runs)
      BY <1>1, <3>3, notRunningIs
    <3>5. notRunning(Suite, Runs) = IF Old(Runs) # {} THEN At("history", Suite, Runs, Old(Runs)) ELSE Scheduled(Suite, Runs)
      BY <3>3 DEF notRunning
    <3>6. Attends(notRunning(Suite, Runs), Suite, Runs)
      BY <1>1, <3>2, <3>3, <3>4, PlacedAttends
    <3> QED
      BY <2>6, <3>2, <3>5, <3>6
  <2> HIDE DEF new
  <2> QED
    BY <2>1, <2>2, <2>3, <2>5, <2>6, ProceedingAttentive
<1>24. ASSUME Annotate PROVE Attentive'
  <2>1. Working /\ Goes(job) /\ job.suite \in SuiteRecs /\ job.runs \in RunLists
    BY <1>24, StepWorks, JobFacts DEF Annotate
  <2> DEFINE new == [job.suite EXCEPT !.annotated = job.suite.sched]
  <2>2. PICK out : Proceeding(new, out, Parsed(out.obj, job.runs, job.suite.sched))
    BY <1>24 DEF Annotate, PatchSuite, Proceeding, SuitePatched
  <2>3. new \in SuiteRecs
    BY <2>1, JobFacts, SuiteChanges DEF SuiteRecs
  <2>4. out.obj \in SuiteRecs
    BY <2>1, <2>2, <2>3, PatchedShape DEF Proceeding
  <2>5. Goes(Parsed(out.obj, job.runs, job.suite.sched))
    BY <2>1, <2>4, <1>24, ParsedIs, ProceedsGoes DEF Goes, Annotate, SuiteRecs
  <2>6. ASSUME Attends(job, Suite, Runs), out.obj = Suite, Alike(new, Suite)
        PROVE  Attends(Parsed(out.obj, job.runs, job.suite.sched), Suite, Runs)
    <3>1. job.step = "annotate"
      BY <1>24 DEF Annotate
    <3>2. /\ Exists(Suite) /\ ~Suite.del /\ SuiteFin \in Suite.fins /\ job.runs = Runs
          /\ Alike(job.suite, Suite) /\ Alike(Suite, Suite)
      BY <2>6, <3>1 DEF Attends, CalmSuite, CalmRuns, Alike
    <3>3. Suite.phase = "Ready" /\ Unfinished(Runs) = {} /\ Old(Runs) = {} /\ OneReleased(Runs)
      <4>1. "annotate" \in Resting /\ "annotate" \in Late
        BY DEF Resting, Late, Quiet
      <4> QED
        BY <2>6, <3>1, <4>1 DEF Attends, CalmRuns, CalmPhase
    <3> DEFINE j == Parsed(Suite, Runs, job.suite.sched)
    <3>4. job.suite.sched \in Schedules /\ job.suite.sched # 0
      BY <2>1, <3>1 DEF Goes, SuiteRecs
    <3>5. /\ Proceeds(j, Suite, Runs)
          /\ j.step \in {"badSchedule", "setNext", "manual", "helm", "due", "done"}
          /\ j.step \in {"due", "done"} => ~Suite.needsRun
      BY <1>1, <3>4, ParsedIs
    <3> HIDE DEF j
    <3>6. Placed(j, Suite, Runs)
      BY <3>3, <3>5, ReadyPlaced DEF Quiet
    <3>7. Attends(j, Suite, Runs)
      BY <1>1, <3>2, <3>3, <3>5, <3>6, PlacedAttends
    <3> QED
      BY <2>6, <3>2, <3>7 DEF j
  <2> HIDE DEF new
  <2> QED
    BY <2>1, <2>2, <2>3, <2>5, <2>6, ProceedingAttentive
<1>25. ASSUME SetNextRun PROVE Attentive'
  <2>1. Working /\ Goes(job) /\ job.suite \in SuiteRecs /\ job.runs \in RunLists
    BY <1>25, StepWorks, JobFacts DEF SetNextRun
  <2> DEFINE new == [job.suite EXCEPT !.nextRun = NextTime(job.when, now)]
  <2>2. PICK out : Proceeding(new, out, [Triggered(out.obj, job.runs) EXCEPT !.when = job.when])
    BY <1>25 DEF SetNextRun, PatchSuite, Proceeding, SuitePatched
  <2>3. new \in SuiteRecs
    <3>1. job.when \in Schedules \cup {0} /\ job.when # 0
      BY <1>25, <2>1, JobFacts DEF Goes, SetNextRun
    <3>2. NextTime(job.when, now) \in Int
      BY <3>1, NextTimeType DEF Shape
    <3> QED
      BY <2>1, <3>2, SuiteChanges
  <2>4. out.obj \in SuiteRecs
    BY <2>1, <2>2, <2>3, PatchedShape DEF Proceeding
  <2>5. Goes([Triggered(out.obj, job.runs) EXCEPT !.when = job.when])
    BY <2>1, <2>4, JobFacts, TriggeredIs, ProceedsGoes
  <2>6. ASSUME Attends(job, Suite, Runs), out.obj = Suite, Alike(new, Suite)
        PROVE  Attends([Triggered(out.obj, job.runs) EXCEPT !.when = job.when], Suite, Runs)
    <3>1. job.step = "setNext"
      BY <1>25 DEF SetNextRun
    <3>2. /\ Exists(Suite) /\ ~Suite.del /\ SuiteFin \in Suite.fins /\ job.runs = Runs
          /\ Alike(job.suite, Suite) /\ Alike(Suite, Suite)
      BY <2>6, <3>1 DEF Attends, CalmSuite, CalmRuns, Alike
    <3>3. Suite.phase = "Ready" /\ Unfinished(Runs) = {} /\ Old(Runs) = {} /\ OneReleased(Runs)
      <4>1. "setNext" \in Resting /\ "setNext" \in Late
        BY DEF Resting, Late, Quiet
      <4> QED
        BY <2>6, <3>1, <4>1 DEF Attends, CalmRuns, CalmPhase
    <3> DEFINE j == [Triggered(Suite, Runs) EXCEPT !.when = job.when]
    <3>4. /\ Proceeds(j, Suite, Runs)
          /\ j.step \in {"manual", "helm", "due", "done"}
          /\ j.step \in {"due", "done"} => ~Suite.needsRun
      BY <1>1, <2>1, JobFacts, TriggeredIs
    <3> HIDE DEF j
    <3>5. Placed(j, Suite, Runs)
      BY <3>3, <3>4, ReadyPlaced DEF Quiet
    <3>6. Attends(j, Suite, Runs)
      BY <1>1, <3>2, <3>3, <3>4, <3>5, PlacedAttends
    <3> QED
      BY <2>6, <3>2, <3>6 DEF j
  <2> HIDE DEF new
  <2> QED
    BY <2>1, <2>2, <2>3, <2>5, <2>6, ProceedingAttentive
<1>26. ASSUME RejectSchedule PROVE Attentive'
  <2>1. Working /\ Goes(job) /\ job.suite \in SuiteRecs /\ job.runs \in RunLists
    BY <1>26, StepWorks, JobFacts DEF RejectSchedule
  <2> DEFINE new == [job.suite EXCEPT !.nextRun = None]
  <2>2. PICK out : Trying(new, out, Triggered(IF out.res = "OK" THEN out.obj ELSE new, job.runs))
    BY <1>26 DEF RejectSchedule, TryPatchSuite, Trying, SuitePatched
  <2>3. new \in SuiteRecs
    BY <2>1, JobFacts, SuiteChanges, Bounds
  <2> DEFINE x == IF out.res = "OK" THEN out.obj ELSE new
  <2>4. x \in SuiteRecs
    BY <2>1, <2>2, <2>3, PatchedShape DEF Trying
  <2>5. Goes(Triggered(x, job.runs))
    BY <2>1, <2>4, TriggeredIs, ProceedsGoes
  <2>6. ASSUME Attends(job, Suite, Runs), out.obj = Suite
        PROVE  Attends(Triggered(x, job.runs), Suite, Runs)
    <3>1. job.step = "badSchedule"
      BY <1>26 DEF RejectSchedule
    <3>2. /\ Exists(Suite) /\ ~Suite.del /\ SuiteFin \in Suite.fins /\ job.runs = Runs
          /\ Alike(job.suite, Suite) /\ Alike(Suite, Suite)
      BY <2>6, <3>1 DEF Attends, CalmSuite, CalmRuns, Alike
    <3>3. Alike(x, Suite)
      BY <2>1, <2>6, <3>2 DEF Alike, SuiteRecs
    <3>4. Suite.phase = "Ready" /\ Unfinished(Runs) = {} /\ Old(Runs) = {} /\ OneReleased(Runs)
      <4>1. "badSchedule" \in Resting /\ "badSchedule" \in Late
        BY DEF Resting, Late, Quiet
      <4> QED
        BY <2>6, <3>1, <4>1 DEF Attends, CalmRuns, CalmPhase
    <3> HIDE DEF x
    <3> DEFINE j == Triggered(x, Runs)
    <3>5. /\ Proceeds(j, x, Runs)
          /\ j.step \in {"manual", "helm", "due", "done"}
          /\ j.step \in {"due", "done"} => ~x.needsRun
      BY <1>1, <2>4, TriggeredIs
    <3> HIDE DEF j
    <3>6. x.phase = "Ready"
      BY <3>3, <3>4 DEF Alike
    <3>7. Placed(j, x, Runs)
      BY <3>4, <3>5, <3>6, ReadyPlaced DEF Quiet
    <3>8. Attends(j, Suite, Runs)
      BY <1>1, <2>4, <3>2, <3>3, <3>4, <3>5, <3>7, PlacedAttends
    <3> QED
      BY <3>2, <3>8 DEF j
  <2>7. Trying(new, out, Triggered(x, job.runs))
    BY <2>2
  <2> HIDE DEF new, x
  <2> QED
    BY <2>1, <2>3, <2>5, <2>6, <2>7, TryingAttentive
<1>27. ASSUME ResetTrigger PROVE Attentive'
  <2>1. Working /\ Goes(job) /\ job.suite \in SuiteRecs /\ job.runs \in RunLists
    BY <1>27, StepWorks, JobFacts DEF ResetTrigger
  <2> DEFINE new == [job.suite EXCEPT !.needsRun = FALSE]
  <2>2. PICK out : Proceeding(new, out, [job EXCEPT !.step = "trigger", !.suite = out.obj, !.cause = <<"Manual", 0>>])
    BY <1>27 DEF ResetTrigger, PatchSuite, Proceeding, SuitePatched
  <2>3. new \in SuiteRecs
    BY <2>1, JobFacts, SuiteChanges
  <2>4. out.obj \in SuiteRecs
    BY <2>1, <2>2, <2>3, PatchedShape DEF Proceeding
  <2>5. Goes([job EXCEPT !.step = "trigger", !.suite = out.obj, !.cause = <<"Manual", 0>>])
    <3>1. <<"Manual", 0>> \in Causes /\ "trigger" \in Steps
      BY DEF Causes, Steps, Shape
    <3> QED
      BY <2>1, <2>4, <3>1 DEF Goes, Jobs
  <2>6. ASSUME Attends(job, Suite, Runs), out.obj = Suite, Alike(new, Suite)
        PROVE  Attends([job EXCEPT !.step = "trigger", !.suite = out.obj, !.cause = <<"Manual", 0>>], Suite, Runs)
    <3>1. job.step = "manual"
      BY <1>27 DEF ResetTrigger
    <3>2. /\ Exists(Suite) /\ ~Suite.del /\ SuiteFin \in Suite.fins /\ job.runs = Runs
          /\ Alike(job.suite, Suite) /\ Alike(Suite, Suite)
      BY <2>6, <3>1 DEF Attends, CalmSuite, CalmRuns, Alike
    <3>3. Suite.phase = "Ready" /\ Unfinished(Runs) = {} /\ Old(Runs) = {} /\ OneReleased(Runs)
      <4>1. "manual" \in Resting /\ "manual" \in Late
        BY DEF Resting, Late, Quiet
      <4> QED
        BY <2>6, <3>1, <4>1 DEF Attends, CalmRuns, CalmPhase
    <3> DEFINE j == [job EXCEPT !.step = "trigger", !.suite = out.obj, !.cause = <<"Manual", 0>>]
    <3>4. j.step = "trigger" /\ j.suite = Suite /\ j.base = job.base /\ j.runs = Runs
      BY <2>1, <2>6, <3>2 DEF Goes, Jobs
    <3>5. "trigger" \notin Late /\ "trigger" \in Resting
      BY DEF Late, Resting, Quiet
    <3> HIDE DEF j
    <3>6. Attends(j, Suite, Runs)
      BY <2>6, <3>1, <3>2, <3>3, <3>4, <3>5 DEF Attends, CalmSuite, CalmRuns, CalmPhase
    <3> QED
      BY <3>6 DEF j
  <2> HIDE DEF new
  <2> QED
    BY <2>1, <2>2, <2>3, <2>5, <2>6, ProceedingAttentive
<1>28. ASSUME AnnotateRelease PROVE Attentive'
  <2>1. Working /\ Goes(job) /\ job.suite \in SuiteRecs /\ job.runs \in RunLists
    BY <1>28, StepWorks, JobFacts DEF AnnotateRelease
  <2> DEFINE new == [job.suite EXCEPT !.lastHelm = 0]
  <2>2. PICK out : Proceeding(new, out, [job EXCEPT !.step = "trigger", !.suite = out.obj, !.cause = <<"Helm", helm>>])
    BY <1>28 DEF AnnotateRelease, PatchSuite, Proceeding, SuitePatched
  <2>3. new \in SuiteRecs
    BY <2>1, JobFacts, SuiteChanges
  <2>4. out.obj \in SuiteRecs
    BY <2>1, <2>2, <2>3, PatchedShape DEF Proceeding
  <2>5. Goes([job EXCEPT !.step = "trigger", !.suite = out.obj, !.cause = <<"Helm", helm>>])
    <3>1. <<"Helm", helm>> \in Causes /\ "trigger" \in Steps
      BY DEF Causes, Steps, Shape
    <3> QED
      BY <2>1, <2>4, <3>1 DEF Goes, Jobs
  <2>6. ASSUME Attends(job, Suite, Runs), out.obj = Suite, Alike(new, Suite)
        PROVE  Attends([job EXCEPT !.step = "trigger", !.suite = out.obj, !.cause = <<"Helm", helm>>], Suite, Runs)
    <3>1. job.step = "helm"
      BY <1>28 DEF AnnotateRelease
    <3>2. /\ Exists(Suite) /\ ~Suite.del /\ SuiteFin \in Suite.fins /\ job.runs = Runs
          /\ Alike(job.suite, Suite) /\ Alike(Suite, Suite)
      BY <2>6, <3>1 DEF Attends, CalmSuite, CalmRuns, Alike
    <3>3. Suite.phase = "Ready" /\ Unfinished(Runs) = {} /\ Old(Runs) = {} /\ OneReleased(Runs)
      <4>1. "helm" \in Resting /\ "helm" \in Late
        BY DEF Resting, Late, Quiet
      <4> QED
        BY <2>6, <3>1, <4>1 DEF Attends, CalmRuns, CalmPhase
    <3> DEFINE j == [job EXCEPT !.step = "trigger", !.suite = out.obj, !.cause = <<"Helm", helm>>]
    <3>4. j.step = "trigger" /\ j.suite = Suite /\ j.base = job.base /\ j.runs = Runs
      BY <2>1, <2>6, <3>2 DEF Goes, Jobs
    <3>5. "trigger" \notin Late /\ "trigger" \in Resting
      BY DEF Late, Resting, Quiet
    <3> HIDE DEF j
    <3>6. Attends(j, Suite, Runs)
      BY <2>6, <3>1, <3>2, <3>3, <3>4, <3>5 DEF Attends, CalmSuite, CalmRuns, CalmPhase
    <3> QED
      BY <3>6 DEF j
  <2> HIDE DEF new
  <2> QED
    BY <2>1, <2>2, <2>3, <2>5, <2>6, ProceedingAttentive
<1>29. ASSUME TrackRun PROVE Attentive'
  <2>1. Working /\ Goes(job) /\ job.suite \in SuiteRecs /\ job.runs \in RunLists
    BY <1>29, StepWorks, JobFacts DEF TrackRun
  <2> DEFINE new(r) == [job.suite EXCEPT !.current = r]
  <2>2. PICK r, out : r \in job.todo /\ Proceeding(new(r), out, At("done", out.obj, job.runs, {}))
    BY <1>29 DEF TrackRun, PatchSuite, Proceeding, SuitePatched
  <2>3. new(r) \in SuiteRecs
    BY <2>1, <2>2, JobFacts, SuiteChanges
  <2>4. out.obj \in SuiteRecs
    BY <2>1, <2>2, <2>3, PatchedShape DEF Proceeding
  <2>5. Goes(At("done", out.obj, job.runs, {}))
    BY <2>1, <2>4, AtShape DEF Goes, Steps, Late
  <2>6. ASSUME Attends(job, Suite, Runs), out.obj = Suite, Alike(new(r), Suite)
        PROVE  Attends(At("done", out.obj, job.runs, {}), Suite, Runs)
    <3>1. job.step = "track"
      BY <1>29 DEF TrackRun
    <3> QED
      BY <2>6, <3>1 DEF Attends, CalmRuns
  <2> HIDE DEF new
  <2> QED
    BY <2>1, <2>2, <2>3, <2>5, <2>6, ProceedingAttentive
<1>30. ASSUME FinishRun PROVE Attentive'
  <2>1. Working /\ Goes(job) /\ job.suite \in SuiteRecs /\ job.runs \in RunLists
    BY <1>30, StepWorks, JobFacts DEF FinishRun
  <2> DEFINE new == [job.suite EXCEPT !.phase = "Ready", !.current = None]
  <2>2. PICK out : Proceeding(new, out, At("done", out.obj, job.runs, {}))
    BY <1>30 DEF FinishRun, PatchSuite, Proceeding, SuitePatched
  <2>3. new \in SuiteRecs
    BY <2>1, JobFacts, SuiteChanges
  <2>4. out.obj \in SuiteRecs
    BY <2>1, <2>2, <2>3, PatchedShape DEF Proceeding
  <2>5. Goes(At("done", out.obj, job.runs, {}))
    BY <2>1, <2>4, AtShape DEF Goes, Steps, Late
  <2>6. ASSUME Attends(job, Suite, Runs), out.obj = Suite, Alike(new, Suite)
        PROVE  Attends(At("done", out.obj, job.runs, {}), Suite, Runs)
    <3>1. job.step = "finish"
      BY <1>30 DEF FinishRun
    <3>2. Suite.phase = "Running"
      BY <2>6, <3>1 DEF Attends, CalmPhase
    <3>3. new.phase = "Ready"
      BY <2>1 DEF SuiteRecs
    <3> QED
      BY <2>6, <3>2, <3>3 DEF Alike
  <2> HIDE DEF new
  <2> QED
    BY <2>1, <2>2, <2>3, <2>5, <2>6, ProceedingAttentive
<1>31. ASSUME WaitForNextRun PROVE Attentive'
  <2>1. CASE ~Calm'
    BY <2>1, DisturbedAttentive
  <2>2. CASE Calm'
    <3>1. /\ job' = Idle /\ Working /\ job.step = "due"
          /\ queued' = queued /\ suiteFeed' = suiteFeed /\ runFeed' = runFeed
      BY <1>31 DEF WaitForNextRun, Return, Shape, Working
    <3>2. Calm /\ Suite' = Suite /\ Runs' = Runs
      BY <2>2, <3>1 DEF Calm, Suite, Runs
    <3>3. Attends(job, Suite, Runs)
      BY <1>4, <3>1, <3>2
    <3>4. "due" \in Late /\ "due" \in Resting
      BY DEF Late, Resting, Quiet
    <3>5. ~Suite.del /\ SuiteFin \in Suite.fins /\ OneReleased(Runs) /\ AtRest(Suite, Runs)
      BY <3>1, <3>3, <3>4 DEF Attends, CalmSuite, CalmRuns, CalmPhase, AtRest
    <3> QED
      BY <3>1, <3>2, <3>5, RestingAttentive
  <2> QED
    BY <2>1, <2>2
<1>32. ASSUME NextRunMissed PROVE Attentive'
  <2>1. Working /\ Goes(job) /\ job.suite \in SuiteRecs /\ job.step = "due"
    BY <1>32, StepWorks, JobFacts DEF NextRunMissed
  <2> DEFINE next == NextTime(job.when, now)
             new == [job.suite EXCEPT !.nextRun = next]
  <2>2. next \in Int
    BY <1>32, <2>1, JobFacts, NextTimeType DEF NextRunMissed, Shape
  <2>3. new \in SuiteRecs
    BY <2>1, <2>2, SuiteChanges
  <2>4. PICK out : SuitePatched(new, out) /\ Return(out.res # "OK")
    BY <1>32 DEF NextRunMissed, SuitePatched
  <2> HIDE DEF next, new
  <2>5. CASE ~Calm'
    BY <2>5, DisturbedAttentive
  <2>6. CASE Calm'
    <3>1. job' = Idle /\ ~queued
      BY <2>4, <2>6 DEF Return, Calm, Shape
    <3>2. Fresh(suiteFeed) /\ Fresh(runFeed) /\ Suite' = Suite /\ Runs' = Runs
      BY <2>1, <2>3, <2>4, <2>6, PatchedShape DEF Calm
    <3>3. Attends(job, Suite, Runs)
      BY <1>4, <2>1, <3>1, <3>2 DEF Calm
    <3>4. "due" \in Late /\ "due" \in Resting
      BY DEF Late, Resting, Quiet
    <3>5. ~Suite.del /\ SuiteFin \in Suite.fins /\ OneReleased(Runs) /\ AtRest(Suite, Runs)
      BY <2>1, <3>3, <3>4 DEF Attends, CalmSuite, CalmRuns, CalmPhase, AtRest
    <3> QED
      BY <3>1, <3>2, <3>5, RestingAttentive
  <2> QED
    BY <2>5, <2>6
<1>33. ASSUME NextRunIsDue PROVE Attentive'
  <2>1. CASE ~Calm'
    BY <2>1, DisturbedAttentive
  <2>2. CASE Calm'
    <3>1. /\ Working /\ Goes(job) /\ job.step = "due" /\ queued' = queued /\ Locally
          /\ job' = [job EXCEPT !.step = "trigger", !.cause = <<"Scheduled", job.suite.nextRun>>]
      BY <1>33, StepWorks DEF NextRunIsDue
    <3>2. Calm /\ Suite' = Suite /\ Runs' = Runs
      BY <1>5, <2>2, <3>1
    <3>3. Attends(job, Suite, Runs)
      BY <1>4, <3>1, <3>2
    <3>4. job'.step = "trigger" /\ job'.suite = job.suite /\ job'.base = job.base /\ job'.runs = job.runs
      BY <3>1 DEF Goes, Jobs
    <3>5. "trigger" \notin Late /\ "trigger" \in Resting /\ "due" \in Resting /\ "due" \in Late
      BY DEF Late, Resting, Quiet
    <3>6. Attends(job', Suite, Runs)
      BY <3>1, <3>3, <3>4, <3>5 DEF Attends, CalmSuite, CalmRuns, CalmPhase
    <3>7. Goes(job')
      BY <1>2, <3>4 DEF Shape, Idle
    <3> QED
      BY <3>2, <3>6, <3>7, OngoingAttentive
  <2> QED
    BY <2>1, <2>2
<1> QED
  BY <1>3, <1>6, <1>7, <1>8, <1>9, <1>10, <1>11, <1>12, <1>13, <1>14, <1>15, <1>16, <1>17, <1>18, <1>19, <1>20,
     <1>21, <1>22, <1>23, <1>24, <1>25, <1>26, <1>27, <1>28, <1>29, <1>30, <1>31, <1>32, <1>33 DEF Controller

\* Steps outside of the controller change nothing, or queue the key, or leave an
\* event under way that will.
LEMMA BystanderAttentive ==
  ASSUME Shape, Attentive, \/ SuiteEvent \/ RunEvent \/ WakeUp \/ Tick \/ Restart \/ Cluster \/ UNCHANGED vars
  PROVE  Attentive'
<1>1. CASE ~Calm'
  BY <1>1, DisturbedAttentive
<1>2. CASE Calm'
  <2>1. UNCHANGED <<suiteFeed, runFeed, queued, job>>
    <3>1. ~(SuiteEvent \/ RunEvent \/ WakeUp \/ Restart)
      BY <1>2 DEF Calm, SuiteEvent, RunEvent, WakeUp, Restart
    <3>2. CASE Tick \/ UNCHANGED vars
      BY <3>2 DEF Tick, vars
    <3>3. CASE Cluster
      <4>1. CASE /\ \E x \in SuiteRecs : suiteFeed' = Publish(suiteFeed, x)
                 /\ UNCHANGED <<runFeed, queued, job>>
        BY <1>2, <4>1, SuiteWritten DEF Calm
      <4>2. CASE /\ \E r \in Names, x \in RunRecs : PublishRun(r, x)
                 /\ UNCHANGED <<suiteFeed, queued, job>>
        BY <1>2, <4>2, RunWritten DEF Calm
      <4>3. CASE queued' \in {queued, TRUE} /\ UNCHANGED <<suiteFeed, runFeed, job>>
        BY <1>2, <4>3 DEF Calm, Shape
      <4> QED
        BY <3>3, <4>1, <4>2, <4>3, ClusterWrites
    <3> QED
      BY <3>1, <3>2, <3>3
  <2>2. Suite' = Suite /\ Runs' = Runs /\ (Calm' <=> Calm) /\ (Working' <=> Working) /\ (Quiescent' <=> Quiescent)
    BY <2>1 DEF Suite, Runs, Calm, Working, Quiescent
  <2>3. Converged' /\ DeletionGoesOn'
    BY <2>2 DEF Attentive, Converged, DeletionGoesOn
  <2>4. Working' /\ Calm' => Attends(job', Suite', Runs')
    BY <2>1, <2>2 DEF Attentive
  <2> QED
    BY <2>3, <2>4 DEF Attentive
<1> QED
  BY <1>1, <1>2

\* The inductive invariant of convergence.
LEMMA AttentiveInvariant == Spec => [](Shape /\ DeletedHeld /\ Attentive)
<1>1. Init => Shape /\ DeletedHeld /\ Attentive
  <2>1. Init => Attentive
    BY DEF Init, Attentive, Converged, DeletionGoesOn, Quiescent, Calm
  <2> QED
    BY <2>1, InitShape, InitDeletedHeld
<1>2. ASSUME Shape, DeletedHeld, Attentive, [Next]_vars PROVE Shape' /\ DeletedHeld' /\ Attentive'
  BY <1>2, NextShape, NextDeletedHeld, ControllerAttentive, BystanderAttentive DEF Next
<1> QED
  BY <1>1, <1>2, PTL DEF Spec

\* When no work is left a suite that is not deleted has its finalizer, follows
\* a run that is not finished or is Ready with no unfinished run, no trigger and
\* no more runs than its history limit, and has let go of one of the runs that
\* are being deleted: no event or error is lost, whatever the age of the caches.
THEOREM AlwaysConverged == Spec => []Converged
<1>1. Attentive => Converged
  BY DEF Attentive
<1> QED
  BY <1>1, AttentiveInvariant, PTL

\* A deleted suite never waits for a run the controller should have let go of.
THEOREM DeletionAlwaysGoesOn == Spec => []DeletionGoesOn
<1>1. Attentive => DeletionGoesOn
  BY DEF Attentive
<1> QED
  BY <1>1, AttentiveInvariant, PTL

-----------------------------------------------------------------------------
(***************************************************************************)
(* One run at a time, with current caches and no failing call: a run that  *)
(* is not finished is the one the suite's status names, or the one the     *)
(* reconcile in progress just created and is about to record there.        *)
(***************************************************************************)
Current == MaxLag = 0 /\ MaxFaults = 0 /\ MaxRestarts = 0

\* The run the suite's status names.
Followed(suite) == IF suite.phase = "Running" /\ suite.current # None THEN {suite.current} ELSE {}

\* A run that was finished or deleted when it was listed still is.
Closed(list, runs) ==
  \A r \in Listed(list) : IsFinal(list[r].phase) \/ list[r].del => r \notin Unfinished(runs)

\* What the reconcile j knows of phase and current run of the suite, which
\* nobody else writes, and of the runs, which nobody else creates.
Knows(j, suite, runs) ==
  /\ j.step \notin {"track", "done"} => Closed(j.runs, runs)
  /\ j.step \in {"delete", "release"} => ~Exists(suite) \/ suite.del
  /\ j.step = "release" => Listed(runs) = {}
  /\ j.step \notin {"delete", "release", "finalizer"} =>
       /\ Exists(suite) /\ SuiteFin \in suite.fins
       /\ j.suite.phase = suite.phase /\ j.suite.current = suite.current
       /\ j.base.phase = suite.phase /\ j.base.current = suite.current
  /\ j.step \in {"pending", "ready", "history"} \cup Resting => suite.phase # "Running"
  /\ j.step \in {"create", "track"} => suite.phase = "Running" /\ suite.current = None /\ j.base = j.suite
  /\ j.step = "track" => \E r \in Names : j.todo = {r}
  /\ j.step = "focus" => Unfinished(runs) = {} /\ (suite.phase # "Running" \/ suite.current # None)
  /\ j.step = "finish" => /\ suite.phase = "Running" /\ suite.current \in Live(j.runs)
                          /\ IsFinal(j.runs[suite.current].phase)

Lone(j, suite, runs) ==
  /\ ~Exists(suite) \/ SuiteFin \notin suite.fins => Listed(runs) = {}
  /\ Unfinished(runs) \subseteq IF j.step = "track" THEN j.todo ELSE Followed(suite)
  /\ j.step # "idle" => Knows(j, suite, runs)

Alone == Lone(job, Suite, Runs)

\* Restarts, deletions and edits are counted.
Counted == restarts \in Nat /\ deletions \in Nat /\ edits \in Nat

\* The controller leaves to others what they count, and forgets a trigger only
\* when it creates a run.
LEMMA ControllerLeaves ==
  ASSUME Controller
  PROVE  UNCHANGED <<restarts, bounds>> /\ (owed' = owed \/ CreateRun)
<1> USE DEF env, history, Locally
<1>1. ASSUME NEW r \in Names, CleanUpRun(r) \/ ReleaseRun(r) PROVE UNCHANGED <<restarts, bounds>> /\ owed' = owed
  BY <1>1 DEF CleanUpRun, ReleaseRun
<1>2. ASSUME \/ Reconcile \/ Done \/ RunsDeleted \/ HistoryEnforced \/ ReleaseSuite \/ EnsureFinalizer
             \/ Compact \/ RunsReleased \/ WaitForNextRun \/ NextRunIsDue \/ NextRunMissed
             \/ NilSchedule \/ SetRunning \/ MissingRun \/ CreateRunFails
      PROVE  UNCHANGED <<restarts, bounds>> /\ owed' = owed
  BY <1>2 DEF Reconcile, Done, RunsDeleted, HistoryEnforced, ReleaseSuite, EnsureFinalizer, Compact,
              RunsReleased, WaitForNextRun, NextRunIsDue, NextRunMissed, NilSchedule, SetRunning, MissingRun,
              CreateRunFails
<1>3. ASSUME \/ ClearNextRun \/ DropSchedule \/ NoSchedule \/ Focus \/ SetPending \/ SetReady \/ Annotate
             \/ SetNextRun \/ RejectSchedule \/ ResetTrigger \/ AnnotateRelease \/ TrackRun \/ FinishRun
      PROVE  UNCHANGED <<restarts, bounds>> /\ owed' = owed
  BY <1>3 DEF ClearNextRun, DropSchedule, NoSchedule, Focus, SetPending, SetReady, Annotate, SetNextRun,
              RejectSchedule, ResetTrigger, AnnotateRelease, TrackRun, FinishRun, PatchSuite, TryPatchSuite
<1>4. ASSUME CreateRun PROVE UNCHANGED <<restarts, bounds>>
  BY <1>4 DEF CreateRun
<1> QED
  BY <1>1, <1>2, <1>3, <1>4 DEF Controller

\* Every step counts up or leaves the counters alone.
LEMMA NextCounted == Counted /\ [Next]_vars => Counted'
<1> SUFFICES ASSUME Counted, [Next]_vars PROVE Counted'
  OBVIOUS
<1> USE DEF Counted
<1>1. CASE Controller
  BY <1>1, ControllerLeaves DEF bounds
<1>2. CASE SuiteEvent \/ RunEvent \/ WakeUp \/ Tick \/ Restart
  BY <1>2 DEF SuiteEvent, RunEvent, WakeUp, Tick, Restart, env, bounds
<1>3. CASE Cluster
  <2>1. ASSUME UserTriggers \/ ScheduleEdited \/ SuiteDeleted \/ ReleaseDeployed PROVE Counted'
    <3>1. CASE UserTriggers
      BY <3>1 DEF UserTriggers, Others
    <3>2. CASE ScheduleEdited
      BY <3>2 DEF ScheduleEdited, Others
    <3>3. CASE SuiteDeleted
      BY <3>3 DEF SuiteDeleted, Others, bounds
    <3>4. CASE ReleaseDeployed
      BY <3>4 DEF ReleaseDeployed, bounds
    <3> QED
      BY <2>1, <3>1, <3>2, <3>3, <3>4
  <2>2. ASSUME NEW r \in Names, RunAdopted(r) \/ RunDecided(r, "Passed") \/ RunDecided(r, "Failed") PROVE Counted'
    BY <2>2 DEF RunAdopted, RunDecided, Others, bounds
  <2>3. ASSUME NEW r \in Names, RunLetGo(r) \/ RunDeleted(r) \/ RunOrphaned(r) PROVE Counted'
    BY <2>3 DEF RunLetGo, RunDeleted, RunOrphaned, Others, bounds
  <2> QED
    BY <1>3, <2>1, <2>2, <2>3 DEF Cluster
<1>4. CASE UNCHANGED vars
  BY <1>4 DEF vars, bounds
<1> QED
  BY <1>1, <1>2, <1>3, <1>4 DEF Next

\* They are numbers.
LEMMA CountedInvariant == Spec => []Counted
<1>1. Init => Counted
  BY DEF Init, Counted
<1> QED
  BY <1>1, NextCounted, PTL DEF Spec
-----------------------------------------------------------------------------
\* A run the suite waits for: it exists and is neither deleted nor finished.
Open(run) == Exists(run) /\ ~run.del /\ ~IsFinal(run.phase)

\* The lists of runs, by what is in them.
LEMMA UnfinishedAre ==
  ASSUME NEW runs
  PROVE  /\ Unfinished(runs) = {r \in Names : Open(runs[r])}
         /\ Listed(runs) = {r \in Names : Exists(runs[r])}
         /\ Unfinished(runs) \subseteq Live(runs) /\ Live(runs) \subseteq Listed(runs)
BY DEF Unfinished, Live, Listed, Open

\* A step that only lets runs finish, be deleted or disappear.
Closes(run, x) == (Exists(x) => Exists(run)) /\ (Open(x) => Open(run))

\* It makes the lists of runs no longer.
LEMMA ClosingRun ==
  ASSUME NEW runs \in RunLists, NEW r \in Names, NEW x, Closes(runs[r], x)
  PROVE  /\ Listed([runs EXCEPT ![r] = x]) \subseteq Listed(runs)
         /\ Unfinished([runs EXCEPT ![r] = x]) \subseteq Unfinished(runs)
<1> DEFINE left == [runs EXCEPT ![r] = x]
<1>1. \A q \in Names : left[q] = IF q = r THEN x ELSE runs[q]
  BY DEF RunLists
<1> HIDE DEF left
<1>2. \A q \in Names : (Exists(left[q]) => Exists(runs[q])) /\ (Open(left[q]) => Open(runs[q]))
  BY <1>1 DEF Closes
<1>3. Listed(left) \subseteq Listed(runs) /\ Unfinished(left) \subseteq Unfinished(runs)
  BY <1>2, UnfinishedAre
<1> QED
  BY <1>3 DEF left

\* A reconcile that lets go of a run or ends one leaves the suite with what it
\* knew.
LEMMA ClosingLone ==
  ASSUME NEW j, NEW k, NEW suite, NEW runs, NEW left, Lone(j, suite, runs), k.step = j.step,
         k.suite = j.suite, k.base = j.base, k.runs = j.runs, j.step = "track" => k.todo = j.todo,
         Listed(left) \subseteq Listed(runs), Unfinished(left) \subseteq Unfinished(runs)
  PROVE  Lone(k, suite, left)
<1>1. j.step # "idle" => Knows(k, suite, left)
  BY DEF Lone, Knows, Closed
<1> QED
  BY <1>1 DEF Lone

\* A reconcile that ends, other than with a run it has not recorded.
LEMMA EndingLone ==
  ASSUME NEW j, NEW suite, NEW runs, Lone(j, suite, runs), j.step # "track"
  PROVE  Lone(Idle, suite, runs)
BY DEF Lone, Idle

\* A reconcile that goes on with the right phase and current run.
LEMMA GoingLone ==
  ASSUME NEW j, NEW copy, NEW suite, NEW list, NEW runs, Proceeds(j, copy, list),
         copy.phase = suite.phase, copy.current = suite.current, Exists(suite), SuiteFin \in suite.fins,
         j.step # "done" => Closed(list, runs), Unfinished(runs) \subseteq Followed(suite),
         j.step \in {"focus", "pending", "ready", "history"} \cup Quiet => suite.phase # "Running",
         j.step = "create" => suite.phase = "Running" /\ suite.current = None,
         j.step = "finish" => /\ suite.phase = "Running" /\ suite.current \in Live(list)
                              /\ IsFinal(list[suite.current].phase)
  PROVE  Lone(j, suite, runs)
<1>1. /\ j.suite = copy /\ j.base = copy /\ j.runs = list
      /\ j.step \notin {"delete", "release", "track", "trigger", "idle"}
  BY DEF Proceeds, Late, Begun, Quiet
<1>2. suite.phase # "Running" => Unfinished(runs) = {}
  BY DEF Followed
<1>3. Knows(j, suite, runs)
  BY <1>1, <1>2 DEF Knows, Resting
<1> QED
  BY <1>1, <1>3 DEF Lone

\* So does one that looked at both.
LEMMA PlacedLone ==
  ASSUME NEW j, NEW copy, NEW suite, NEW list, NEW runs, Proceeds(j, copy, list), Placed(j, copy, list),
         copy.phase = suite.phase, copy.current = suite.current, Exists(suite), SuiteFin \in suite.fins,
         Closed(list, runs), Unfinished(runs) \subseteq Followed(suite)
  PROVE  Lone(j, suite, runs)
BY GoingLone DEF Placed

\* One that has not come to look at the phase yet, or just did.
LEMMA AfterLone ==
  ASSUME NEW copy \in SuiteRecs, NEW suite \in SuiteRecs, NEW list \in RunLists, NEW runs,
         copy.phase = suite.phase, copy.current = suite.current, Exists(suite), SuiteFin \in suite.fins,
         Closed(list, runs), Unfinished(runs) \subseteq Followed(suite)
  PROVE  Lone(AfterSchedule(copy, list), suite, runs) /\ Lone(AfterFinalizer(copy, list), suite, runs)
<1>1. Exists(copy)
  BY DEF Exists
<1>2. ASSUME NEW j, Proceeds(j, copy, list), j.step \in Begun PROVE Lone(j, suite, runs)
  BY <1>2, GoingLone DEF Begun, Quiet
<1>3. Lone(AfterSchedule(copy, list), suite, runs)
  BY <1>1, <1>2, AfterScheduleIs, PlacedLone DEF Begun
<1>4. Lone(AfterFinalizer(copy, list), suite, runs)
  BY <1>1, <1>2, AfterFinalizerIs, PlacedLone DEF Begun
<1> QED
  BY <1>3, <1>4

\* With no failing call a patch of a suite that exists is applied, or refused as
\* a whole because it was made from an old copy.
LEMMA CleanAnswer ==
  ASSUME Shape, Current, Alone, Working, job.step \notin {"delete", "release", "finalizer"},
         NEW new \in SuiteRecs, new.fins = job.suite.fins,
         new.phase = job.suite.phase \/ new.phase \in {"Pending", "Ready", "Running"},
         NEW out \in PatchAnswers(new)
  PROVE  /\ out.obj \in SuiteRecs
         /\ SuiteFin \in out.obj.fins /\ Exists(out.obj)
         /\ out.res = "OK" => out.obj.phase = new.phase /\ out.obj.current = new.current
         /\ out.res # "OK" => out.obj = Suite
         /\ job.base = job.suite => out.res = "OK"
<1>1. Suite \in SuiteRecs /\ job.base \in SuiteRecs /\ job.suite \in SuiteRecs
  BY ShapeFacts, JobFacts
<1>2. /\ Exists(Suite) /\ SuiteFin \in Suite.fins
      /\ job.suite.phase = Suite.phase /\ job.base.phase = Suite.phase /\ job.base.current = Suite.current
  BY DEF Alone, Lone, Knows, Working
<1>3. out.obj \in SuiteRecs
  BY <1>1, SuiteAnswers
<1>4. out.obj.fins = Suite.fins
  BY PatchKeeps
<1>5. out.res # "Error" /\ out.res # "NotFound"
  BY <1>1, <1>2, SuiteAnswers DEF Current, Shape
<1>6. /\ out.res \in {"OK", "Conflict"}
      /\ out.res = "OK" => out.obj = Merged(Suite, job.base, new)
      /\ out.res = "Conflict" => job.base # job.suite /\ out.obj = Suite
  BY <1>1, <1>5, SuiteAnswers
<1>7. out.res = "OK" => out.obj.phase = new.phase /\ out.obj.current = new.current
  <2> HAVE out.res = "OK"
  <2>1. /\ out.obj.phase = Taken(Suite.phase, job.base.phase, new.phase)
        /\ out.obj.current = Taken(Suite.current, job.base.current, new.current)
    BY <1>1, <1>2, <1>6, MergedFields
  <2> QED
    BY <1>2, <2>1 DEF Taken
<1>8. Exists(out.obj)
  BY <1>2, <1>6, <1>7 DEF Exists
<1> QED
  BY <1>2, <1>3, <1>4, <1>6, <1>7, <1>8

\* So what is stored after it has phase and current run of the reconcile, or did
\* not change.
LEMMA CleanPatch ==
  ASSUME Shape, Current, Alone, Working, job.step \notin {"delete", "release", "finalizer"},
         NEW new \in SuiteRecs, new.fins = job.suite.fins,
         new.phase = job.suite.phase \/ new.phase \in {"Pending", "Ready", "Running"},
         NEW out, SuitePatched(new, out)
  PROVE  /\ out.obj \in SuiteRecs /\ Suite' = out.obj /\ Runs' = Runs
         /\ SuiteFin \in out.obj.fins /\ Exists(out.obj)
         /\ out.res = "OK" => out.obj.phase = new.phase /\ out.obj.current = new.current
         /\ out.res # "OK" => out.obj = Suite
         /\ job.base = job.suite => out.res = "OK"
<1>1. out.obj \in SuiteRecs /\ Suite' = out.obj /\ Runs' = Runs /\ out \in PatchAnswers(new)
  BY PatchedShape DEF SuitePatched
<1> QED
  BY <1>1, CleanAnswer

\* A patch that leaves phase and current run alone.
LEMMA SteadyPatch ==
  ASSUME Shape, Current, Alone, Working, job.step \notin {"delete", "release", "finalizer", "track"},
         NEW new \in SuiteRecs, new.fins = job.suite.fins,
         new.phase = job.suite.phase, new.current = job.suite.current,
         NEW out, SuitePatched(new, out)
  PROVE  /\ out.obj \in SuiteRecs /\ Suite' = out.obj /\ Runs' = Runs
         /\ SuiteFin \in out.obj.fins /\ Exists(out.obj)
         /\ out.obj.phase = Suite.phase /\ out.obj.current = Suite.current
         /\ new.phase = Suite.phase /\ new.current = Suite.current
         /\ Unfinished(Runs) \subseteq Followed(out.obj) /\ (job.step # "done" => Closed(job.runs, Runs))
         /\ Lone(Idle, out.obj, Runs)
<1>1. /\ out.obj \in SuiteRecs /\ Suite' = out.obj /\ Runs' = Runs
      /\ SuiteFin \in out.obj.fins /\ Exists(out.obj)
      /\ out.res = "OK" => out.obj.phase = new.phase /\ out.obj.current = new.current
      /\ out.res # "OK" => out.obj = Suite
  BY CleanPatch
<1>2. /\ job.suite.phase = Suite.phase /\ job.suite.current = Suite.current
      /\ Unfinished(Runs) \subseteq Followed(Suite) /\ (job.step # "done" => Closed(job.runs, Runs))
  BY DEF Alone, Lone, Knows, Working
<1>3. /\ out.obj.phase = Suite.phase /\ out.obj.current = Suite.current
  BY <1>1, <1>2
<1>4. Unfinished(Runs) \subseteq Followed(out.obj)
  BY <1>2, <1>3 DEF Followed
<1>5. Lone(Idle, out.obj, Runs)
  BY <1>1, <1>4 DEF Lone, Idle
<1> QED
  BY <1>1, <1>2, <1>3, <1>4, <1>5

\* A patch the reconcile goes on after, by what it goes on with.
LEMMA ProceedingLone ==
  ASSUME Shape, Current, Alone, Working, job.step \notin {"delete", "release", "finalizer", "track"},
         NEW new \in SuiteRecs, new.fins = job.suite.fins,
         new.phase = job.suite.phase \/ new.phase \in {"Pending", "Ready", "Running"},
         NEW out, NEW j, Proceeding(new, out, j),
         out.res = "OK" => Lone(j, out.obj, Runs)
  PROVE  Alone'
<1>1. /\ Suite' = out.obj /\ Runs' = Runs /\ (out.res # "OK" => out.obj = Suite)
  BY CleanPatch DEF Proceeding
<1>2. CASE out.res = "OK"
  BY <1>1, <1>2 DEF Proceeding, Alone
<1>3. CASE out.res # "OK"
  <2>1. job' = Idle /\ Suite' = Suite
    BY <1>1, <1>3 DEF Proceeding, Return
  <2>2. Lone(Idle, Suite, Runs)
    BY EndingLone DEF Alone
  <2> QED
    BY <1>1, <2>1, <2>2 DEF Alone
<1> QED
  BY <1>2, <1>3

\* The calls about a run only close it, and giving up the finalizer does not even
\* that to a run the suite waits for.
LEMMA CallsClose ==
  ASSUME NEW run \in RunRecs, NEW copy \in RunRecs
  PROVE  /\ \A out \in cleanUp(copy, run, SuiteFin, "Resource") : Closes(run, out.obj)
         /\ \A out \in removeFinalizer(copy, run, SuiteFin, "Resource") :
              Closes(run, out.obj) /\ (Open(run) => Open(out.obj))
<1>1. ASSUME NEW x \in RunRecs PROVE Closes(x, Reaped(x)) /\ (Open(x) => Open(Reaped(x)))
  <2>1. CASE Reaped(x) = x
    BY <2>1 DEF Closes
  <2>2. CASE Reaped(x) # x
    <3>1. Exists(x) /\ x.del /\ Reaped(x).phase = "Gone"
      BY <2>2 DEF Reaped, RunRecs
    <3> QED
      BY <3>1 DEF Closes, Open, Exists
  <2> QED
    BY <2>1, <2>2
<1>2. ASSUME NEW x \in RunRecs PROVE Deleted(x) \in RunRecs /\ Closes(x, Deleted(x))
  <2>1. Deleted(x) \in RunRecs
    BY RunTypes
  <2>2. Deleted(x) = x \/ (Deleted(x).phase = x.phase /\ Deleted(x).del)
    BY DEF Deleted, RunRecs
  <2> QED
    BY <2>1, <2>2 DEF Closes, Open, Exists
<1>3. ASSUME NEW x \in RunRecs, NEW fins \in SUBSET {SuiteFin, RunFin}
      PROVE  WithFins(x, fins) \in RunRecs /\ Closes(x, WithFins(x, fins)) /\ (Open(x) => Open(WithFins(x, fins)))
  <2>1. WithFins(x, fins) \in RunRecs
    BY RunTypes
  <2>2. WithFins(x, fins).phase = x.phase /\ WithFins(x, fins).del = x.del
    BY DEF WithFins, RunRecs
  <2> QED
    BY <2>1, <2>2 DEF Closes, Open, Exists
<1>4. \A x, y, z : Closes(x, y) /\ Closes(y, z) => Closes(x, z)
  BY DEF Closes
<1>5. copy.fins \ {SuiteFin} \in SUBSET {SuiteFin, RunFin}
  BY DEF RunRecs
<1>6. ASSUME NEW out \in cleanUp(copy, run, SuiteFin, "Resource") PROVE Closes(run, out.obj)
  <2> DEFINE deleted == IF copy.del THEN run ELSE Reaped(Deleted(run))
             less    == WithFins(deleted, copy.fins \ {SuiteFin})
  <2>1. deleted \in RunRecs /\ Closes(run, deleted)
    <3>1. Reaped(Deleted(run)) \in RunRecs /\ Closes(run, Reaped(Deleted(run)))
      BY <1>1, <1>2, <1>4, RunTypes
    <3> QED
      BY <3>1 DEF Closes
  <2>2. out.obj \in {run, deleted, Reaped(less)}
    BY CleanUpOutcomes
  <2> HIDE DEF deleted
  <2>3. less \in RunRecs /\ Closes(run, less)
    BY <1>3, <1>4, <1>5, <2>1
  <2> HIDE DEF less
  <2>4. Closes(run, run) /\ Closes(run, Reaped(less))
    BY <1>1, <1>4, <2>3 DEF Closes
  <2> QED
    BY <2>1, <2>2, <2>4
<1>7. ASSUME NEW out \in removeFinalizer(copy, run, SuiteFin, "Resource")
      PROVE  Closes(run, out.obj) /\ (Open(run) => Open(out.obj))
  <2> DEFINE less == WithFins(run, copy.fins \ {SuiteFin})
  <2>1. out.obj \in {run, Reaped(less)}
    BY FinOutcomes DEF removeFinalizer
  <2>2. less \in RunRecs /\ Closes(run, less) /\ (Open(run) => Open(less))
    BY <1>3, <1>5
  <2> HIDE DEF less
  <2>3. Closes(run, Reaped(less)) /\ (Open(run) => Open(Reaped(less))) /\ Closes(run, run)
    BY <1>1, <1>4, <2>2 DEF Closes
  <2> QED
    BY <2>1, <2>3
<1> QED
  BY <1>6, <1>7

-----------------------------------------------------------------------------
\* Every action of the controller keeps the suite's run alone.
LEMMA ControllerLone ==
  ASSUME Shape, Current, Alone, Controller
  PROVE  Alone'
<1>1. ASSUME Reconcile PROVE Alone'
  <2> DEFINE suite == Cached(suiteFeed)
             runs  == Cached(runFeed)
  <2>1. Fresh(suiteFeed) /\ Fresh(runFeed)
    <3>1. Len(suiteFeed) \in Nat \ {0} /\ Len(runFeed) \in Nat \ {0}
      BY FeedStates DEF Shape
    <3>2. Len(suiteFeed) <= 1 /\ Len(runFeed) <= 1
      BY <1>1 DEF Reconcile, Current
    <3>3. \A n \in Nat \ {0} : n <= 1 => n = 1
      OBVIOUS
    <3> QED
      BY <3>1, <3>2, <3>3 DEF Fresh
  <2>2. suite = Suite /\ runs = Runs /\ Suite \in SuiteRecs /\ Runs \in RunLists
    BY <2>1, ShapeFacts
  <2>3. Suite' = Suite /\ Runs' = Runs /\ ~Working
    BY <1>1 DEF Reconcile, Locally, Suite, Runs
  <2>4. /\ ~Exists(Suite) \/ SuiteFin \notin Suite.fins => Listed(Runs) = {}
        /\ Unfinished(Runs) \subseteq Followed(Suite)
    BY <2>3 DEF Alone, Lone, Working
  <2>5. Closed(Runs, Runs)
    BY DEF Closed, Unfinished, Live
  <2>6. \/ job' = Idle
        \/ job' = At("release", Suite, Runs, Listed(Runs)) /\ Listed(Runs) = {} /\ Suite.del
        \/ job' = At("delete", Suite, Runs, Listed(Runs)) /\ Suite.del
        \/ job' = At("finalizer", Suite, Runs, {})
        \/ job' = AfterFinalizer(Suite, Runs) /\ Exists(Suite) /\ SuiteFin \in Suite.fins
    BY <1>1, <2>2 DEF Reconcile
  <2>7. CASE job' = Idle
    BY <2>3, <2>4, <2>7 DEF Alone, Lone, Idle
  <2>8. CASE job' = AfterFinalizer(Suite, Runs) /\ Exists(Suite) /\ SuiteFin \in Suite.fins
    BY <2>2, <2>3, <2>4, <2>5, <2>8, AfterLone DEF Alone
  <2>9. ASSUME NEW step \in {"release", "delete", "finalizer"}, NEW todo, job' = At(step, Suite, Runs, todo),
               step = "release" => Listed(Runs) = {}, step # "finalizer" => Suite.del
        PROVE  Alone'
    <3>1. job'.step = step /\ job'.runs = Runs
      BY <2>9, AtShape
    <3>2. Knows(job', Suite, Runs)
      BY <2>5, <2>9, <3>1 DEF Knows, Resting, Quiet
    <3> QED
      BY <2>3, <2>4, <2>9, <3>1, <3>2 DEF Alone, Lone
  <2> QED
    BY <2>6, <2>7, <2>8, <2>9
<1>2. ASSUME Done \/ MissingRun \/ RunsDeleted \/ WaitForNextRun \/ CreateRunFails PROVE Alone'
  <2>1. job.step # "track" /\ job' = Idle /\ Suite' = Suite /\ Runs' = Runs
    BY <1>2 DEF Done, MissingRun, RunsDeleted, WaitForNextRun, CreateRunFails, Return, Locally, Suite, Runs
  <2> QED
    BY <2>1, EndingLone DEF Alone
<1>3. ASSUME NilSchedule PROVE Alone'
  <2>1. job.step # "track" /\ job' = Idle /\ Suite' = Suite /\ Runs' = Runs
    BY <1>3, ShapeFacts, RestartStates DEF NilSchedule, Suite, Runs
  <2> QED
    BY <2>1, EndingLone DEF Alone
<1>4. ASSUME NEW r \in Names, CleanUpRun(r) PROVE Alone'
  <2>1. Working /\ Goes(job)
    BY <1>4, StepWorks DEF CleanUpRun
  <2>2. Runs[r] \in RunRecs /\ job.runs[r] \in RunRecs /\ Runs \in RunLists
    BY <2>1, ShapeFacts, JobFacts
  <2>3. PICK out \in cleanUp(job.runs[r], Runs[r], SuiteFin, "Resource") :
          PublishRun(r, out.obj) /\ job' = [job EXCEPT !.todo = @ \ {r}, !.err = @ \/ out.res # "OK"]
    BY <1>4, AnswersAre DEF CleanUpRun
  <2>4. Closes(Runs[r], out.obj) /\ Runs' = [Runs EXCEPT ![r] = out.obj] /\ Suite' = Suite
    BY <1>4, <2>2, <2>3, CallsClose, RunAnswers, RunWritten DEF CleanUpRun, Suite
  <2>5. /\ job'.step = job.step /\ job'.suite = job.suite /\ job'.base = job.base /\ job'.runs = job.runs
        /\ job.step # "track"
    BY <1>4, <2>1, <2>3 DEF Goes, Jobs, CleanUpRun
  <2>6. Listed(Runs') \subseteq Listed(Runs) /\ Unfinished(Runs') \subseteq Unfinished(Runs)
    BY <2>2, <2>4, ClosingRun
  <2>7. Lone(job, Suite, Runs)
    BY DEF Alone
  <2>8. Lone(job', Suite, Runs')
    BY <2>5, <2>6, <2>7, ClosingLone
  <2> QED
    BY <2>4, <2>8 DEF Alone
<1>5. ASSUME NEW r \in Names, ReleaseRun(r) PROVE Alone'
  <2>1. Working /\ Goes(job)
    BY <1>5, StepWorks DEF ReleaseRun
  <2>2. Runs[r] \in RunRecs /\ job.runs[r] \in RunRecs /\ Runs \in RunLists
    BY <2>1, ShapeFacts, JobFacts
  <2>3. PICK out \in removeFinalizer(job.runs[r], Runs[r], SuiteFin, "Resource") :
          PublishRun(r, out.obj) /\ (job' = [job EXCEPT !.todo = @ \ {r}] \/ job' = Idle)
    BY <1>5, AnswersAre DEF ReleaseRun, Return
  <2>4. Closes(Runs[r], out.obj) /\ Runs' = [Runs EXCEPT ![r] = out.obj] /\ Suite' = Suite
    BY <1>5, <2>2, <2>3, CallsClose, RunAnswers, RunWritten DEF ReleaseRun, Suite
  <2>5. /\ job.step # "track"
        /\ LET j == [job EXCEPT !.todo = @ \ {r}]
           IN  j.step = job.step /\ j.suite = job.suite /\ j.base = job.base /\ j.runs = job.runs
    BY <1>5, <2>1 DEF Goes, Jobs, ReleaseRun
  <2>6. Listed(Runs') \subseteq Listed(Runs) /\ Unfinished(Runs') \subseteq Unfinished(Runs)
    BY <2>2, <2>4, ClosingRun
  <2>7. Lone([job EXCEPT !.todo = @ \ {r}], Suite, Runs')
    BY <2>5, <2>6, ClosingLone DEF Alone
  <2>8. Lone(Idle, Suite, Runs')
    BY <2>5, <2>7, EndingLone
  <2> QED
    BY <2>3, <2>4, <2>7, <2>8 DEF Alone
<1>6. ASSUME Working, job.step \notin {"delete", "release", "finalizer", "track"}
      PROVE  /\ Exists(Suite) /\ SuiteFin \in Suite.fins /\ Suite \in SuiteRecs
             /\ job.suite.phase = Suite.phase /\ job.suite.current = Suite.current
             /\ job.base.phase = Suite.phase /\ job.base.current = Suite.current
             /\ job.step # "done" => Closed(job.runs, Runs)
             /\ Unfinished(Runs) \subseteq Followed(Suite)
             /\ job.suite \in SuiteRecs /\ job.base \in SuiteRecs /\ job.runs \in RunLists /\ job.todo \subseteq Names
             /\ Knows(job, Suite, Runs)
  BY <1>6, ShapeFacts, JobFacts DEF Alone, Lone, Knows, Working
<1>7. ASSUME HistoryEnforced PROVE Alone'
  <2>1. Working /\ job.step = "history"
    BY <1>7, StepWorks DEF HistoryEnforced
  <2>2. Suite.phase # "Running"
    BY <1>6, <2>1 DEF Knows
  <2>3. Lone(Scheduled(job.suite, job.runs), Suite, Runs)
    BY <1>6, <2>1, <2>2, ScheduledIs, GoingLone DEF Quiet
  <2>4. Lone(Idle, Suite, Runs)
    BY <2>1, EndingLone DEF Alone
  <2>5. (job' = Idle \/ job' = Scheduled(job.suite, job.runs)) /\ Suite' = Suite /\ Runs' = Runs
    BY <1>7 DEF HistoryEnforced, Return, Locally, Suite, Runs
  <2> QED
    BY <2>3, <2>4, <2>5 DEF Alone
<1>8. ASSUME Compact PROVE Alone'
  <2>1. Working /\ Goes(job) /\ job.step = "compact"
    BY <1>8, StepWorks DEF Compact
  <2>2. PICK todo : job' = [job EXCEPT !.step = "releaseRuns", !.todo = todo]
    BY <1>8 DEF Compact
  <2>3. /\ job'.step = "releaseRuns" /\ job'.suite = job.suite /\ job'.base = job.base /\ job'.runs = job.runs
        /\ Suite' = Suite /\ Runs' = Runs
    BY <1>8, <2>1, <2>2 DEF Goes, Jobs, Compact, Locally, Suite, Runs
  <2>4. Knows(job', Suite, Runs)
    BY <1>6, <2>1, <2>3 DEF Knows, Resting, Quiet
  <2> QED
    BY <1>6, <2>1, <2>3, <2>4 DEF Alone, Lone
<1>9. ASSUME RunsReleased PROVE Alone'
  <2>1. Working /\ job.step = "releaseRuns"
    BY <1>9, StepWorks DEF RunsReleased
  <2>2. Exists(job.suite)
    BY <1>6, <2>1 DEF Exists
  <2>3. Lone(EnsurePhase(job.suite, job.runs), Suite, Runs)
    BY <1>6, <2>1, <2>2, EnsurePhaseIs, PlacedLone
  <2> QED
    BY <1>9, <2>3 DEF RunsReleased, Locally, Suite, Runs, Alone
<1>10. ASSUME ReleaseSuite PROVE Alone'
  <2>1. Working /\ job.step = "release"
    BY <1>10, StepWorks DEF ReleaseSuite
  <2>2. Listed(Runs) = {} /\ Unfinished(Runs) = {}
    BY <2>1, UnfinishedAre DEF Alone, Lone, Knows, Working
  <2>3. job' = Idle /\ Runs' = Runs
    BY <1>10 DEF ReleaseSuite, Return, Runs
  <2> QED
    BY <2>2, <2>3 DEF Alone, Lone, Idle
<1>11. ASSUME EnsureFinalizer PROVE Alone'
  <2>1. Working /\ Goes(job) /\ job.step = "finalizer"
    BY <1>11, StepWorks DEF EnsureFinalizer
  <2>2. PICK out \in addFinalizer(job.suite, Suite, SuiteFin, "Resource") :
          /\ suiteFeed' = Publish(suiteFeed, out.obj)
          /\ IF out.res = "OK" THEN job' = AfterFinalizer(out.obj, job.runs) ELSE job' = Idle
    BY <1>11, AnswersAre DEF EnsureFinalizer, Return
  <2>3. Suite \in SuiteRecs /\ job.suite \in SuiteRecs /\ job.runs \in RunLists
    BY <2>1, ShapeFacts, JobFacts
  <2>4. /\ out.obj \in SuiteRecs /\ Suite' = out.obj /\ Runs' = Runs
        /\ out.obj = Suite \/ (SuiteFin \in out.obj.fins /\ Exists(Suite) /\ out.obj = [Suite EXCEPT !.fins = {SuiteFin}])
        /\ out.res = "OK" => Exists(Suite) /\ out.obj = [Suite EXCEPT !.fins = {SuiteFin}]
    BY <1>11, <2>2, <2>3, AddAnswers, SuiteWritten DEF EnsureFinalizer, Runs
  <2>5. /\ out.obj.phase = Suite.phase /\ out.obj.current = Suite.current
        /\ out.res = "OK" => SuiteFin \in out.obj.fins
    BY <2>3, <2>4 DEF SuiteRecs
  <2>6. /\ Unfinished(Runs) \subseteq Followed(Suite) /\ Closed(job.runs, Runs)
        /\ ~Exists(Suite) \/ SuiteFin \notin Suite.fins => Listed(Runs) = {}
    BY <2>1 DEF Alone, Lone, Knows
  <2>7. Unfinished(Runs) \subseteq Followed(out.obj) /\ (Exists(Suite) <=> Exists(out.obj))
    BY <2>5, <2>6 DEF Followed, Exists
  <2>8. CASE out.res = "OK"
    BY <2>2, <2>3, <2>4, <2>5, <2>6, <2>7, <2>8, AfterLone DEF Alone
  <2>9. CASE out.res # "OK"
    BY <2>2, <2>4, <2>6, <2>7, <2>9 DEF Alone, Lone, Idle
  <2> QED
    BY <2>8, <2>9
<1>12. ASSUME ClearNextRun PROVE Alone'
  <2> DEFINE new == [job.suite EXCEPT !.nextRun = None]
  <2>1. Working /\ Goes(job) /\ job.step = "clearNext"
    BY <1>12, StepWorks DEF ClearNextRun
  <2>2. /\ new \in SuiteRecs /\ new.fins = job.suite.fins
        /\ new.phase = job.suite.phase /\ new.current = job.suite.current
    <3>1. new \in SuiteRecs
      BY <2>1, JobFacts, SuiteChanges, Bounds DEF SuiteRecs
    <3> QED
      BY <2>1, <3>1, JobFacts DEF SuiteRecs
  <2>3. PICK out : Trying(new, out, AfterSchedule(IF out.res = "OK" THEN out.obj ELSE new, job.runs))
    BY <1>12 DEF ClearNextRun, TryPatchSuite, Trying, SuitePatched
  <2> HIDE DEF new
  <2>4. SuitePatched(new, out)
    BY <2>3 DEF Trying
  <2>5. /\ out.obj \in SuiteRecs /\ Suite' = out.obj /\ Runs' = Runs
        /\ SuiteFin \in out.obj.fins /\ Exists(out.obj)
        /\ out.obj.phase = Suite.phase /\ out.obj.current = Suite.current
        /\ new.phase = Suite.phase /\ new.current = Suite.current
        /\ Unfinished(Runs) \subseteq Followed(out.obj) /\ Closed(job.runs, Runs)
    BY <2>1, <2>2, <2>4, SteadyPatch
  <2> DEFINE copy == IF out.res = "OK" THEN out.obj ELSE new
  <2>6. copy \in SuiteRecs /\ copy.phase = out.obj.phase /\ copy.current = out.obj.current /\ job' = AfterSchedule(copy, job.runs)
    BY <2>2, <2>3, <2>5 DEF Trying
  <2> HIDE DEF copy
  <2>7. Lone(AfterSchedule(copy, job.runs), out.obj, Runs)
    BY <2>1, <2>5, <2>6, JobFacts, AfterLone
  <2> QED
    BY <2>5, <2>6, <2>7 DEF Alone
<1>13. ASSUME DropSchedule PROVE Alone'
  <2> DEFINE new == [job.suite EXCEPT !.annotated = 0]
  <2>1. Working /\ Goes(job) /\ job.step = "dropSchedule"
    BY <1>13, StepWorks DEF DropSchedule
  <2>2. /\ new \in SuiteRecs /\ new.fins = job.suite.fins
        /\ new.phase = job.suite.phase /\ new.current = job.suite.current
    <3>1. new \in SuiteRecs
      BY <2>1, JobFacts, SuiteChanges
    <3> QED
      BY <2>1, <3>1, JobFacts DEF SuiteRecs
  <2>3. PICK out : Proceeding(new, out, [job EXCEPT !.step = "noSchedule", !.suite = out.obj])
    BY <1>13 DEF DropSchedule, PatchSuite, Proceeding, SuitePatched
  <2> HIDE DEF new
  <2>4. SuitePatched(new, out)
    BY <2>3 DEF Proceeding
  <2>5. /\ out.obj \in SuiteRecs /\ Suite' = out.obj /\ Runs' = Runs
        /\ SuiteFin \in out.obj.fins /\ Exists(out.obj)
        /\ out.obj.phase = Suite.phase /\ out.obj.current = Suite.current
        /\ new.phase = Suite.phase /\ new.current = Suite.current
        /\ Unfinished(Runs) \subseteq Followed(out.obj) /\ Closed(job.runs, Runs)
    BY <2>1, <2>2, <2>4, SteadyPatch
  <2> DEFINE j == [job EXCEPT !.step = "noSchedule", !.suite = out.obj]
  <2>6. j.step = "noSchedule" /\ j.suite = out.obj /\ j.base = job.base /\ j.runs = job.runs
    BY <2>1 DEF Goes, Jobs
  <2>7. Proceeding(new, out, j)
    BY <2>3
  <2> HIDE DEF j
  <2>8. Knows(j, out.obj, Runs)
    BY <1>6, <2>1, <2>5, <2>6 DEF Knows, Resting, Quiet
  <2>9. Lone(j, out.obj, Runs)
    BY <2>5, <2>6, <2>8 DEF Lone
  <2> QED
    BY <2>1, <2>2, <2>7, <2>9, ProceedingLone
<1>14. ASSUME NoSchedule PROVE Alone'
  <2> DEFINE new == [job.suite EXCEPT !.nextRun = None]
  <2>1. Working /\ Goes(job) /\ job.step = "noSchedule"
    BY <1>14, StepWorks DEF NoSchedule
  <2>2. /\ new \in SuiteRecs /\ new.fins = job.suite.fins
        /\ new.phase = job.suite.phase /\ new.current = job.suite.current
    <3>1. new \in SuiteRecs
      BY <2>1, JobFacts, SuiteChanges, Bounds DEF SuiteRecs
    <3> QED
      BY <2>1, <3>1, JobFacts DEF SuiteRecs
  <2>3. PICK out : Proceeding(new, out, AfterSchedule(out.obj, job.runs))
    BY <1>14 DEF NoSchedule, PatchSuite, Proceeding, SuitePatched
  <2> HIDE DEF new
  <2>4. SuitePatched(new, out)
    BY <2>3 DEF Proceeding
  <2>5. /\ out.obj \in SuiteRecs /\ Suite' = out.obj /\ Runs' = Runs
        /\ SuiteFin \in out.obj.fins /\ Exists(out.obj)
        /\ out.obj.phase = Suite.phase /\ out.obj.current = Suite.current
        /\ new.phase = Suite.phase /\ new.current = Suite.current
        /\ Unfinished(Runs) \subseteq Followed(out.obj) /\ Closed(job.runs, Runs)
    BY <2>1, <2>2, <2>4, SteadyPatch
  <2>6. Lone(AfterSchedule(out.obj, job.runs), out.obj, Runs)
    BY <2>1, <2>5, JobFacts, AfterLone
  <2> QED
    BY <2>1, <2>2, <2>3, <2>6, ProceedingLone
<1>15. ASSUME Annotate PROVE Alone'
  <2> DEFINE new == [job.suite EXCEPT !.annotated = job.suite.sched]
  <2>1. Working /\ Goes(job) /\ job.step = "annotate"
    BY <1>15, StepWorks DEF Annotate
  <2>2. /\ new \in SuiteRecs /\ new.fins = job.suite.fins
        /\ new.phase = job.suite.phase /\ new.current = job.suite.current
    <3>1. new \in SuiteRecs
      BY <2>1, JobFacts, SuiteChanges, Bounds DEF SuiteRecs
    <3> QED
      BY <2>1, <3>1, JobFacts DEF SuiteRecs
  <2>3. PICK out : Proceeding(new, out, Parsed(out.obj, job.runs, job.suite.sched))
    BY <1>15 DEF Annotate, PatchSuite, Proceeding, SuitePatched
  <2> HIDE DEF new
  <2>4. SuitePatched(new, out)
    BY <2>3 DEF Proceeding
  <2>5. /\ out.obj \in SuiteRecs /\ Suite' = out.obj /\ Runs' = Runs
        /\ SuiteFin \in out.obj.fins /\ Exists(out.obj)
        /\ out.obj.phase = Suite.phase /\ out.obj.current = Suite.current
        /\ new.phase = Suite.phase /\ new.current = Suite.current
        /\ Unfinished(Runs) \subseteq Followed(out.obj) /\ Closed(job.runs, Runs)
    BY <2>1, <2>2, <2>4, SteadyPatch
  <2>6. Lone(Parsed(out.obj, job.runs, job.suite.sched), out.obj, Runs)
    <3>1. job.suite.sched \in Schedules /\ job.suite.sched # 0 /\ job.runs \in RunLists
      BY <2>1, JobFacts DEF Goes, SuiteRecs
    <3>2. /\ Proceeds(Parsed(out.obj, job.runs, job.suite.sched), out.obj, job.runs)
          /\ Parsed(out.obj, job.runs, job.suite.sched).step \in Quiet \cup {"done"}
      BY <2>5, <3>1, ParsedIs DEF Quiet
    <3>3. out.obj.phase # "Running"
      BY <1>6, <2>1, <2>5 DEF Knows, Resting, Quiet
    <3> QED
      BY <2>5, <3>2, <3>3, GoingLone DEF Quiet
  <2> QED
    BY <2>1, <2>2, <2>3, <2>6, ProceedingLone
<1>16. ASSUME SetNextRun PROVE Alone'
  <2> DEFINE new == [job.suite EXCEPT !.nextRun = NextTime(job.when, now)]
  <2>1. Working /\ Goes(job) /\ job.step = "setNext"
    BY <1>16, StepWorks DEF SetNextRun
  <2>2. /\ new \in SuiteRecs /\ new.fins = job.suite.fins
        /\ new.phase = job.suite.phase /\ new.current = job.suite.current
    <3>1. NextTime(job.when, now) \in Int
      BY <2>1, JobFacts, NextTimeType DEF Goes, Shape
    <3> QED
      BY <2>1, <3>1, JobFacts, SuiteChanges DEF SuiteRecs
  <2>3. PICK out : Proceeding(new, out, [Triggered(out.obj, job.runs) EXCEPT !.when = job.when])
    BY <1>16 DEF SetNextRun, PatchSuite, Proceeding, SuitePatched
  <2> HIDE DEF new
  <2>4. SuitePatched(new, out)
    BY <2>3 DEF Proceeding
  <2>5. /\ out.obj \in SuiteRecs /\ Suite' = out.obj /\ Runs' = Runs
        /\ SuiteFin \in out.obj.fins /\ Exists(out.obj)
        /\ out.obj.phase = Suite.phase /\ out.obj.current = Suite.current
        /\ new.phase = Suite.phase /\ new.current = Suite.current
        /\ Unfinished(Runs) \subseteq Followed(out.obj) /\ Closed(job.runs, Runs)
    BY <2>1, <2>2, <2>4, SteadyPatch
  <2> DEFINE j == [Triggered(out.obj, job.runs) EXCEPT !.when = job.when]
  <2>6. Lone(j, out.obj, Runs)
    <3>1. Proceeds(j, out.obj, job.runs) /\ j.step \in {"manual", "helm", "due", "done"}
      BY <2>1, <2>5, JobFacts, TriggeredIs
    <3>2. out.obj.phase # "Running"
      BY <1>6, <2>1, <2>5 DEF Knows, Resting, Quiet
    <3> HIDE DEF j
    <3> QED
      BY <2>5, <3>1, <3>2, GoingLone DEF Quiet
  <2> QED
    BY <2>1, <2>2, <2>3, <2>6, ProceedingLone
<1>17. ASSUME RejectSchedule PROVE Alone'
  <2> DEFINE new == [job.suite EXCEPT !.nextRun = None]
  <2>1. Working /\ Goes(job) /\ job.step = "badSchedule"
    BY <1>17, StepWorks DEF RejectSchedule
  <2>2. /\ new \in SuiteRecs /\ new.fins = job.suite.fins
        /\ new.phase = job.suite.phase /\ new.current = job.suite.current
    <3>1. new \in SuiteRecs
      BY <2>1, JobFacts, SuiteChanges, Bounds DEF SuiteRecs
    <3> QED
      BY <2>1, <3>1, JobFacts DEF SuiteRecs
  <2>3. PICK out : Trying(new, out, Triggered(IF out.res = "OK" THEN out.obj ELSE new, job.runs))
    BY <1>17 DEF RejectSchedule, TryPatchSuite, Trying, SuitePatched
  <2> HIDE DEF new
  <2>4. SuitePatched(new, out)
    BY <2>3 DEF Trying
  <2>5. /\ out.obj \in SuiteRecs /\ Suite' = out.obj /\ Runs' = Runs
        /\ SuiteFin \in out.obj.fins /\ Exists(out.obj)
        /\ out.obj.phase = Suite.phase /\ out.obj.current = Suite.current
        /\ new.phase = Suite.phase /\ new.current = Suite.current
        /\ Unfinished(Runs) \subseteq Followed(out.obj) /\ Closed(job.runs, Runs)
    BY <2>1, <2>2, <2>4, SteadyPatch
  <2> DEFINE copy == IF out.res = "OK" THEN out.obj ELSE new
  <2>6. copy \in SuiteRecs /\ copy.phase = out.obj.phase /\ copy.current = out.obj.current /\ job' = Triggered(copy, job.runs)
    BY <2>2, <2>3, <2>5 DEF Trying
  <2> HIDE DEF copy
  <2>7. Lone(Triggered(copy, job.runs), out.obj, Runs)
    <3>1. /\ Proceeds(Triggered(copy, job.runs), copy, job.runs)
          /\ Triggered(copy, job.runs).step \in {"manual", "helm", "due", "done"}
      BY <1>6, <2>1, <2>6, TriggeredIs
    <3>2. out.obj.phase # "Running"
      BY <1>6, <2>1, <2>5 DEF Knows, Resting, Quiet
    <3> QED
      BY <2>5, <2>6, <3>1, <3>2, GoingLone DEF Quiet
  <2> QED
    BY <2>5, <2>6, <2>7 DEF Alone
<1>18. ASSUME ResetTrigger PROVE Alone'
  <2> DEFINE new == [job.suite EXCEPT !.needsRun = FALSE]
  <2>1. Working /\ Goes(job) /\ job.step = "manual"
    BY <1>18, StepWorks DEF ResetTrigger
  <2>2. /\ new \in SuiteRecs /\ new.fins = job.suite.fins
        /\ new.phase = job.suite.phase /\ new.current = job.suite.current
    <3>1. new \in SuiteRecs
      BY <2>1, JobFacts, SuiteChanges
    <3> QED
      BY <2>1, <3>1, JobFacts DEF SuiteRecs
  <2>3. PICK out : Proceeding(new, out, [job EXCEPT !.step = "trigger", !.suite = out.obj, !.cause = <<"Manual", 0>>])
    BY <1>18 DEF ResetTrigger, PatchSuite, Proceeding, SuitePatched
  <2> HIDE DEF new
  <2>4. SuitePatched(new, out)
    BY <2>3 DEF Proceeding
  <2>5. /\ out.obj \in SuiteRecs /\ Suite' = out.obj /\ Runs' = Runs
        /\ SuiteFin \in out.obj.fins /\ Exists(out.obj)
        /\ out.obj.phase = Suite.phase /\ out.obj.current = Suite.current
        /\ new.phase = Suite.phase /\ new.current = Suite.current
        /\ Unfinished(Runs) \subseteq Followed(out.obj) /\ Closed(job.runs, Runs)
    BY <2>1, <2>2, <2>4, SteadyPatch
  <2> DEFINE j == [job EXCEPT !.step = "trigger", !.suite = out.obj, !.cause = <<"Manual", 0>>]
  <2>6. j.step = "trigger" /\ j.suite = out.obj /\ j.base = job.base /\ j.runs = job.runs
    BY <2>1 DEF Goes, Jobs
  <2>7. Proceeding(new, out, j)
    BY <2>3
  <2> HIDE DEF j
  <2>8. Knows(j, out.obj, Runs)
    BY <1>6, <2>1, <2>5, <2>6 DEF Knows, Resting, Quiet
  <2>9. Lone(j, out.obj, Runs)
    BY <2>5, <2>6, <2>8 DEF Lone
  <2> QED
    BY <2>1, <2>2, <2>7, <2>9, ProceedingLone
<1>19. ASSUME AnnotateRelease PROVE Alone'
  <2> DEFINE new == [job.suite EXCEPT !.lastHelm = 0]
  <2>1. Working /\ Goes(job) /\ job.step = "helm"
    BY <1>19, StepWorks DEF AnnotateRelease
  <2>2. /\ new \in SuiteRecs /\ new.fins = job.suite.fins
        /\ new.phase = job.suite.phase /\ new.current = job.suite.current
    <3>1. new \in SuiteRecs
      BY <2>1, JobFacts, SuiteChanges, Bounds DEF SuiteRecs
    <3> QED
      BY <2>1, <3>1, JobFacts DEF SuiteRecs
  <2>3. PICK out : Proceeding(new, out, [job EXCEPT !.step = "trigger", !.suite = out.obj, !.cause = <<"Helm", helm>>])
    BY <1>19 DEF AnnotateRelease, PatchSuite, Proceeding, SuitePatched
  <2> HIDE DEF new
  <2>4. SuitePatched(new, out)
    BY <2>3 DEF Proceeding
  <2>5. /\ out.obj \in SuiteRecs /\ Suite' = out.obj /\ Runs' = Runs
        /\ SuiteFin \in out.obj.fins /\ Exists(out.obj)
        /\ out.obj.phase = Suite.phase /\ out.obj.current = Suite.current
        /\ new.phase = Suite.phase /\ new.current = Suite.current
        /\ Unfinished(Runs) \subseteq Followed(out.obj) /\ Closed(job.runs, Runs)
    BY <2>1, <2>2, <2>4, SteadyPatch
  <2> DEFINE j == [job EXCEPT !.step = "trigger", !.suite = out.obj, !.cause = <<"Helm", helm>>]
  <2>6. j.step = "trigger" /\ j.suite = out.obj /\ j.base = job.base /\ j.runs = job.runs
    BY <2>1 DEF Goes, Jobs
  <2>7. Proceeding(new, out, j)
    BY <2>3
  <2> HIDE DEF j
  <2>8. Knows(j, out.obj, Runs)
    BY <1>6, <2>1, <2>5, <2>6 DEF Knows, Resting, Quiet
  <2>9. Lone(j, out.obj, Runs)
    BY <2>5, <2>6, <2>8 DEF Lone
  <2> QED
    BY <2>1, <2>2, <2>7, <2>9, ProceedingLone
<1>20. ASSUME SetPending PROVE Alone'
  <2>1. Working /\ Goes(job) /\ job.step = "pending"
    BY <1>20, StepWorks DEF SetPending
  <2>2. PICK out : Proceeding([job.suite EXCEPT !.phase = "Pending"], out, notRunning(out.obj, job.runs))
    BY <1>20 DEF SetPending, PatchSuite, Proceeding, SuitePatched
  <2> DEFINE new == [job.suite EXCEPT !.phase = "Pending"]
  <2>3. new \in SuiteRecs
    BY <2>1, <2>2, JobFacts, SuiteChanges
  <2>4. new.fins = job.suite.fins /\ new.phase = "Pending" /\ new.current = job.suite.current
    BY <2>1, JobFacts DEF SuiteRecs
  <2>5. Proceeding(new, out, notRunning(out.obj, job.runs))
    BY <2>2
  <2> HIDE DEF new
  <2>6. /\ out.obj \in SuiteRecs /\ Suite' = out.obj /\ Runs' = Runs
        /\ SuiteFin \in out.obj.fins /\ Exists(out.obj)
        /\ out.res = "OK" => out.obj.phase = new.phase /\ out.obj.current = new.current
        /\ out.res # "OK" => out.obj = Suite
        /\ job.base = job.suite => out.res = "OK"
    BY <2>1, <2>3, <2>4, <2>5, CleanPatch DEF Proceeding
  <2>7. Unfinished(Runs) = {}
    BY <1>6, <2>1 DEF Knows, Followed
  <2>8. ASSUME out.res = "OK" PROVE Lone(notRunning(out.obj, job.runs), out.obj, Runs)
    <3>1. notRunning(out.obj, job.runs) = At("ready", out.obj, job.runs, {}) /\ out.obj.phase = "Pending"
      BY <2>4, <2>6, <2>8 DEF notRunning
    <3>2. Proceeds(notRunning(out.obj, job.runs), out.obj, job.runs) /\ notRunning(out.obj, job.runs).step = "ready"
      BY <1>6, <2>1, <2>6, <3>1, notRunningIs, AtShape
    <3> QED
      BY <1>6, <2>1, <2>6, <2>7, <3>1, <3>2, GoingLone DEF Quiet
  <2> QED
    BY <2>1, <2>3, <2>4, <2>5, <2>8, ProceedingLone
<1>21. ASSUME SetReady PROVE Alone'
  <2>1. Working /\ Goes(job) /\ job.step = "ready"
    BY <1>21, StepWorks DEF SetReady
  <2>2. PICK out : Proceeding([job.suite EXCEPT !.phase = "Ready"], out,
                     IF Old(job.runs) # {} THEN At("history", out.obj, job.runs, Old(job.runs))
                     ELSE Scheduled(out.obj, job.runs))
    BY <1>21 DEF SetReady, PatchSuite, Proceeding, SuitePatched
  <2> DEFINE new == [job.suite EXCEPT !.phase = "Ready"]
  <2>3. new \in SuiteRecs
    BY <2>1, <2>2, JobFacts, SuiteChanges
  <2>4. new.fins = job.suite.fins /\ new.phase = "Ready" /\ new.current = job.suite.current
    BY <2>1, JobFacts DEF SuiteRecs
  <2>5. Proceeding(new, out, IF Old(job.runs) # {} THEN At("history", out.obj, job.runs, Old(job.runs))
                     ELSE Scheduled(out.obj, job.runs))
    BY <2>2
  <2> HIDE DEF new
  <2>6. /\ out.obj \in SuiteRecs /\ Suite' = out.obj /\ Runs' = Runs
        /\ SuiteFin \in out.obj.fins /\ Exists(out.obj)
        /\ out.res = "OK" => out.obj.phase = new.phase /\ out.obj.current = new.current
        /\ out.res # "OK" => out.obj = Suite
        /\ job.base = job.suite => out.res = "OK"
    BY <2>1, <2>3, <2>4, <2>5, CleanPatch DEF Proceeding
  <2> DEFINE j == IF Old(job.runs) # {} THEN At("history", out.obj, job.runs, Old(job.runs))
                  ELSE Scheduled(out.obj, job.runs)
  <2>7. Unfinished(Runs) = {}
    BY <1>6, <2>1 DEF Knows, Followed
  <2>8. Proceeds(j, out.obj, job.runs) /\ j.step \in {"history", "done"} \cup Quiet
    <3>1. Old(job.runs) \in SUBSET Names /\ "history" \in Late \cup Begun
      BY ListedTypes DEF Late
    <3>2. LET k == At("history", out.obj, job.runs, Old(job.runs)) IN Proceeds(k, out.obj, job.runs) /\ k.step = "history"
      BY <1>6, <2>1, <2>6, <3>1, AtProceeds, AtShape
    <3> QED
      BY <1>6, <2>1, <2>6, <3>2, ScheduledIs
  <2>9. Proceeding(new, out, j)
    BY <2>5
  <2> HIDE DEF j
  <2>10. ASSUME out.res = "OK" PROVE Lone(j, out.obj, Runs)
    BY <1>6, <2>1, <2>4, <2>6, <2>7, <2>8, <2>10, GoingLone DEF Quiet
  <2> QED
    BY <2>1, <2>3, <2>4, <2>9, <2>10, ProceedingLone
<1>22. ASSUME Focus PROVE Alone'
  <2>1. Working /\ Goes(job) /\ job.step = "focus"
    BY <1>22, StepWorks DEF Focus
  <2>2. PICK r, out : r \in job.todo /\ Proceeding([job.suite EXCEPT !.phase = "Running", !.current = r], out,
                     IF job.todo = {r} THEN isRunning(out.obj, job.runs)
                     ELSE At("focus", out.obj, job.runs, job.todo \ {r}))
    BY <1>22 DEF Focus, PatchSuite, Proceeding, SuitePatched
  <2> DEFINE new == [job.suite EXCEPT !.phase = "Running", !.current = r]
  <2>3. new \in SuiteRecs
    BY <2>1, <2>2, JobFacts, SuiteChanges
  <2>4. new.fins = job.suite.fins /\ new.phase = "Running" /\ new.current = r
    BY <2>1, JobFacts DEF SuiteRecs
  <2>5. Proceeding(new, out, IF job.todo = {r} THEN isRunning(out.obj, job.runs)
                     ELSE At("focus", out.obj, job.runs, job.todo \ {r}))
    BY <2>2
  <2> HIDE DEF new
  <2>6. /\ out.obj \in SuiteRecs /\ Suite' = out.obj /\ Runs' = Runs
        /\ SuiteFin \in out.obj.fins /\ Exists(out.obj)
        /\ out.res = "OK" => out.obj.phase = new.phase /\ out.obj.current = new.current
        /\ out.res # "OK" => out.obj = Suite
        /\ job.base = job.suite => out.res = "OK"
    BY <2>1, <2>3, <2>4, <2>5, CleanPatch DEF Proceeding
  <2> DEFINE j == IF job.todo = {r} THEN isRunning(out.obj, job.runs)
                  ELSE At("focus", out.obj, job.runs, job.todo \ {r})
  <2>7. Unfinished(Runs) = {} /\ Unfinished(Runs) \subseteq Followed(out.obj) /\ r # None
    BY <1>6, <2>1, <2>2, Bounds DEF Knows
  <2>8. ASSUME out.res = "OK" PROVE Lone(isRunning(out.obj, job.runs), out.obj, Runs)
    BY <1>6, <2>1, <2>4, <2>6, <2>7, <2>8, isRunningIs, PlacedLone
  <2>9. ASSUME out.res = "OK" PROVE Lone(At("focus", out.obj, job.runs, job.todo \ {r}), out.obj, Runs)
    <3> DEFINE k == At("focus", out.obj, job.runs, job.todo \ {r})
    <3>1. k.step = "focus" /\ k.suite = out.obj /\ k.base = out.obj /\ k.runs = job.runs
      BY AtShape
    <3> HIDE DEF k
    <3>2. Knows(k, out.obj, Runs)
      BY <1>6, <2>1, <2>4, <2>6, <2>7, <2>9, <3>1 DEF Knows, Resting, Quiet
    <3>3. Lone(k, out.obj, Runs)
      BY <2>6, <2>7, <3>1, <3>2 DEF Lone
    <3> QED
      BY <3>3 DEF k
  <2>10. Proceeding(new, out, j)
    BY <2>5
  <2>11. out.res = "OK" => Lone(j, out.obj, Runs)
    BY <2>8, <2>9
  <2> HIDE DEF j
  <2> QED
    BY <2>1, <2>3, <2>4, <2>10, <2>11, ProceedingLone
<1>23. ASSUME FinishRun PROVE Alone'
  <2>1. Working /\ Goes(job) /\ job.step = "finish"
    BY <1>23, StepWorks DEF FinishRun
  <2>2. PICK out : Proceeding([job.suite EXCEPT !.phase = "Ready", !.current = None], out, At("done", out.obj, job.runs, {}))
    BY <1>23 DEF FinishRun, PatchSuite, Proceeding, SuitePatched
  <2> DEFINE new == [job.suite EXCEPT !.phase = "Ready", !.current = None]
  <2>3. new \in SuiteRecs
    BY <2>1, <2>2, JobFacts, SuiteChanges
  <2>4. new.fins = job.suite.fins /\ new.phase = "Ready" /\ new.current = None
    BY <2>1, JobFacts DEF SuiteRecs
  <2>5. Proceeding(new, out, At("done", out.obj, job.runs, {}))
    BY <2>2
  <2> HIDE DEF new
  <2>6. /\ out.obj \in SuiteRecs /\ Suite' = out.obj /\ Runs' = Runs
        /\ SuiteFin \in out.obj.fins /\ Exists(out.obj)
        /\ out.res = "OK" => out.obj.phase = new.phase /\ out.obj.current = new.current
        /\ out.res # "OK" => out.obj = Suite
        /\ job.base = job.suite => out.res = "OK"
    BY <2>1, <2>3, <2>4, <2>5, CleanPatch DEF Proceeding
  <2>7. Unfinished(Runs) = {}
    <3>1. /\ Suite.phase = "Running" /\ Suite.current \in Listed(job.runs)
          /\ IsFinal(job.runs[Suite.current].phase)
      BY <1>6, <2>1, ListedTypes DEF Knows
    <3>2. Suite.current \notin Unfinished(Runs)
      BY <1>6, <2>1, <3>1 DEF Closed
    <3> QED
      BY <1>6, <2>1, <3>2 DEF Followed
  <2>8. Lone(At("done", out.obj, job.runs, {}), out.obj, Runs)
    <3>1. LET k == At("done", out.obj, job.runs, {}) IN Proceeds(k, out.obj, job.runs) /\ k.step = "done"
      BY <1>6, <2>1, <2>6, AtProceeds, AtShape DEF Late
    <3> QED
      BY <1>6, <2>1, <2>6, <2>7, <3>1, GoingLone DEF Quiet
  <2> QED
    BY <2>1, <2>3, <2>4, <2>5, <2>8, ProceedingLone
<1>24. ASSUME TrackRun PROVE Alone'
  <2>1. Working /\ Goes(job) /\ job.step = "track"
    BY <1>24, StepWorks DEF TrackRun
  <2>2. PICK r, out : r \in job.todo /\ Proceeding([job.suite EXCEPT !.current = r], out, At("done", out.obj, job.runs, {}))
    BY <1>24 DEF TrackRun, PatchSuite, Proceeding, SuitePatched
  <2> DEFINE new == [job.suite EXCEPT !.current = r]
  <2>3. new \in SuiteRecs
    BY <2>1, <2>2, JobFacts, SuiteChanges
  <2>4. new.fins = job.suite.fins /\ new.phase = job.suite.phase /\ new.current = r
    BY <2>1, JobFacts DEF SuiteRecs
  <2>5. Proceeding(new, out, At("done", out.obj, job.runs, {}))
    BY <2>2
  <2> HIDE DEF new
  <2>6. /\ out.obj \in SuiteRecs /\ Suite' = out.obj /\ Runs' = Runs
        /\ SuiteFin \in out.obj.fins /\ Exists(out.obj)
        /\ out.res = "OK" => out.obj.phase = new.phase /\ out.obj.current = new.current
        /\ out.res # "OK" => out.obj = Suite
        /\ job.base = job.suite => out.res = "OK"
    BY <2>1, <2>3, <2>4, <2>5, CleanPatch DEF Proceeding
  <2>7. /\ Suite.phase = "Running" /\ job.suite.phase = "Running" /\ job.base = job.suite
        /\ job.todo = {r} /\ Unfinished(Runs) \subseteq {r}
        /\ job.runs \in RunLists /\ r \in Names
    BY <2>1, <2>2, JobFacts DEF Alone, Lone, Knows
  <2>8. out.res = "OK" /\ Followed(out.obj) = {r}
    BY <2>4, <2>6, <2>7, Bounds DEF Followed
  <2>9. Lone(At("done", out.obj, job.runs, {}), out.obj, Runs)
    <3>1. LET k == At("done", out.obj, job.runs, {}) IN Proceeds(k, out.obj, job.runs) /\ k.step = "done"
      BY <2>6, <2>7, AtProceeds, AtShape DEF Late
    <3> QED
      BY <2>6, <2>7, <2>8, <3>1, GoingLone DEF Quiet
  <2> QED
    BY <2>5, <2>6, <2>8, <2>9 DEF Proceeding, Alone
<1>25. ASSUME NextRunIsDue PROVE Alone'
  <2>1. Working /\ Goes(job) /\ job.step = "due"
    BY <1>25, StepWorks DEF NextRunIsDue
  <2>2. /\ job'.step = "trigger" /\ job'.suite = job.suite /\ job'.base = job.base /\ job'.runs = job.runs
        /\ Suite' = Suite /\ Runs' = Runs
    BY <1>25, <2>1 DEF Goes, Jobs, NextRunIsDue, Locally, Suite, Runs
  <2>3. Knows(job', Suite, Runs)
    BY <1>6, <2>1, <2>2 DEF Knows, Resting, Quiet
  <2> QED
    BY <1>6, <2>1, <2>2, <2>3 DEF Alone, Lone
<1>26. ASSUME NextRunMissed PROVE Alone'
  <2> DEFINE new == [job.suite EXCEPT !.nextRun = NextTime(job.when, now)]
  <2>1. Working /\ Goes(job) /\ job.step = "due"
    BY <1>26, StepWorks DEF NextRunMissed
  <2>2. /\ new \in SuiteRecs /\ new.fins = job.suite.fins
        /\ new.phase = job.suite.phase /\ new.current = job.suite.current
    <3>1. NextTime(job.when, now) \in Int
      BY <1>26, <2>1, JobFacts, NextTimeType DEF NextRunMissed, Shape
    <3> QED
      BY <2>1, <3>1, JobFacts, SuiteChanges DEF SuiteRecs
  <2>3. PICK out : SuitePatched(new, out) /\ job' = Idle
    BY <1>26 DEF NextRunMissed, SuitePatched, Return
  <2> HIDE DEF new
  <2> QED
    BY <2>1, <2>2, <2>3, SteadyPatch DEF Alone
<1>27. ASSUME SetRunning PROVE Alone'
  <2> DEFINE new == [job.suite EXCEPT !.phase = "Running", !.current = None]
  <2>1. Working /\ Goes(job) /\ job.step = "trigger"
    BY <1>27, StepWorks DEF SetRunning
  <2>2. new \in SuiteRecs /\ new.fins = job.suite.fins /\ new.phase = "Running" /\ new.current = None
    BY <2>1, JobFacts, SuiteChanges DEF SuiteRecs
  <2>3. PICK out \in PatchAnswers(new) : suiteFeed' = Publish(suiteFeed, out.obj) /\ Answer(out.res) /\ job' = Idle
    BY <1>27 DEF SetRunning, Return
  <2> HIDE DEF new
  <2>4. Unfinished(Runs) = {}
    BY <1>6, <2>1 DEF Knows, Resting, Followed
  <2>5. SuiteFin \in out.obj.fins /\ Exists(out.obj) /\ out.obj \in SuiteRecs
    BY <2>1, <2>2, <2>3, CleanAnswer
  <2>6. Suite' = out.obj /\ Runs' = Runs
    BY <1>27, <2>3, <2>5, SuiteWritten DEF SetRunning, Runs
  <2> QED
    BY <2>3, <2>4, <2>5, <2>6 DEF Alone, Lone, Idle
<1>28. ASSUME CreateRun PROVE Alone'
  <2>1. Working /\ Goes(job) /\ job.step = "create"
    BY <1>28, StepWorks DEF CreateRun
  <2> DEFINE seq == 1 + Cardinality(Born(Runs))
  <2>2. seq \in Nat
    BY BornFinite
  <2> HIDE DEF seq
  <2>3. ~(faults < MaxFaults)
    BY DEF Current, Shape
  <2>4. PICK r \in Names : PublishRun(r, NewRun(seq)) /\ job' = [job EXCEPT !.step = "track", !.todo = {r}]
    BY <1>28, <2>3 DEF CreateRun, Born, seq
  <2>5. Runs' = [Runs EXCEPT ![r] = NewRun(seq)] /\ Suite' = Suite /\ Runs \in RunLists
    BY <1>28, <2>2, <2>4, NewRunShape, RunWritten, ShapeFacts DEF CreateRun, Suite
  <2>6. /\ job'.step = "track" /\ job'.todo = {r} /\ job'.suite = job.suite /\ job'.base = job.base
        /\ job'.runs = job.runs
    BY <2>1, <2>4 DEF Goes, Jobs
  <2>7. Unfinished(Runs) = {}
    BY <1>6, <2>1 DEF Knows, Followed
  <2>8. Unfinished(Runs') \subseteq {r}
    BY <2>5, <2>7, UnfinishedAre DEF RunLists
  <2>9. Knows(job', Suite, Runs')
    BY <1>6, <2>1, <2>6 DEF Knows, Resting, Quiet
  <2> QED
    BY <1>6, <2>1, <2>5, <2>6, <2>8, <2>9 DEF Alone, Lone
<1> QED
  BY <1>1, <1>2, <1>3, <1>4, <1>5, <1>7, <1>8, <1>9, <1>10, <1>11, <1>12, <1>13, <1>14, <1>15, <1>16, <1>17, <1>18,
     <1>19, <1>20, <1>21, <1>22, <1>23, <1>24, <1>25, <1>26, <1>27, <1>28 DEF Controller
-----------------------------------------------------------------------------
\* What users and the server do to a suite: its phase and current run stay, it
\* is not undeleted, and it stays while the controller holds it.
LEMMA ClusterOnSuite ==
  ASSUME Suite \in SuiteRecs, Exists(Suite), NEW x, ClusterSuite(x)
  PROVE  /\ x.current = Suite.current /\ x.fins = Suite.fins /\ (Suite.del => x.del)
         /\ Exists(x) => x.phase = Suite.phase
         /\ SuiteFin \in Suite.fins => Exists(x)
<1>1. CASE x = Reaped(Deleted(Suite)) /\ ~Suite.del
  <2> DEFINE y == [Suite EXCEPT !.del = TRUE]
  <2>1. y.current = Suite.current /\ y.fins = Suite.fins /\ y.phase = Suite.phase /\ x = Reaped(y)
    BY <1>1 DEF Deleted, SuiteRecs
  <2>2. x = y \/ (x = [y EXCEPT !.phase = "Gone"] /\ y.fins = {})
    BY <2>1 DEF Reaped
  <2>3. y \in SuiteRecs
    BY DEF SuiteRecs
  <2> HIDE DEF y
  <2> QED
    BY <1>1, <2>1, <2>2, <2>3 DEF SuiteRecs, Exists
<1>2. CASE \E sched \in Schedules : x = [Suite EXCEPT !.sched = sched]
  BY <1>2 DEF SuiteRecs, Exists
<1>3. CASE x = [Suite EXCEPT !.needsRun = TRUE]
  BY <1>3 DEF SuiteRecs, Exists
<1> QED
  BY <1>1, <1>2, <1>3 DEF ClusterSuite

\* What others do to a run only closes it.
LEMMA ClusterCloses ==
  ASSUME NEW run \in RunRecs, Exists(run), NEW x \in RunRecs, ClusterRun(run, x)
  PROVE  Closes(run, x)
<1>1. CASE x = [run EXCEPT !.fins = @ \cup {RunFin}]
  BY <1>1 DEF Closes, Open, Exists, RunRecs
<1>2. CASE \E phase \in {"Passed", "Failed"} : x = [run EXCEPT !.phase = phase]
  BY <1>2 DEF Closes, Open, IsFinal, RunRecs
<1>3. CASE run.del /\ x = Reaped(WithFins(run, run.fins \ {RunFin}))
  <2>1. PICK y : y = WithFins(run, run.fins \ {RunFin})
    OBVIOUS
  <2>2. y.del /\ y \in RunRecs
    BY <1>3, <2>1 DEF WithFins, RunRecs
  <2>3. x.del
    BY <1>3, <2>1, <2>2 DEF Reaped, RunRecs
  <2> QED
    BY <2>3 DEF Closes, Open
<1>4. CASE x = Reaped(Deleted(run))
  <2>1. PICK y : y = Deleted(run)
    OBVIOUS
  <2>2. y.del /\ y \in RunRecs
    BY <2>1 DEF Deleted, RunRecs
  <2>3. x.del
    BY <1>4, <2>1, <2>2 DEF Reaped, RunRecs
  <2> QED
    BY <2>3 DEF Closes, Open
<1> QED
  BY <1>1, <1>2, <1>3, <1>4 DEF ClusterRun

\* Nobody but the controller creates runs or writes the suite's status.
LEMMA BystanderLone ==
  ASSUME Shape, Current, Counted, Alone,
         \/ SuiteEvent \/ RunEvent \/ WakeUp \/ Tick \/ Restart \/ Cluster \/ UNCHANGED vars
  PROVE  Alone'
<1>b. Suite \in SuiteRecs /\ Runs \in RunLists /\ \A r \in Names : Runs[r] \in RunRecs
  BY ShapeFacts
<1>0. ASSUME job' = job, Suite' = Suite, Runs' = Runs PROVE Alone'
  BY <1>0 DEF Alone
<1>1. CASE SuiteEvent \/ RunEvent \/ WakeUp \/ Tick
  BY <1>0, <1>1, WatchShape DEF SuiteEvent, RunEvent, WakeUp, Tick
<1>2. CASE Restart
  BY <1>2 DEF Restart, Current, Counted
<1>3. CASE UNCHANGED vars
  BY <1>0, <1>3 DEF vars, Suite, Runs
<1>4. CASE Cluster
  <2>1. ASSUME NEW x \in SuiteRecs, Exists(Suite), ClusterSuite(x), suiteFeed' = Publish(suiteFeed, x),
               runFeed' = runFeed, job' = job
        PROVE  Alone'
    <3>1. Suite' = x /\ Runs' = Runs
      BY <2>1, SuiteWritten DEF Runs
    <3>2. /\ x.current = Suite.current /\ x.fins = Suite.fins /\ (Suite.del => x.del)
          /\ Exists(x) => x.phase = Suite.phase
          /\ SuiteFin \in Suite.fins => Exists(x)
      BY <1>b, <2>1, ClusterOnSuite
    <3>3. ~Exists(x) \/ SuiteFin \notin x.fins => Listed(Runs) = {}
      BY <3>2 DEF Alone, Lone
    <3>4. Unfinished(Runs) \subseteq IF job.step = "track" THEN job.todo ELSE Followed(x)
      <4>1. CASE Exists(x)
        BY <3>2, <4>1 DEF Alone, Lone, Followed
      <4>2. CASE ~Exists(x)
        BY <3>3, <4>2, UnfinishedAre
      <4> QED
        BY <4>1, <4>2
    <3>5. job.step # "idle" => Knows(job, x, Runs)
      <4> SUFFICES ASSUME job.step # "idle" PROVE Knows(job, x, Runs)
        OBVIOUS
      <4>1. Knows(job, Suite, Runs)
        BY DEF Alone, Lone
      <4>2. CASE job.step \in {"delete", "release", "finalizer"}
        BY <2>1, <3>2, <4>1, <4>2 DEF Knows, Resting, Quiet
      <4>3. CASE job.step \notin {"delete", "release", "finalizer"}
        <5>1. Exists(x) /\ x.phase = Suite.phase /\ x.current = Suite.current /\ x.fins = Suite.fins
          BY <3>2, <4>1, <4>3 DEF Knows
        <5> QED
          BY <4>1, <4>3, <5>1 DEF Knows
      <4> QED
        BY <4>2, <4>3
    <3> QED
      BY <2>1, <3>1, <3>3, <3>4, <3>5 DEF Alone, Lone
  <2>2. ASSUME NEW r \in Names, NEW x \in RunRecs, Exists(Runs[r]), ClusterRun(Runs[r], x), PublishRun(r, x),
               suiteFeed' = suiteFeed, job' = job
        PROVE  Alone'
    <3>1. Suite' = Suite /\ Runs' = [Runs EXCEPT ![r] = x]
      BY <2>2, RunWritten DEF Suite
    <3>2. Listed(Runs') \subseteq Listed(Runs) /\ Unfinished(Runs') \subseteq Unfinished(Runs)
      BY <1>b, <2>2, <3>1, ClusterCloses, ClosingRun
    <3>3. Lone(job, Suite, Runs)
      BY DEF Alone
    <3>4. Lone(job, Suite, Runs')
      BY <3>2, <3>3, ClosingLone
    <3> QED
      BY <2>2, <3>1, <3>4 DEF Alone
  <2>3. ASSUME UNCHANGED <<suiteFeed, runFeed, job>> PROVE Alone'
    BY <1>0, <2>3 DEF Suite, Runs
  <2> QED
    BY <1>4, <2>1, <2>2, <2>3, ClusterWrites
<1> QED
  BY <1>1, <1>2, <1>3, <1>4

\* There is no run at first.
LEMMA InitAlone == Init => Alone
<1> SUFFICES ASSUME Init PROVE Alone
  OBVIOUS
<1>1. Runs = [r \in Names |-> NoRun] /\ job = Idle
  BY DEF Init, Runs, Stored
<1>2. Listed(Runs) = {} /\ Unfinished(Runs) = {}
  BY <1>1, UnfinishedAre DEF NoRun, Exists
<1> QED
  BY <1>1, <1>2 DEF Alone, Lone, Idle

\* The inductive invariant of one run at a time.
LEMMA AloneInvariant ==
  ASSUME Current
  PROVE  Spec => [](Shape /\ Counted /\ Alone)
<1>1. Shape /\ Counted /\ Alone /\ [Next]_vars => (Shape /\ Counted /\ Alone)'
  BY NextShape, NextCounted, ControllerLone, BystanderLone DEF Next
<1>2. Init => Counted
  BY DEF Init, Counted
<1> QED
  BY InitShape, InitAlone, <1>1, <1>2, PTL DEF Spec

\* With current caches and no failing call a suite never has two runs that are
\* not finished, although a run is created in one call and recorded in the
\* status in another, while users trigger, edit and delete suite and runs.
THEOREM OneRunAlwaysAtATime ==
  ASSUME MaxLag = 0, MaxFaults = 0, MaxRestarts = 0
  PROVE  Spec => []OneRunAtATime
<1>1. Current
  BY DEF Current
<1>2. Alone => OneRunAtATime
  <2>1. \A suite : \A r, q \in Followed(suite) : r = q
    BY DEF Followed
  <2> QED
    BY <2>1 DEF Alone, Lone, Knows, OneRunAtATime
<1> QED
  BY <1>1, <1>2, AloneInvariant, PTL
-----------------------------------------------------------------------------
\* A step ends or deletes a run that is not finished only for a user or with the
\* suite.
LEMMA StepKeepsRuns ==
  ASSUME Shape, Counted, Alone, [Next]_vars, NEW r \in Unfinished(Runs) \ Live(Runs')
  PROVE  deletions' # deletions \/ ~Exists(Suite) \/ Suite.del
<1>b. /\ Runs \in RunLists /\ \A q \in Names : Runs[q] \in RunRecs
      /\ r \in Names /\ Open(Runs[r])
  BY ShapeFacts, UnfinishedAre
<1>0. Runs' # Runs
  BY UnfinishedAre
<1>1. \A q \in Names : \A x : Runs' = [Runs EXCEPT ![q] = x] => q = r /\ ~(Exists(x) /\ ~x.del)
  BY <1>b DEF Live, Listed, RunLists, Open
<1>2. CASE Controller
  <2>1. ASSUME NEW q \in Names, CleanUpRun(q) PROVE ~Exists(Suite) \/ Suite.del
    <3>1. job.step \in {"delete", "history"} /\ job.step # "idle"
      BY <2>1 DEF CleanUpRun
    <3>2. job.step # "history"
      BY <3>1 DEF Alone, Lone, Knows, Followed
    <3> QED
      BY <3>1, <3>2 DEF Alone, Lone, Knows
  <2>2. ASSUME NEW q \in Names, ReleaseRun(q) PROVE FALSE
    <3>1. Working /\ Goes(job)
      BY <2>2, StepWorks DEF ReleaseRun
    <3>2. job.runs[q] \in RunRecs
      BY <3>1, JobFacts
    <3>3. PICK out \in removeFinalizer(job.runs[q], Runs[q], SuiteFin, "Resource") : PublishRun(q, out.obj)
      BY <2>2, AnswersAre DEF ReleaseRun
    <3>4. out.obj \in RunRecs /\ (Open(Runs[q]) => Open(out.obj))
      BY <1>b, <3>2, CallsClose, RunAnswers
    <3>5. Runs' = [Runs EXCEPT ![q] = out.obj]
      BY <3>3, <3>4, RunWritten
    <3> QED
      BY <1>b, <1>1, <3>4, <3>5 DEF Open
  <2>3. ASSUME NEW q \in Names, NEW run, RunCreated(q, run) PROVE FALSE
    BY <1>b, <1>1, <2>3 DEF RunCreated, Open, Exists
  <2> QED
    BY <1>0, <1>2, <2>1, <2>2, <2>3, ControllerRuns
<1>3. CASE SuiteEvent \/ RunEvent \/ WakeUp \/ Tick \/ Restart
  BY <1>0, <1>3, WatchShape
<1>4. CASE UNCHANGED vars
  BY <1>0, <1>4 DEF vars, Runs
<1>5. CASE Cluster
  <2>1. ASSUME UserTriggers \/ ScheduleEdited \/ SuiteDeleted \/ ReleaseDeployed PROVE FALSE
    BY <1>0, <2>1 DEF UserTriggers, ScheduleEdited, SuiteDeleted, ReleaseDeployed, Runs
  <2>2. ASSUME NEW q \in Names, NEW x \in RunRecs, PublishRun(q, x) PROVE q = r /\ ~(Exists(x) /\ ~x.del)
    BY <1>1, <2>2, RunWritten
  <2>3. ASSUME NEW q \in Names, RunAdopted(q) PROVE FALSE
    BY <1>b, <2>2, <2>3 DEF RunAdopted, RunRecs, Exists, Open
  <2>4. ASSUME NEW q \in Names, NEW phase \in {"Passed", "Failed"}, RunDecided(q, phase) PROVE FALSE
    <3> DEFINE x == [Runs[q] EXCEPT !.phase = phase]
    <3>1. x \in RunRecs /\ PublishRun(q, x)
      BY <1>b, <2>4, RunTypes DEF RunDecided
    <3>2. x.phase = phase /\ x.del = Runs[q].del
      BY <1>b DEF RunRecs
    <3> HIDE DEF x
    <3> QED
      BY <1>b, <2>2, <3>1, <3>2 DEF Exists, Open
  <2>5. ASSUME NEW q \in Names, RunLetGo(q) PROVE FALSE
    <3>1. Reaped(WithFins(Runs[q], Runs[q].fins \ {RunFin})) \in RunRecs
      <4>1. Runs[q].fins \ {RunFin} \in SUBSET {SuiteFin, RunFin}
        BY <1>b DEF RunRecs
      <4> QED
        BY <1>b, <4>1, RunTypes
    <3> QED
      BY <1>b, <2>2, <2>5, <3>1 DEF RunLetGo, Open
  <2>6. ASSUME NEW q \in Names, RunDeleted(q) PROVE deletions' # deletions
    BY <2>6 DEF RunDeleted, Counted
  <2>7. ASSUME NEW q \in Names, RunOrphaned(q) PROVE ~Exists(Suite)
    BY <2>7 DEF RunOrphaned
  <2> QED
    BY <1>5, <2>1, <2>3, <2>4, <2>5, <2>6, <2>7 DEF Cluster
<1> QED
  BY <1>2, <1>3, <1>4, <1>5 DEF Next

\* With current caches and no failing call a run that is not finished is deleted
\* only by a user or with its suite, never to keep the history limit.
THEOREM RunningRunAlwaysKept ==
  ASSUME MaxLag = 0, MaxFaults = 0, MaxRestarts = 0
  PROVE  Spec => RunningRunKept
<1>1. Current
  BY DEF Current
<1>2. Shape /\ Counted /\ Alone /\ [Next]_vars =>
        [\A r \in Unfinished(Runs) \ Live(Runs') : deletions' # deletions \/ ~Exists(Suite) \/ Suite.del]_vars
  BY StepKeepsRuns
<1> QED
  BY <1>1, <1>2, AloneInvariant, PTL DEF Spec, RunningRunKept
-----------------------------------------------------------------------------
(***************************************************************************)
(* No trigger is lost.  A user's trigger no run was started for yet is     *)
(* still set, or in the hands of a reconcile that will find the suite as   *)
(* it left it, or the suite is Running with its run yet to be created.     *)
(* (A schedule edited between the two patches of the suite is a change     *)
(* over which the second conflicts: hence no edits.)                       *)
(***************************************************************************)
Owes(j, suite) ==
  Exists(suite) /\ ~suite.del =>
    \/ suite.needsRun
    \/ j.step = "trigger" /\ j.suite = suite
    \/ suite.phase = "Running" /\ suite.current = None /\ j.step # "track"

Owing == owed => Owes(job, Suite)

\* The step of a reconcile after a patch.
LEMMA PatchedStep ==
  ASSUME NEW new, NEW out, NEW j, Proceeding(new, out, j), j.step # "track"
  PROVE  job'.step # "track"
BY DEF Proceeding, Return, Idle

\* A reconcile that goes on has not just created a run.
LEMMA ProceedsStep ==
  ASSUME NEW j, NEW suite, NEW runs, Proceeds(j, suite, runs)
  PROVE  j.step # "track"
BY DEF Proceeds, Late, Begun, Quiet

\* A run to be recorded was just created.
LEMMA OnlyCreateTracks ==
  ASSUME Shape, Controller, ~CreateRun
  PROVE  job'.step # "track"
<1>1. ASSUME Reconcile PROVE job'.step # "track"
  <2> DEFINE suite == Cached(suiteFeed)
             runs  == Cached(runFeed)
  <2>1. suite \in SuiteRecs /\ runs \in RunLists
    BY ShapeFacts
  <2>2. \/ job' = Idle
        \/ \E step \in {"release", "delete", "finalizer"} : \E todo : job' = At(step, suite, runs, todo)
        \/ job' = AfterFinalizer(suite, runs)
    BY <1>1 DEF Reconcile
  <2> HIDE DEF suite, runs
  <2> QED
    BY <2>1, <2>2, AfterFinalizerIs, ProceedsStep, AtShape DEF Idle
<1>2. ASSUME \/ Done \/ MissingRun \/ RunsDeleted \/ WaitForNextRun \/ CreateRunFails \/ NilSchedule
             \/ ReleaseSuite \/ NextRunMissed \/ SetRunning
      PROVE  job'.step # "track"
  BY <1>2 DEF Done, MissingRun, RunsDeleted, WaitForNextRun, CreateRunFails, NilSchedule, ReleaseSuite,
              NextRunMissed, SetRunning, Return, Idle
<1>3. ASSUME NEW r \in Names, CleanUpRun(r) \/ ReleaseRun(r) PROVE job'.step # "track"
  <2>1. Working /\ Goes(job) /\ job.step # "track"
    BY <1>3, StepWorks DEF CleanUpRun, ReleaseRun
  <2>2. CASE CleanUpRun(r)
    <3>1. PICK out : job' = [job EXCEPT !.todo = @ \ {r}, !.err = @ \/ out.res # "OK"]
      BY <2>2 DEF CleanUpRun
    <3> QED
      BY <2>1, <3>1 DEF Goes, Jobs
  <2>3. CASE ReleaseRun(r)
    <3>1. job' = [job EXCEPT !.todo = @ \ {r}] \/ job' = Idle
      BY <2>3 DEF ReleaseRun, Return
    <3> QED
      BY <2>1, <3>1 DEF Goes, Jobs, Idle
  <2> QED
    BY <1>3, <2>2, <2>3
<1>4. ASSUME Compact \/ NextRunIsDue PROVE job'.step # "track"
  <2>1. Working /\ Goes(job)
    BY <1>4, StepWorks DEF Compact, NextRunIsDue
  <2>2. \/ \E todo : job' = [job EXCEPT !.step = "releaseRuns", !.todo = todo]
        \/ \E cause : job' = [job EXCEPT !.step = "trigger", !.cause = cause]
    BY <1>4 DEF Compact, NextRunIsDue
  <2> QED
    BY <2>1, <2>2 DEF Goes, Jobs
<1>5. ASSUME NEW j, NEW suite, NEW runs, Proceeds(j, suite, runs), job' = j \/ job' = Idle PROVE job'.step # "track"
  BY <1>5, ProceedsStep DEF Idle
<1>6. ASSUME job.step # "idle" PROVE Goes(job) /\ job.suite \in SuiteRecs /\ job.runs \in RunLists
  BY <1>6, StepWorks, JobFacts
<1>7. ASSUME HistoryEnforced \/ RunsReleased PROVE job'.step # "track"
  <2>1. job.suite \in SuiteRecs /\ job.runs \in RunLists
    BY <1>6, <1>7 DEF HistoryEnforced, RunsReleased
  <2>2. job' = Idle \/ job' = Scheduled(job.suite, job.runs) \/ job' = EnsurePhase(job.suite, job.runs)
    BY <1>7 DEF HistoryEnforced, RunsReleased, Return
  <2> QED
    BY <1>5, <2>1, <2>2, ScheduledIs, EnsurePhaseIs
<1>8. ASSUME EnsureFinalizer PROVE job'.step # "track"
  <2>1. Goes(job) /\ job.suite \in SuiteRecs /\ job.runs \in RunLists /\ Suite \in SuiteRecs
    BY <1>6, <1>8, ShapeFacts DEF EnsureFinalizer
  <2>2. PICK out \in addFinalizer(job.suite, Suite, SuiteFin, "Resource") :
          job' = AfterFinalizer(out.obj, job.runs) \/ job' = Idle
    BY <1>8, AnswersAre DEF EnsureFinalizer, Return
  <2> QED
    BY <1>5, <2>1, <2>2, AddAnswers, AfterFinalizerIs
<1>9. ASSUME NEW new \in SuiteRecs, NEW out, SuitePatched(new, out), job.step # "idle" PROVE out.obj \in SuiteRecs
  BY <1>9, StepWorks, PatchedShape
<1>10. ASSUME ClearNextRun \/ RejectSchedule PROVE job'.step # "track"
  <2> DEFINE new == [job.suite EXCEPT !.nextRun = None]
  <2>1. job.step # "idle" /\ job.suite \in SuiteRecs /\ job.runs \in RunLists
    BY <1>6, <1>10 DEF ClearNextRun, RejectSchedule
  <2>2. new \in SuiteRecs
    BY <2>1, SuiteChanges, Bounds
  <2>3. PICK out : /\ SuitePatched(new, out)
                   /\ LET copy == IF out.res = "OK" THEN out.obj ELSE new
                      IN  job' = AfterSchedule(copy, job.runs) \/ job' = Triggered(copy, job.runs)
    BY <1>10 DEF ClearNextRun, RejectSchedule, TryPatchSuite, SuitePatched
  <2> HIDE DEF new
  <2>4. (IF out.res = "OK" THEN out.obj ELSE new) \in SuiteRecs
    <3>1. SuitePatched(new, out)
      BY <2>3
    <3>2. out.obj \in SuiteRecs
      BY <1>9, <2>1, <2>2, <3>1
    <3> QED
      BY <2>2, <3>2
  <2>5. PICK copy \in SuiteRecs : job' = AfterSchedule(copy, job.runs) \/ job' = Triggered(copy, job.runs)
    BY <2>3, <2>4
  <2>6. Proceeds(AfterSchedule(copy, job.runs), copy, job.runs)
    BY <2>1, AfterScheduleIs
  <2>7. Proceeds(Triggered(copy, job.runs), copy, job.runs)
    <3>1. 0 \in Schedules \cup {0}
      OBVIOUS
    <3> QED
      BY <2>1, <3>1, TriggeredIs
  <2> QED
    BY <1>5, <2>5, <2>6, <2>7
<1>11. ASSUME NEW new \in SuiteRecs, NEW out, NEW j, Proceeding(new, out, j), job.step # "idle",
              \/ j = AfterSchedule(out.obj, job.runs) \/ j = isRunning(out.obj, job.runs)
              \/ j = notRunning(out.obj, job.runs) \/ j = Scheduled(out.obj, job.runs)
              \/ \E step \in {"focus", "history", "done"} : \E todo : j = At(step, out.obj, job.runs, todo)
       PROVE  job'.step # "track"
  <2>1. out.obj \in SuiteRecs /\ job.runs \in RunLists
    BY <1>6, <1>9, <1>11 DEF Proceeding
  <2>2. j.step # "track"
    BY <1>11, <2>1, AfterScheduleIs, isRunningIs, notRunningIs, ScheduledIs, ProceedsStep, AtShape
  <2> QED
    BY <1>11, <2>2, PatchedStep
<1>12. ASSUME NoSchedule PROVE job'.step # "track"
  <2>1. PICK out : Proceeding([job.suite EXCEPT !.nextRun = None], out, AfterSchedule(out.obj, job.runs))
    BY <1>12 DEF NoSchedule, PatchSuite, Proceeding, SuitePatched
  <2>2. [job.suite EXCEPT !.nextRun = None] \in SuiteRecs /\ job.step # "idle"
    BY <1>6, <1>12, SuiteChanges, Bounds DEF NoSchedule
  <2> QED
    BY <1>11, <2>1, <2>2
<1>13. ASSUME Focus PROVE job'.step # "track"
  <2>1. PICK r, out : r \in job.todo /\ Proceeding([job.suite EXCEPT !.phase = "Running", !.current = r], out,
                        IF job.todo = {r} THEN isRunning(out.obj, job.runs)
                        ELSE At("focus", out.obj, job.runs, job.todo \ {r}))
    BY <1>13 DEF Focus, PatchSuite, Proceeding, SuitePatched
  <2>2. [job.suite EXCEPT !.phase = "Running", !.current = r] \in SuiteRecs /\ job.step # "idle"
    BY <1>6, <1>13, <2>1, JobFacts, SuiteChanges DEF Focus
  <2> QED
    BY <1>11, <2>1, <2>2
<1>14. ASSUME SetPending PROVE job'.step # "track"
  <2>1. PICK out : Proceeding([job.suite EXCEPT !.phase = "Pending"], out, notRunning(out.obj, job.runs))
    BY <1>14 DEF SetPending, PatchSuite, Proceeding, SuitePatched
  <2>2. [job.suite EXCEPT !.phase = "Pending"] \in SuiteRecs /\ job.step # "idle"
    BY <1>6, <1>14, SuiteChanges DEF SetPending
  <2> QED
    BY <1>11, <2>1, <2>2
<1>15. ASSUME SetReady PROVE job'.step # "track"
  <2>1. PICK out : Proceeding([job.suite EXCEPT !.phase = "Ready"], out,
                     IF Old(job.runs) # {} THEN At("history", out.obj, job.runs, Old(job.runs))
                     ELSE Scheduled(out.obj, job.runs))
    BY <1>15 DEF SetReady, PatchSuite, Proceeding, SuitePatched
  <2>2. [job.suite EXCEPT !.phase = "Ready"] \in SuiteRecs /\ job.step # "idle"
    BY <1>6, <1>15, SuiteChanges DEF SetReady
  <2> QED
    BY <1>11, <2>1, <2>2
<1>16. ASSUME TrackRun \/ FinishRun PROVE job'.step # "track"
  <2>1. PICK new, out : Proceeding(new, out, At("done", out.obj, job.runs, {}))
    BY <1>16 DEF TrackRun, FinishRun, PatchSuite, Proceeding, SuitePatched
  <2> QED
    BY <2>1, PatchedStep, AtShape
<1>17. ASSUME Annotate PROVE job'.step # "track"
  <2>1. PICK out : Proceeding([job.suite EXCEPT !.annotated = job.suite.sched], out, Parsed(out.obj, job.runs, job.suite.sched))
    BY <1>17 DEF Annotate, PatchSuite, Proceeding, SuitePatched
  <2>2. Goes(job) /\ job.suite \in SuiteRecs /\ job.runs \in RunLists /\ job.step = "annotate"
    BY <1>6, <1>17 DEF Annotate
  <2>3. job.suite.sched \in Schedules /\ job.suite.sched # 0
    BY <2>2 DEF Goes, SuiteRecs
  <2>4. [job.suite EXCEPT !.annotated = job.suite.sched] \in SuiteRecs
    BY <2>2, <2>3, SuiteChanges
  <2>5. Parsed(out.obj, job.runs, job.suite.sched).step # "track"
    BY <1>9, <2>1, <2>2, <2>3, <2>4, ParsedIs DEF Proceeding
  <2> QED
    BY <2>1, <2>5, PatchedStep
<1>18. ASSUME SetNextRun PROVE job'.step # "track"
  <2> DEFINE new == [job.suite EXCEPT !.nextRun = NextTime(job.when, now)]
  <2>1. PICK out : Proceeding(new, out, [Triggered(out.obj, job.runs) EXCEPT !.when = job.when])
    BY <1>18 DEF SetNextRun, PatchSuite, Proceeding, SuitePatched
  <2>2. Goes(job) /\ job.suite \in SuiteRecs /\ job.runs \in RunLists /\ job.step = "setNext" /\ job.when \in Schedules \cup {0}
    BY <1>6, <1>18, JobFacts DEF SetNextRun
  <2>3. NextTime(job.when, now) \in Int
    BY <2>2, NextTimeType DEF Goes, Shape
  <2>4. new \in SuiteRecs
    BY <2>2, <2>3, SuiteChanges
  <2> HIDE DEF new
  <2>5. [Triggered(out.obj, job.runs) EXCEPT !.when = job.when].step # "track"
    BY <1>9, <2>1, <2>2, <2>4, TriggeredIs, ProceedsStep DEF Proceeding
  <2> QED
    BY <2>1, <2>5, PatchedStep
<1>19. ASSUME DropSchedule PROVE job'.step # "track"
  <2>1. Goes(job)
    BY <1>6, <1>19 DEF DropSchedule
  <2>2. PICK out : job' = Idle \/ job' = [job EXCEPT !.step = "noSchedule", !.suite = out.obj]
    BY <1>19 DEF DropSchedule, PatchSuite, Return
  <2>3. [job EXCEPT !.step = "noSchedule", !.suite = out.obj].step = "noSchedule" /\ Idle.step = "idle"
    BY <2>1 DEF Goes, Jobs, Idle
  <2> QED
    BY <2>2, <2>3
<1>20. ASSUME ResetTrigger \/ AnnotateRelease PROVE job'.step # "track"
  <2>1. Goes(job)
    BY <1>6, <1>20 DEF ResetTrigger, AnnotateRelease
  <2>2. PICK out : \/ job' = Idle
                   \/ job' = [job EXCEPT !.step = "trigger", !.suite = out.obj, !.cause = <<"Manual", 0>>]
                   \/ job' = [job EXCEPT !.step = "trigger", !.suite = out.obj, !.cause = <<"Helm", helm>>]
    BY <1>20 DEF ResetTrigger, AnnotateRelease, PatchSuite, Return
  <2>3. /\ [job EXCEPT !.step = "trigger", !.suite = out.obj, !.cause = <<"Manual", 0>>].step = "trigger"
        /\ [job EXCEPT !.step = "trigger", !.suite = out.obj, !.cause = <<"Helm", helm>>].step = "trigger"
        /\ Idle.step = "idle"
    BY <2>1 DEF Goes, Jobs, Idle
  <2> QED
    BY <2>2, <2>3
<1> QED
  BY <1>1, <1>2, <1>3, <1>4, <1>7, <1>8, <1>10, <1>12, <1>13, <1>14, <1>15, <1>16, <1>17, <1>18, <1>19, <1>20 DEF Controller

\* A step that leaves alone what the trigger shows in.
LEMMA SameOwing ==
  ASSUME Owing, owed' = owed, job.step # "trigger", job'.step # "track",
         Suite'.phase = Suite.phase, Suite'.current = Suite.current,
         Suite'.needsRun = Suite.needsRun, Suite'.del = Suite.del
  PROVE  Owing'
<1>1. Exists(Suite') <=> Exists(Suite)
  BY DEF Exists
<1> QED
  BY <1>1 DEF Owing, Owes

\* A patch that leaves it alone.
LEMMA PatchOwing ==
  ASSUME Shape, Owing, Working, owed' = owed, job.step # "trigger", job'.step # "track",
         NEW new \in SuiteRecs, NEW out \in PatchAnswers(new), suiteFeed' = Publish(suiteFeed, out.obj),
         new.phase = job.suite.phase, new.current = job.suite.current,
         new.needsRun = job.suite.needsRun, new.del = job.suite.del
  PROVE  Owing'
<1>1. out.obj \in SuiteRecs
  BY ShapeFacts, JobFacts, SuiteAnswers
<1>2. Suite' = out.obj
  BY <1>1, SuiteWritten
<1>3. /\ out.obj.phase = Suite.phase /\ out.obj.current = Suite.current
      /\ out.obj.needsRun = Suite.needsRun /\ out.obj.del = Suite.del
  BY PatchKeeps
<1> QED
  BY <1>2, <1>3, SameOwing

\* A patch of a suite that is not Running without a run.
LEMMA NeededOwing ==
  ASSUME Shape, Current, Alone, Owing, Working, owed' = owed, job'.step # "track",
         job.step \in {"focus", "pending", "ready", "finish", "track"},
         NEW new \in SuiteRecs, NEW out \in PatchAnswers(new), suiteFeed' = Publish(suiteFeed, out.obj),
         new.needsRun = job.suite.needsRun, new.del = job.suite.del
  PROVE  Owing'
<1>1. out.obj \in SuiteRecs
  BY ShapeFacts, JobFacts, SuiteAnswers
<1>2. Suite' = out.obj
  BY <1>1, SuiteWritten
<1>3. out.obj.needsRun = Suite.needsRun /\ out.obj.del = Suite.del
  BY PatchKeeps
<1>4. Exists(Suite) /\ Knows(job, Suite, Runs)
  BY DEF Alone, Lone, Knows, Working
<1>5. job.step = "finish" => Suite.current # None
  BY <1>4, ListedTypes, Bounds DEF Knows
<1>6. ~(Suite.phase = "Running" /\ Suite.current = None /\ job.step # "track")
  BY <1>4, <1>5 DEF Knows
<1> QED
  BY <1>2, <1>3, <1>4, <1>6 DEF Owing, Owes

\* Every action of the controller keeps the trigger until a run is created.
LEMMA ControllerOwing ==
  ASSUME Shape, Current, Alone, Owing, Controller
  PROVE  Owing'
<1>b. Suite \in SuiteRecs
  BY ShapeFacts
<1>0. owed' = owed \/ CreateRun
  BY ControllerLeaves
<1>1. ASSUME CreateRun PROVE Owing'
  BY <1>1 DEF CreateRun, Owing, Owes, Suite
<1>2. ASSUME ~CreateRun PROVE owed' = owed /\ job'.step # "track"
  BY <1>0, <1>2, OnlyCreateTracks
<1>3. ASSUME ~CreateRun, job.step # "trigger", Suite' = Suite PROVE Owing'
  BY <1>2, <1>3, SameOwing
<1>4. ASSUME \/ Reconcile \/ Done \/ MissingRun \/ RunsDeleted \/ WaitForNextRun \/ CreateRunFails
             \/ HistoryEnforced \/ Compact \/ RunsReleased \/ NextRunIsDue, ~CreateRun
      PROVE  Owing'
  <2>1. job.step # "trigger" /\ Suite' = Suite
    BY <1>4 DEF Reconcile, Working, Done, MissingRun, RunsDeleted, WaitForNextRun, CreateRunFails, HistoryEnforced,
                Compact, RunsReleased, NextRunIsDue, Locally, Suite
  <2> QED
    BY <1>3, <1>4, <2>1
<1>5. ASSUME NilSchedule, ~CreateRun PROVE Owing'
  <2>1. job.step # "trigger" /\ Suite' = Suite
    BY <1>5, <1>b, RestartStates DEF NilSchedule, Suite
  <2> QED
    BY <1>3, <1>5, <2>1
<1>6. ASSUME NEW r \in Names, CleanUpRun(r) \/ ReleaseRun(r), ~CreateRun PROVE Owing'
  <2>1. job.step # "trigger" /\ Suite' = Suite
    BY <1>6 DEF CleanUpRun, ReleaseRun, Suite
  <2> QED
    BY <1>3, <1>6, <2>1
<1>7. ASSUME ReleaseSuite, ~CreateRun PROVE Owing'
  <2>1. Working /\ Goes(job) /\ job.step = "release"
    BY <1>7, StepWorks DEF ReleaseSuite
  <2>2. PICK out \in cleanUp(job.suite, Suite, SuiteFin, "Resource") : suiteFeed' = Publish(suiteFeed, out.obj)
    BY <1>7, AnswersAre DEF ReleaseSuite
  <2>3. job.suite \in SuiteRecs
    BY <2>1, JobFacts
  <2>4. Suite' = out.obj /\ (~Exists(Suite) => out.obj = Suite)
    BY <1>b, <2>2, <2>3, CleanUpAnswers, SuiteWritten
  <2>5. ~Exists(Suite) \/ Suite.del
    BY <2>1 DEF Alone, Lone, Knows, Working
  <2>6. Suite.del => out.obj.del
    <3> DEFINE deleted == IF job.suite.del THEN Suite ELSE Reaped(Deleted(Suite))
    <3>1. \A x \in SuiteRecs : x.del => Reaped(x).del /\ Deleted(x).del
      BY DEF Reaped, Deleted, SuiteRecs
    <3>2. \A x \in SuiteRecs : \A fins : x.del => WithFins(x, fins).del
      BY DEF WithFins, SuiteRecs
    <3>3. job.suite.fins \ {SuiteFin} \in SUBSET {SuiteFin}
      BY <2>3 DEF SuiteRecs
    <3>4. Suite.del => deleted.del /\ deleted \in SuiteRecs
      BY <1>b, <3>1, SuiteTypes
    <3>5. out.obj \in {Suite, deleted, Reaped(WithFins(deleted, job.suite.fins \ {SuiteFin}))}
      BY CleanUpOutcomes
    <3> HIDE DEF deleted
    <3>6. Suite.del => Reaped(WithFins(deleted, job.suite.fins \ {SuiteFin})).del
      BY <3>1, <3>2, <3>3, <3>4, SuiteTypes
    <3> QED
      BY <3>4, <3>5, <3>6
  <2> QED
    BY <2>4, <2>5, <2>6 DEF Owing, Owes
<1>8. ASSUME EnsureFinalizer, ~CreateRun PROVE Owing'
  <2>1. Working /\ Goes(job) /\ job.step = "finalizer"
    BY <1>8, StepWorks DEF EnsureFinalizer
  <2>2. PICK out \in addFinalizer(job.suite, Suite, SuiteFin, "Resource") : suiteFeed' = Publish(suiteFeed, out.obj)
    BY <1>8, AnswersAre DEF EnsureFinalizer
  <2>3. job.suite \in SuiteRecs
    BY <2>1, JobFacts
  <2>4. /\ out.obj \in SuiteRecs /\ (out.obj = Suite \/ out.obj = [Suite EXCEPT !.fins = {SuiteFin}])
    BY <1>b, <2>2, <2>3, AddAnswers
  <2>5. /\ out.obj.phase = Suite.phase /\ out.obj.current = Suite.current
        /\ out.obj.needsRun = Suite.needsRun /\ out.obj.del = Suite.del
    BY <1>b, <2>4 DEF SuiteRecs
  <2>6. Suite' = out.obj
    BY <2>2, <2>4, SuiteWritten
  <2> QED
    BY <1>2, <1>8, <2>1, <2>5, <2>6, SameOwing
<1>9. ASSUME ClearNextRun, ~CreateRun PROVE Owing'
  <2> DEFINE new == [job.suite EXCEPT !.nextRun = None]
  <2>1. Working /\ Goes(job) /\ job.step = "clearNext"
    BY <1>9, StepWorks DEF ClearNextRun
  <2>2. PICK out \in PatchAnswers(new) : suiteFeed' = Publish(suiteFeed, out.obj)
    BY <1>9 DEF ClearNextRun, TryPatchSuite
  <2>3. new \in SuiteRecs
    BY <2>1, JobFacts, SuiteChanges, Bounds
  <2>4. /\ new.phase = job.suite.phase /\ new.current = job.suite.current
        /\ new.needsRun = job.suite.needsRun /\ new.del = job.suite.del
    BY <2>1, JobFacts DEF SuiteRecs
  <2> HIDE DEF new
  <2> QED
    BY <1>2, <1>9, <2>1, <2>2, <2>3, <2>4, PatchOwing
<1>10. ASSUME RejectSchedule, ~CreateRun PROVE Owing'
  <2> DEFINE new == [job.suite EXCEPT !.nextRun = None]
  <2>1. Working /\ Goes(job) /\ job.step = "badSchedule"
    BY <1>10, StepWorks DEF RejectSchedule
  <2>2. PICK out \in PatchAnswers(new) : suiteFeed' = Publish(suiteFeed, out.obj)
    BY <1>10 DEF RejectSchedule, TryPatchSuite
  <2>3. new \in SuiteRecs
    BY <2>1, JobFacts, SuiteChanges, Bounds
  <2>4. /\ new.phase = job.suite.phase /\ new.current = job.suite.current
        /\ new.needsRun = job.suite.needsRun /\ new.del = job.suite.del
    BY <2>1, JobFacts DEF SuiteRecs
  <2> HIDE DEF new
  <2> QED
    BY <1>2, <1>10, <2>1, <2>2, <2>3, <2>4, PatchOwing
<1>11. ASSUME NoSchedule, ~CreateRun PROVE Owing'
  <2> DEFINE new == [job.suite EXCEPT !.nextRun = None]
  <2>1. Working /\ Goes(job) /\ job.step = "noSchedule"
    BY <1>11, StepWorks DEF NoSchedule
  <2>2. PICK out \in PatchAnswers(new) : suiteFeed' = Publish(suiteFeed, out.obj)
    BY <1>11 DEF NoSchedule, PatchSuite
  <2>3. new \in SuiteRecs
    BY <2>1, JobFacts, SuiteChanges, Bounds
  <2>4. /\ new.phase = job.suite.phase /\ new.current = job.suite.current
        /\ new.needsRun = job.suite.needsRun /\ new.del = job.suite.del
    BY <2>1, JobFacts DEF SuiteRecs
  <2> HIDE DEF new
  <2> QED
    BY <1>2, <1>11, <2>1, <2>2, <2>3, <2>4, PatchOwing
<1>12. ASSUME DropSchedule, ~CreateRun PROVE Owing'
  <2> DEFINE new == [job.suite EXCEPT !.annotated = 0]
  <2>1. Working /\ Goes(job) /\ job.step = "dropSchedule"
    BY <1>12, StepWorks DEF DropSchedule
  <2>2. PICK out \in PatchAnswers(new) : suiteFeed' = Publish(suiteFeed, out.obj)
    BY <1>12 DEF DropSchedule, PatchSuite
  <2>3. new \in SuiteRecs
    BY <2>1, JobFacts, SuiteChanges, Bounds
  <2>4. /\ new.phase = job.suite.phase /\ new.current = job.suite.current
        /\ new.needsRun = job.suite.needsRun /\ new.del = job.suite.del
    BY <2>1, JobFacts DEF SuiteRecs
  <2> HIDE DEF new
  <2> QED
    BY <1>2, <1>12, <2>1, <2>2, <2>3, <2>4, PatchOwing
<1>13. ASSUME Annotate, ~CreateRun PROVE Owing'
  <2> DEFINE new == [job.suite EXCEPT !.annotated = job.suite.sched]
  <2>1. Working /\ Goes(job) /\ job.step = "annotate"
    BY <1>13, StepWorks DEF Annotate
  <2>2. PICK out \in PatchAnswers(new) : suiteFeed' = Publish(suiteFeed, out.obj)
    BY <1>13 DEF Annotate, PatchSuite
  <2>3. new \in SuiteRecs
    <3>1. job.suite.sched \in Schedules
      BY <2>1, JobFacts DEF SuiteRecs
    <3> QED
      BY <2>1, <3>1, JobFacts, SuiteChanges
  <2>4. /\ new.phase = job.suite.phase /\ new.current = job.suite.current
        /\ new.needsRun = job.suite.needsRun /\ new.del = job.suite.del
    BY <2>1, JobFacts DEF SuiteRecs
  <2> HIDE DEF new
  <2> QED
    BY <1>2, <1>13, <2>1, <2>2, <2>3, <2>4, PatchOwing
<1>14. ASSUME SetNextRun, ~CreateRun PROVE Owing'
  <2> DEFINE new == [job.suite EXCEPT !.nextRun = NextTime(job.when, now)]
  <2>1. Working /\ Goes(job) /\ job.step = "setNext"
    BY <1>14, StepWorks DEF SetNextRun
  <2>2. PICK out \in PatchAnswers(new) : suiteFeed' = Publish(suiteFeed, out.obj)
    BY <1>14 DEF SetNextRun, PatchSuite
  <2>3. new \in SuiteRecs
    <3>1. job.when \in Schedules \cup {0} /\ job.when # 0 /\ now \in Int
      BY <1>14, <2>1, JobFacts DEF Goes, Shape
    <3>2. NextTime(job.when, now) \in Int
      BY <3>1, NextTimeType
    <3> QED
      BY <2>1, <3>2, JobFacts, SuiteChanges
  <2>4. /\ new.phase = job.suite.phase /\ new.current = job.suite.current
        /\ new.needsRun = job.suite.needsRun /\ new.del = job.suite.del
    BY <2>1, JobFacts DEF SuiteRecs
  <2> HIDE DEF new
  <2> QED
    BY <1>2, <1>14, <2>1, <2>2, <2>3, <2>4, PatchOwing
<1>15. ASSUME NextRunMissed, ~CreateRun PROVE Owing'
  <2> DEFINE new == [job.suite EXCEPT !.nextRun = NextTime(job.when, now)]
  <2>1. Working /\ Goes(job) /\ job.step = "due"
    BY <1>15, StepWorks DEF NextRunMissed
  <2>2. PICK out \in PatchAnswers(new) : suiteFeed' = Publish(suiteFeed, out.obj)
    BY <1>15 DEF NextRunMissed
  <2>3. new \in SuiteRecs
    <3>1. job.when \in Schedules \cup {0} /\ job.when # 0 /\ now \in Int
      BY <1>15, <2>1, JobFacts DEF Goes, Shape, NextRunMissed
    <3>2. NextTime(job.when, now) \in Int
      BY <3>1, NextTimeType
    <3> QED
      BY <2>1, <3>2, JobFacts, SuiteChanges
  <2>4. /\ new.phase = job.suite.phase /\ new.current = job.suite.current
        /\ new.needsRun = job.suite.needsRun /\ new.del = job.suite.del
    BY <2>1, JobFacts DEF SuiteRecs
  <2> HIDE DEF new
  <2> QED
    BY <1>2, <1>15, <2>1, <2>2, <2>3, <2>4, PatchOwing
<1>16. ASSUME AnnotateRelease, ~CreateRun PROVE Owing'
  <2> DEFINE new == [job.suite EXCEPT !.lastHelm = 0]
  <2>1. Working /\ Goes(job) /\ job.step = "helm"
    BY <1>16, StepWorks DEF AnnotateRelease
  <2>2. PICK out \in PatchAnswers(new) : suiteFeed' = Publish(suiteFeed, out.obj)
    BY <1>16 DEF AnnotateRelease, PatchSuite
  <2>3. new \in SuiteRecs
    BY <2>1, JobFacts, SuiteChanges, Bounds
  <2>4. /\ new.phase = job.suite.phase /\ new.current = job.suite.current
        /\ new.needsRun = job.suite.needsRun /\ new.del = job.suite.del
    BY <2>1, JobFacts DEF SuiteRecs
  <2> HIDE DEF new
  <2> QED
    BY <1>2, <1>16, <2>1, <2>2, <2>3, <2>4, PatchOwing
<1>17. ASSUME SetPending, ~CreateRun PROVE Owing'
  <2> DEFINE new == [job.suite EXCEPT !.phase = "Pending"]
  <2>1. Working /\ Goes(job) /\ job.step = "pending"
    BY <1>17, StepWorks DEF SetPending
  <2>3. PICK out \in PatchAnswers(new) : suiteFeed' = Publish(suiteFeed, out.obj)
    BY <1>17 DEF SetPending, PatchSuite
  <2>4. new \in SuiteRecs
    BY <2>1, JobFacts, SuiteChanges
  <2>5. new.needsRun = job.suite.needsRun /\ new.del = job.suite.del
    BY <2>1, JobFacts DEF SuiteRecs
  <2> HIDE DEF new
  <2> QED
    BY <1>2, <1>17, <2>1, <2>3, <2>4, <2>5, NeededOwing
<1>18. ASSUME SetReady, ~CreateRun PROVE Owing'
  <2> DEFINE new == [job.suite EXCEPT !.phase = "Ready"]
  <2>1. Working /\ Goes(job) /\ job.step = "ready"
    BY <1>18, StepWorks DEF SetReady
  <2>3. PICK out \in PatchAnswers(new) : suiteFeed' = Publish(suiteFeed, out.obj)
    BY <1>18 DEF SetReady, PatchSuite
  <2>4. new \in SuiteRecs
    BY <2>1, JobFacts, SuiteChanges
  <2>5. new.needsRun = job.suite.needsRun /\ new.del = job.suite.del
    BY <2>1, JobFacts DEF SuiteRecs
  <2> HIDE DEF new
  <2> QED
    BY <1>2, <1>18, <2>1, <2>3, <2>4, <2>5, NeededOwing
<1>19. ASSUME Focus, ~CreateRun PROVE Owing'
  <2>1. Working /\ Goes(job) /\ job.step = "focus"
    BY <1>19, StepWorks DEF Focus
  <2>2. PICK r \in job.todo :
          \E out \in PatchAnswers([job.suite EXCEPT !.phase = "Running", !.current = r]) : suiteFeed' = Publish(suiteFeed, out.obj)
    BY <1>19 DEF Focus, PatchSuite
  <2> DEFINE new == [job.suite EXCEPT !.phase = "Running", !.current = r]
  <2>3. PICK out \in PatchAnswers(new) : suiteFeed' = Publish(suiteFeed, out.obj)
    BY <2>2
  <2>4. new \in SuiteRecs
    BY <2>1, JobFacts, SuiteChanges
  <2>5. new.needsRun = job.suite.needsRun /\ new.del = job.suite.del
    BY <2>1, JobFacts DEF SuiteRecs
  <2> HIDE DEF new
  <2> QED
    BY <1>2, <1>19, <2>1, <2>3, <2>4, <2>5, NeededOwing
<1>20. ASSUME TrackRun, ~CreateRun PROVE Owing'
  <2>1. Working /\ Goes(job) /\ job.step = "track"
    BY <1>20, StepWorks DEF TrackRun
  <2>2. PICK r \in job.todo : \E out \in PatchAnswers([job.suite EXCEPT !.current = r]) : suiteFeed' = Publish(suiteFeed, out.obj)
    BY <1>20 DEF TrackRun, PatchSuite
  <2> DEFINE new == [job.suite EXCEPT !.current = r]
  <2>3. PICK out \in PatchAnswers(new) : suiteFeed' = Publish(suiteFeed, out.obj)
    BY <2>2
  <2>4. new \in SuiteRecs
    BY <2>1, JobFacts, SuiteChanges
  <2>5. new.needsRun = job.suite.needsRun /\ new.del = job.suite.del
    BY <2>1, JobFacts DEF SuiteRecs
  <2> HIDE DEF new
  <2> QED
    BY <1>2, <1>20, <2>1, <2>3, <2>4, <2>5, NeededOwing
<1>21. ASSUME FinishRun, ~CreateRun PROVE Owing'
  <2> DEFINE new == [job.suite EXCEPT !.phase = "Ready", !.current = None]
  <2>1. Working /\ Goes(job) /\ job.step = "finish"
    BY <1>21, StepWorks DEF FinishRun
  <2>3. PICK out \in PatchAnswers(new) : suiteFeed' = Publish(suiteFeed, out.obj)
    BY <1>21 DEF FinishRun, PatchSuite
  <2>4. new \in SuiteRecs
    BY <2>1, JobFacts, SuiteChanges
  <2>5. new.needsRun = job.suite.needsRun /\ new.del = job.suite.del
    BY <2>1, JobFacts DEF SuiteRecs
  <2> HIDE DEF new
  <2> QED
    BY <1>2, <1>21, <2>1, <2>3, <2>4, <2>5, NeededOwing
<1>22. ASSUME ResetTrigger, ~CreateRun PROVE Owing'
  <2> DEFINE new == [job.suite EXCEPT !.needsRun = FALSE]
  <2>1. Working /\ Goes(job) /\ job.step = "manual"
    BY <1>22, StepWorks DEF ResetTrigger
  <2>2. PICK out : Proceeding(new, out, [job EXCEPT !.step = "trigger", !.suite = out.obj, !.cause = <<"Manual", 0>>])
    BY <1>22 DEF ResetTrigger, PatchSuite, Proceeding, SuitePatched
  <2>3. new \in SuiteRecs
    BY <2>1, JobFacts, SuiteChanges
  <2>4. new.fins = job.suite.fins /\ new.phase = job.suite.phase
    BY <2>1, JobFacts DEF SuiteRecs
  <2> HIDE DEF new
  <2>5. Suite' = out.obj /\ (out.res # "OK" => out.obj = Suite)
    BY <2>1, <2>2, <2>3, <2>4, CleanPatch DEF Proceeding
  <2>6. CASE out.res = "OK"
    <3>1. job' = [job EXCEPT !.step = "trigger", !.suite = out.obj, !.cause = <<"Manual", 0>>]
      BY <2>2, <2>6 DEF Proceeding
    <3>2. job'.step = "trigger" /\ job'.suite = Suite'
      BY <2>1, <2>5, <3>1 DEF Goes, Jobs
    <3> QED
      BY <3>2 DEF Owing, Owes
  <2>7. CASE out.res # "OK"
    BY <1>3, <1>22, <2>1, <2>5, <2>7
  <2> QED
    BY <2>6, <2>7
<1>23. ASSUME SetRunning, ~CreateRun PROVE Owing'
  <2> DEFINE new == [job.suite EXCEPT !.phase = "Running", !.current = None]
  <2>1. Working /\ Goes(job) /\ job.step = "trigger"
    BY <1>23, StepWorks DEF SetRunning
  <2>2. new \in SuiteRecs
    BY <2>1, JobFacts, SuiteChanges
  <2>3. new.fins = job.suite.fins /\ new.phase = "Running" /\ new.current = None
    BY <2>1, JobFacts DEF SuiteRecs
  <2>4. PICK out \in PatchAnswers(new) : suiteFeed' = Publish(suiteFeed, out.obj) /\ job' = Idle
    BY <1>23 DEF SetRunning, Return
  <2> HIDE DEF new
  <2>5. /\ out.obj \in SuiteRecs
        /\ out.res = "OK" => out.obj.phase = "Running" /\ out.obj.current = None
        /\ out.res # "OK" => out.obj = Suite
    BY <2>1, <2>2, <2>3, CleanAnswer
  <2>6. Suite' = out.obj
    BY <2>4, <2>5, SuiteWritten
  <2>7. CASE out.res = "OK"
    BY <2>4, <2>5, <2>6, <2>7 DEF Owing, Owes, Idle
  <2>8. CASE out.res # "OK"
    <3>1. Exists(Suite) /\ Suite.phase # "Running"
      BY <2>1 DEF Alone, Lone, Knows, Resting, Working
    <3>2. Suite # job.suite
      BY <2>1, <2>2, <2>8, <3>1, ShapeFacts, JobFacts, SuiteAnswers DEF Current, Shape
    <3>3. Suite' = Suite /\ owed' = owed
      BY <1>2, <1>23, <2>5, <2>6, <2>8
    <3> QED
      BY <2>1, <3>1, <3>2, <3>3 DEF Owing, Owes
  <2> QED
    BY <2>7, <2>8
<1> QED
  BY <1>1, <1>4, <1>5, <1>6, <1>7, <1>8, <1>9, <1>10, <1>11, <1>12, <1>13, <1>14, <1>15, <1>16,
     <1>17, <1>18, <1>19, <1>20, <1>21, <1>22, <1>23 DEF Controller

\* Users who trigger or delete the suite lose no trigger either.
LEMMA BystanderOwing ==
  ASSUME Shape, Current, MaxEdits = 0, Counted, Owing,
         \/ SuiteEvent \/ RunEvent \/ WakeUp \/ Tick \/ Restart \/ Cluster \/ UNCHANGED vars
  PROVE  Owing'
<1>b. Suite \in SuiteRecs
  BY ShapeFacts
<1>0. ASSUME job' = job, Suite' = Suite, owed' = owed PROVE Owing'
  BY <1>0 DEF Owing, Owes
<1>1. CASE SuiteEvent \/ RunEvent \/ WakeUp \/ Tick
  BY <1>0, <1>1, WatchShape DEF SuiteEvent, RunEvent, WakeUp, Tick, history
<1>2. CASE Restart
  BY <1>2 DEF Restart, Current, Counted
<1>3. CASE UNCHANGED vars
  BY <1>0, <1>3 DEF vars, Suite
<1>4. ASSUME UserTriggers PROVE Owing'
  <2> DEFINE x == [Suite EXCEPT !.needsRun = TRUE]
  <2>1. x \in SuiteRecs /\ x.needsRun
    BY <1>b DEF SuiteRecs
  <2>2. suiteFeed' = Publish(suiteFeed, x)
    BY <1>4 DEF UserTriggers
  <2> HIDE DEF x
  <2>3. Suite'.needsRun
    BY <2>1, <2>2, SuiteWritten
  <2> QED
    BY <2>3 DEF Owing, Owes
<1>5. ASSUME ScheduleEdited PROVE Owing'
  BY <1>5 DEF ScheduleEdited, Counted
<1>6. ASSUME SuiteDeleted PROVE Owing'
  <2> DEFINE x == Reaped(Deleted(Suite))
  <2>1. x \in SuiteRecs
    BY <1>b, SuiteTypes
  <2>2. x.del
    <3>1. Deleted(Suite).del /\ Deleted(Suite) \in SuiteRecs
      BY <1>b, <1>6 DEF SuiteDeleted, Deleted, SuiteRecs
    <3> QED
      BY <3>1 DEF Reaped, SuiteRecs
  <2>3. suiteFeed' = Publish(suiteFeed, x)
    BY <1>6 DEF SuiteDeleted
  <2> HIDE DEF x
  <2>4. Suite'.del
    BY <2>1, <2>2, <2>3, SuiteWritten
  <2> QED
    BY <2>4 DEF Owing, Owes
<1>7. ASSUME ReleaseDeployed PROVE Owing'
  BY <1>0, <1>7 DEF ReleaseDeployed, history, Suite
<1>8. ASSUME NEW r \in Names, \/ RunAdopted(r) \/ RunDecided(r, "Passed") \/ RunDecided(r, "Failed")
                              \/ RunLetGo(r) \/ RunDeleted(r) \/ RunOrphaned(r)
      PROVE  Owing'
  <2>1. job' = job /\ Suite' = Suite /\ owed' = owed
    BY <1>8 DEF RunAdopted, RunDecided, RunLetGo, RunDeleted, RunOrphaned, Others, Suite
  <2> QED
    BY <1>0, <2>1
<1> QED
  BY <1>1, <1>2, <1>3, <1>4, <1>5, <1>6, <1>7, <1>8 DEF Cluster

\* With current caches, no failing call and no edit of the schedule a user's
\* trigger is never lost, although it is reset in one call and the suite set
\* Running in another: with no work left there was a run for it, or the suite is
\* Running and the trigger still set.
THEOREM TriggerAlwaysKept ==
  ASSUME MaxLag = 0, MaxFaults = 0, MaxRestarts = 0, MaxEdits = 0
  PROVE  Spec => []TriggerKept
<1>1. Current
  BY DEF Current
<1>2. Shape /\ Counted /\ Alone /\ Owing /\ [Next]_vars => Owing'
  BY <1>1, ControllerOwing, BystanderOwing DEF Next
<1>3. Init => Owing
  BY DEF Init, Owing
<1>4. Owing /\ Converged => TriggerKept
  <2> SUFFICES ASSUME Owing, Converged, Quiescent, owed, Exists(Suite), ~Suite.del
               PROVE  Suite.phase = "Running" /\ Suite.needsRun
    BY DEF TriggerKept
  <2>1. Suite.needsRun \/ (Suite.phase = "Running" /\ Suite.current = None)
    BY DEF Owing, Owes, Quiescent, Working
  <2>2. \/ Suite.phase = "Running" /\ Suite.current \in Unfinished(Runs)
        \/ Suite.phase = "Ready" /\ ~Suite.needsRun
    BY DEF Converged
  <2>3. None \notin Unfinished(Runs)
    BY UnfinishedAre, Bounds
  <2> QED
    BY <2>1, <2>2, <2>3
<1> QED
  BY <1>1, <1>2, <1>3, <1>4, AloneInvariant, AlwaysConverged, PTL DEF Spec
-----------------------------------------------------------------------------
(***************************************************************************)
(* The timer, with caches of any age.  Whoever rests with a schedule has   *)
(* annotated it, has a next run, and has set the timer for it: a calm      *)
(* reconcile knows the stored next run, or has just forgotten it and is    *)
(* about to annotate another schedule, or one that is not valid.           *)
(***************************************************************************)
Valid(sched) == sched \notin {0, BadSchedule}

AtTime(copy, suite) ==
  \/ copy.nextRun = suite.nextRun
  \/ copy.nextRun = None /\ (suite.sched # suite.annotated \/ suite.sched = BadSchedule)

\* What a calm reconcile j knows of the schedule.
Arms(j, suite) ==
  /\ AtTime(j.suite, suite)
  /\ j.step = "clearNext" => suite.sched # suite.annotated
  /\ j.step = "badSchedule" => suite.sched = BadSchedule
  /\ j.step = "setNext" => j.base = j.suite /\ j.suite.nextRun = None /\ suite.annotated = suite.sched
  /\ j.step = "due" => /\ j.base = j.suite /\ j.suite.nextRun # None
                       /\ Valid(suite.sched) => suite.annotated = suite.sched
  /\ j.step = "done" => suite.phase # "Ready" \/ ~Valid(suite.sched)

\* When no work is left the timer of a Ready suite goes off by its next run.
TimerSet ==
  Quiescent /\ Exists(Suite) /\ ~Suite.del /\ Suite.phase = "Ready" /\ Valid(Suite.sched) =>
    /\ Suite.annotated = Suite.sched
    /\ Suite.nextRun # None
    /\ wake # None /\ wake <= Suite.nextRun

Armed ==
  /\ TimerSet
  /\ Working /\ Calm => Arms(job, Suite)

\* A step that queues the key, or leaves an event under way, has nothing to
\* show for.
LEMMA DisturbedArmed ==
  ASSUME ~Calm'
  PROVE  Armed'
  BY DEF Armed, TimerSet, Quiescent, Calm

\* Nor has one that goes on.
LEMMA OngoingArmed ==
  ASSUME job'.step # "idle", Calm' => Arms(job', Suite')
  PROVE  Armed'
  BY DEF Armed, TimerSet, Quiescent, Working

\* Most steps have nothing to do with the schedule.
LEMMA OtherArms ==
  ASSUME NEW j, NEW suite, AtTime(j.suite, suite),
         j.step \notin {"clearNext", "badSchedule", "setNext", "due", "done"}
  PROVE  Arms(j, suite)
  BY DEF Arms

\* A reconcile that looks for triggers comes to the next run if there is one.
LEMMA TriggeredNext ==
  ASSUME NEW suite \in SuiteRecs, NEW runs \in RunLists
  PROVE  /\ Triggered(suite, runs).step = "due" => suite.nextRun # None
         /\ Triggered(suite, runs).step = "done" => suite.nextRun = None
<1>1. PICK step : /\ Triggered(suite, runs) = At(step, suite, runs, {})
                  /\ step = "due" => suite.nextRun # None
                  /\ step = "done" => suite.nextRun = None
  BY DEF Triggered
<1> QED
  BY <1>1, AtShape

\* A reconcile set to look for triggers.
LEMMA TriggeredArms ==
  ASSUME NEW copy \in SuiteRecs, NEW suite, NEW runs \in RunLists, NEW when \in Schedules \cup {0},
         AtTime(copy, suite), Valid(suite.sched) => suite.annotated = suite.sched /\ copy.nextRun # None
  PROVE  /\ Arms(Triggered(copy, runs), suite)
         /\ Arms([Triggered(copy, runs) EXCEPT !.when = when], suite)
<1>1. ASSUME NEW j, j.suite = copy, j.base = copy, j.step = Triggered(copy, runs).step
      PROVE  Arms(j, suite)
  <2>1. /\ j.step \in {"manual", "helm", "due", "done"}
        /\ j.step = "due" => copy.nextRun # None
        /\ j.step = "done" => copy.nextRun = None
    BY <1>1, TriggeredIs, TriggeredNext
  <2> QED
    BY <1>1, <2>1 DEF Arms
<1>2. /\ Triggered(copy, runs).suite = copy
      /\ Triggered(copy, runs).base = copy
      /\ [Triggered(copy, runs) EXCEPT !.when = when].suite = copy
      /\ [Triggered(copy, runs) EXCEPT !.when = when].base = copy
      /\ [Triggered(copy, runs) EXCEPT !.when = when].step = Triggered(copy, runs).step
  <2>1. /\ Proceeds(Triggered(copy, runs), copy, runs)
        /\ Proceeds([Triggered(copy, runs) EXCEPT !.when = when], copy, runs)
        /\ [Triggered(copy, runs) EXCEPT !.when = when].step = Triggered(copy, runs).step
    BY TriggeredIs
  <2> QED
    BY <2>1 DEF Proceeds
<1> QED
  BY <1>1, <1>2

\* One that has parsed the annotated schedule.
LEMMA ParsedArms ==
  ASSUME NEW copy \in SuiteRecs, NEW suite, NEW runs \in RunLists, NEW when \in Schedules, when # 0,
         AtTime(copy, suite), suite.sched = when, suite.annotated = when
  PROVE  Arms(Parsed(copy, runs, when), suite)
<1>1. CASE when = BadSchedule
  <2> DEFINE j == At("badSchedule", copy, runs, {})
  <2>1. Parsed(copy, runs, when) = [j EXCEPT !.when = when]
    BY <1>1 DEF Parsed
  <2>2. j.step = "badSchedule" /\ j.suite = copy
    BY AtShape
  <2>3. [j EXCEPT !.when = when].step = "badSchedule" /\ [j EXCEPT !.when = when].suite = copy
    BY DEF At
  <2> HIDE DEF j
  <2> QED
    BY <1>1, <2>1, <2>3 DEF Arms
<1>2. CASE when # BadSchedule /\ copy.nextRun = None
  <2> DEFINE j == [At("setNext", copy, runs, {}) EXCEPT !.when = when]
  <2>1. Parsed(copy, runs, when) = j
    BY <1>2 DEF Parsed
  <2>2. j.step = "setNext" /\ j.suite = copy /\ j.base = copy
    BY DEF At
  <2> HIDE DEF j
  <2> QED
    BY <1>2, <2>1, <2>2 DEF Arms
<1>3. CASE when # BadSchedule /\ copy.nextRun # None
  <2>1. Parsed(copy, runs, when) = [Triggered(copy, runs) EXCEPT !.when = when]
    BY <1>3 DEF Parsed
  <2> QED
    BY <1>3, <2>1, TriggeredArms
<1> QED
  BY <1>1, <1>2, <1>3

\* One of a suite within its history limit.
LEMMA ScheduledArms ==
  ASSUME NEW copy \in SuiteRecs, NEW suite, NEW runs \in RunLists, Alike(copy, suite), AtTime(copy, suite)
  PROVE  Arms(Scheduled(copy, runs), suite)
<1>1. copy.sched \in Schedules /\ copy.sched = suite.sched /\ copy.annotated = suite.annotated
  BY DEF SuiteRecs, Alike
<1>2. CASE copy.sched = 0
  <2>1. Scheduled(copy, runs) = Triggered(copy, runs)
    BY <1>2 DEF Scheduled
  <2> QED
    BY <1>1, <1>2, <2>1, TriggeredArms DEF Valid
<1>3. CASE copy.sched # 0 /\ copy.annotated # copy.sched
  <2>1. Scheduled(copy, runs) = At("annotate", copy, runs, {})
    BY <1>3 DEF Scheduled
  <2> QED
    BY <2>1, AtShape, OtherArms
<1>4. CASE copy.sched # 0 /\ copy.annotated = copy.sched
  <2>1. Scheduled(copy, runs) = Parsed(copy, runs, copy.sched)
    BY <1>4 DEF Scheduled
  <2> QED
    BY <1>1, <1>4, <2>1, ParsedArms
<1> QED
  BY <1>2, <1>3, <1>4

\* And before that, by the phase, the runs and the finalizer.
LEMMA PhaseArms ==
  ASSUME NEW copy \in SuiteRecs, NEW suite, NEW runs \in RunLists, Alike(copy, suite), AtTime(copy, suite)
  PROVE  /\ Arms(notRunning(copy, runs), suite)
         /\ copy.phase # "Ready" => Arms(isRunning(copy, runs), suite)
         /\ Arms(EnsurePhase(copy, runs), suite)
         /\ Arms(AfterSchedule(copy, runs), suite)
         /\ Arms(AfterFinalizer(copy, runs), suite)
<1>1. ASSUME NEW step, NEW todo, step \notin {"clearNext", "badSchedule", "setNext", "due", "done"}
      PROVE  Arms(At(step, copy, runs, todo), suite)
  BY <1>1, AtShape, OtherArms
<1>2. Arms(notRunning(copy, runs), suite)
  BY <1>1, ScheduledArms DEF notRunning
<1>3. ASSUME copy.phase # "Ready" PROVE Arms(isRunning(copy, runs), suite)
  <2>1. PICK step \in {"create", "missing", "finish", "done"} : isRunning(copy, runs) = At(step, copy, runs, {})
    BY DEF isRunning
  <2>2. suite.phase # "Ready"
    BY <1>3 DEF Alike
  <2>3. At(step, copy, runs, {}).step = step /\ At(step, copy, runs, {}).suite = copy
    BY AtShape
  <2> QED
    BY <2>1, <2>2, <2>3 DEF Arms
<1>4. Arms(EnsurePhase(copy, runs), suite)
  <2>1. CASE copy.phase = "Running"
    <3>1. copy.phase # "Ready" /\ EnsurePhase(copy, runs) = isRunning(copy, runs)
      BY <2>1 DEF EnsurePhase
    <3> QED
      BY <1>3, <3>1
  <2>2. CASE copy.phase # "Running"
    <3>1. EnsurePhase(copy, runs) \in {At("focus", copy, runs, Unfinished(runs)), At("pending", copy, runs, {}),
                                       notRunning(copy, runs)}
      BY <2>2, Zenon DEF EnsurePhase
    <3> QED
      BY <1>1, <1>2, <3>1
  <2> QED
    BY <2>1, <2>2
<1>5. Arms(AfterSchedule(copy, runs), suite)
  BY <1>1, <1>4 DEF AfterSchedule
<1>6. Arms(AfterFinalizer(copy, runs), suite)
  <2>1. CASE AfterFinalizer(copy, runs) = At("clearNext", copy, runs, {}) /\ copy.sched # copy.annotated
    <3>1. At("clearNext", copy, runs, {}).step = "clearNext" /\ At("clearNext", copy, runs, {}).suite = copy
      BY AtShape
    <3> QED
      BY <2>1, <3>1 DEF Arms, Alike
  <2>2. CASE AfterFinalizer(copy, runs) \in {At("dropSchedule", copy, runs, {}), At("noSchedule", copy, runs, {})}
    BY <1>1, <2>2
  <2>3. CASE AfterFinalizer(copy, runs) = AfterSchedule(copy, runs)
    BY <1>5, <2>3
  <2> QED
    BY <2>1, <2>2, <2>3 DEF AfterFinalizer
<1> QED
  BY <1>2, <1>3, <1>4, <1>5, <1>6

\* A calm patch the reconcile goes on after left the suite as it was.
LEMMA CalmReply ==
  ASSUME Shape, Attentive, Armed, Working, NEW new \in SuiteRecs, NEW out, NEW j, Proceeding(new, out, j), Calm'
  PROVE  /\ job' = j /\ out.res = "OK" /\ out.obj = Suite /\ Suite' = Suite
         /\ Attends(job, Suite, Runs) /\ Arms(job, Suite) /\ Alike(new, Suite)
         /\ Exists(Suite) /\ Suite = Merged(Suite, job.base, new)
<1>1. out.res = "OK" /\ job' = j /\ ~queued /\ SuitePatched(new, out)
  BY DEF Proceeding, Return, Calm, Shape
<1>2. Fresh(suiteFeed) /\ Fresh(runFeed)
  BY <1>1, PatchedShape DEF Calm
<1>3. Attends(job, Suite, Runs) /\ Arms(job, Suite)
  BY <1>1, <1>2 DEF Attentive, Armed, Calm
<1>4. Suite' = Suite /\ Runs' = Runs /\ out.obj = Suite /\ Alike(new, Suite)
  BY <1>1, <1>3, CalmPatch DEF Attends
<1>5. Exists(Suite) /\ Suite = Merged(Suite, job.base, new)
  <2>1. Suite \in SuiteRecs /\ job.base \in SuiteRecs
    BY ShapeFacts, JobFacts
  <2> QED
    BY <1>1, <1>4, <2>1, SuiteAnswers DEF SuitePatched
<1> QED
  BY <1>1, <1>3, <1>4, <1>5

\* So it is enough to look at what the reconcile goes on with then.
LEMMA ProceedingArmed ==
  ASSUME Shape, Attentive, Armed, Working, NEW new \in SuiteRecs, NEW out, NEW j, Proceeding(new, out, j),
         out.res = "OK" => Goes(j),
         /\ Calm' /\ out.res = "OK" /\ out.obj = Suite /\ Exists(Suite) /\ Suite = Merged(Suite, job.base, new)
         /\ Attends(job, Suite, Runs) /\ Arms(job, Suite) /\ Alike(new, Suite)
         => Arms(j, Suite)
  PROVE  Armed'
<1>1. CASE ~Calm'
  BY <1>1, DisturbedArmed
<1>2. CASE Calm'
  <2>1. job' = j /\ Suite' = Suite /\ Goes(j) /\ Arms(j, Suite)
    BY <1>2, CalmReply
  <2> QED
    BY <2>1, JobFacts, OngoingArmed
<1> QED
  BY <1>1, <1>2

\* Likewise for one it goes on after in any case.
LEMMA TryingArmed ==
  ASSUME Shape, Attentive, Armed, Working, NEW new \in SuiteRecs, NEW out, NEW j, Trying(new, out, j), Goes(j),
         /\ Calm' /\ out.obj = Suite /\ Attends(job, Suite, Runs) /\ Arms(job, Suite) => Arms(j, Suite)
  PROVE  Armed'
<1>1. CASE ~Calm'
  BY <1>1, DisturbedArmed
<1>2. CASE Calm'
  <2>1. job' = j /\ ~queued /\ SuitePatched(new, out)
    BY <1>2 DEF Trying, Calm
  <2>2. Fresh(suiteFeed) /\ Fresh(runFeed)
    BY <1>2, <2>1, PatchedShape DEF Calm
  <2>3. Attends(job, Suite, Runs) /\ Arms(job, Suite)
    BY <2>1, <2>2 DEF Attentive, Armed, Calm
  <2>4. Suite' = Suite /\ out.obj = Suite
    BY <1>2, <2>1, <2>3, CalmPatch DEF Attends
  <2> QED
    BY <1>2, <2>1, <2>3, <2>4, JobFacts, OngoingArmed
<1> QED
  BY <1>1, <1>2

\* Patches that have nothing to do with the schedule, or leave it to what follows.
LEMMA PatchesArmed ==
  ASSUME Shape, Attentive, Armed,
         NoSchedule \/ DropSchedule \/ Focus \/ SetPending \/ SetReady \/ ResetTrigger \/ AnnotateRelease \/ TrackRun
  PROVE  Armed'
<1>1. Suite \in SuiteRecs /\ Runs \in RunLists /\ AtTime(Suite, Suite) /\ Alike(Suite, Suite)
  BY ShapeFacts DEF AtTime, Alike
<1>2. Working /\ Goes(job) /\ job.suite \in SuiteRecs /\ job.runs \in RunLists /\ job.todo \subseteq Names
  <2>1. job.step # "idle"
    BY DEF NoSchedule, DropSchedule, Focus, SetPending, SetReady, ResetTrigger, AnnotateRelease, TrackRun
  <2> QED
    BY <2>1, StepWorks, JobFacts
<1>3. ASSUME NEW step, NEW todo, step \notin {"clearNext", "badSchedule", "setNext", "due", "done"}
      PROVE  Arms(At(step, Suite, job.runs, todo), Suite)
  BY <1>1, <1>3, AtShape, OtherArms
<1>4. CASE NoSchedule
  <2> DEFINE new == [job.suite EXCEPT !.nextRun = None]
  <2>1. PICK out : Proceeding(new, out, AfterSchedule(out.obj, job.runs))
    BY <1>4 DEF NoSchedule, PatchSuite, Proceeding, SuitePatched
  <2>2. new \in SuiteRecs
    BY <1>2, SuiteChanges, Bounds
  <2> HIDE DEF new
  <2>3. Goes(AfterSchedule(out.obj, job.runs))
    BY <1>2, <2>1, <2>2, PatchedShape, AfterScheduleIs, ProceedsGoes DEF Proceeding
  <2>4. out.obj = Suite => Arms(AfterSchedule(out.obj, job.runs), Suite)
    BY <1>1, <1>2, PhaseArms
  <2> QED
    BY <1>2, <2>1, <2>2, <2>3, <2>4, ProceedingArmed
<1>5. CASE DropSchedule \/ ResetTrigger \/ AnnotateRelease
  <2>1. /\ job.suite.lastHelm \in {None, 0}
        /\ [job.suite EXCEPT !.annotated = 0] \in SuiteRecs /\ [job.suite EXCEPT !.needsRun = FALSE] \in SuiteRecs
        /\ [job.suite EXCEPT !.lastHelm = 0] \in SuiteRecs
    BY <1>2, SuiteChanges DEF SuiteRecs
  <2>2. PICK new, out, j :
          /\ new \in SuiteRecs
          /\ Proceeding(new, out, j)
          /\ j \in {[job EXCEPT !.step = "noSchedule", !.suite = out.obj],
                    [job EXCEPT !.step = "trigger", !.suite = out.obj, !.cause = <<"Manual", 0>>],
                    [job EXCEPT !.step = "trigger", !.suite = out.obj, !.cause = <<"Helm", helm>>]}
    BY <1>5, <2>1 DEF DropSchedule, ResetTrigger, AnnotateRelease, PatchSuite, Proceeding, SuitePatched
  <2>3. j.step \in {"noSchedule", "trigger"} /\ j.suite = out.obj
    BY <1>2, <2>2 DEF Goes, Jobs
  <2>4. out.obj = Suite => Arms(j, Suite)
    BY <1>1, <2>3, OtherArms
  <2>5. CASE ~Calm'
    BY <2>5, DisturbedArmed
  <2>6. CASE Calm'
    <3>1. job' = j /\ out.obj = Suite /\ Suite' = Suite
      BY <1>2, <2>2, <2>6, CalmReply
    <3> QED
      BY <2>3, <2>4, <3>1, OngoingArmed
  <2> QED
    BY <2>5, <2>6
<1>6. CASE Focus
  <2> DEFINE new(r) == [job.suite EXCEPT !.phase = "Running", !.current = r]
             On(r, suite) == IF job.todo = {r} THEN isRunning(suite, job.runs)
                             ELSE At("focus", suite, job.runs, job.todo \ {r})
  <2>1. PICK r, out : r \in job.todo /\ Proceeding(new(r), out, On(r, out.obj))
    BY <1>6 DEF Focus, PatchSuite, Proceeding, SuitePatched
  <2>2. new(r) \in SuiteRecs /\ new(r).phase = "Running"
    BY <1>2, <2>1, SuiteChanges DEF SuiteRecs
  <2>3. CASE ~Calm'
    BY <2>3, DisturbedArmed
  <2>4. CASE Calm'
    <3>1. job' = On(r, Suite) /\ Suite' = Suite /\ Alike(new(r), Suite)
      BY <1>2, <2>1, <2>2, <2>4, CalmReply
    <3>2. Suite.phase # "Ready"
      BY <2>2, <3>1 DEF Alike
    <3>3. Arms(On(r, Suite), Suite)
      BY <1>1, <1>2, <1>3, <3>2, PhaseArms
    <3>4. On(r, Suite).step # "idle"
      <4>1. Goes(isRunning(Suite, job.runs)) /\ At("focus", Suite, job.runs, job.todo \ {r}).step = "focus"
        BY <1>1, <1>2, isRunningIs, ProceedsGoes, AtShape
      <4> QED
        BY <4>1, JobFacts
    <3> QED
      BY <3>1, <3>3, <3>4, OngoingArmed
  <2> QED
    BY <2>3, <2>4
<1>7. CASE SetPending
  <2> DEFINE new == [job.suite EXCEPT !.phase = "Pending"]
  <2>1. PICK out : Proceeding(new, out, notRunning(out.obj, job.runs))
    BY <1>7 DEF SetPending, PatchSuite, Proceeding, SuitePatched
  <2>2. new \in SuiteRecs
    BY <1>2, SuiteChanges
  <2> HIDE DEF new
  <2>3. Goes(notRunning(out.obj, job.runs))
    BY <1>2, <2>1, <2>2, PatchedShape, notRunningIs, ProceedsGoes DEF Proceeding
  <2>4. out.obj = Suite => Arms(notRunning(out.obj, job.runs), Suite)
    BY <1>1, <1>2, PhaseArms
  <2> QED
    BY <1>2, <2>1, <2>2, <2>3, <2>4, ProceedingArmed
<1>8. CASE SetReady
  <2> DEFINE new == [job.suite EXCEPT !.phase = "Ready"]
             On(suite) == IF Old(job.runs) # {} THEN At("history", suite, job.runs, Old(job.runs))
                          ELSE Scheduled(suite, job.runs)
  <2>1. PICK out : Proceeding(new, out, On(out.obj))
    BY <1>8 DEF SetReady, PatchSuite, Proceeding, SuitePatched
  <2>2. new \in SuiteRecs
    BY <1>2, SuiteChanges
  <2>3. CASE ~Calm'
    BY <2>3, DisturbedArmed
  <2>4. CASE Calm'
    <3>1. job' = On(Suite) /\ Suite' = Suite
      BY <1>2, <2>1, <2>2, <2>4, CalmReply
    <3>2. Arms(On(Suite), Suite)
      BY <1>1, <1>2, <1>3, ScheduledArms
    <3>3. On(Suite).step # "idle"
      <4>1. Goes(Scheduled(Suite, job.runs)) /\ At("history", Suite, job.runs, Old(job.runs)).step = "history"
        BY <1>1, <1>2, ScheduledIs, ProceedsGoes, AtShape
      <4> QED
        BY <4>1, JobFacts
    <3> QED
      BY <3>1, <3>2, <3>3, OngoingArmed
  <2> QED
    BY <2>3, <2>4
<1>9. CASE TrackRun
  <2> DEFINE new(r) == [job.suite EXCEPT !.current = r]
  <2>1. PICK r, out : r \in job.todo /\ Proceeding(new(r), out, At("done", out.obj, job.runs, {}))
    BY <1>9 DEF TrackRun, PatchSuite, Proceeding, SuitePatched
  <2>2. new(r) \in SuiteRecs
    BY <1>2, <2>1, SuiteChanges
  <2>3. ASSUME Calm' PROVE FALSE
    <3>1. Attends(job, Suite, Runs)
      BY <1>2, <2>1, <2>2, <2>3, CalmReply
    <3> QED
      BY <1>9, <3>1 DEF TrackRun, Attends, CalmRuns
  <2> QED
    BY <2>3, DisturbedArmed
<1> QED
  BY <1>4, <1>5, <1>6, <1>7, <1>8, <1>9

-----------------------------------------------------------------------------
\* The next time of a schedule is not None.
LEMMA NextTimeNatural ==
  ASSUME NEW sched \in Schedules \cup {0}, sched # 0, NEW t \in Nat
  PROVE  NextTime(sched, t) \in Nat /\ NextTime(sched, t) # None
<1>1. sched \in Nat /\ sched > 0
  BY Bounds
<1>2. t \div sched \in Nat
  BY <1>1
<1>3. \A x \in Nat, y \in Nat : x * y \in Nat
  OBVIOUS
<1>4. NextTime(sched, t) \in Nat
  BY <1>1, <1>2, <1>3 DEF NextTime
<1> QED
  BY <1>4, Bounds

\* Nothing is left to do for a suite whose timer is set.
LEMMA RestingArmed ==
  ASSUME job' = Idle, Suite' = Suite,
         Suite.phase = "Ready" /\ Valid(Suite.sched) =>
           /\ Suite.annotated = Suite.sched /\ Suite.nextRun # None
           /\ wake' # None /\ wake' <= Suite.nextRun
  PROVE  Armed'
  BY DEF Armed, TimerSet, Working, Idle

\* Every action of the controller knows the next run of a suite that no event
\* is under way for, and leaves it with the timer set.
LEMMA ControllerArmed ==
  ASSUME Shape, Attentive, Armed, Controller
  PROVE  Armed'
<1>1. Suite \in SuiteRecs /\ Runs \in RunLists /\ AtTime(Suite, Suite) /\ Alike(Suite, Suite)
  BY ShapeFacts DEF AtTime, Alike
<1>2. Shape' /\ (job.step # "idle" => Working /\ Goes(job) /\ job.suite \in SuiteRecs /\ job.runs \in RunLists)
  BY ControllerShape, StepWorks, JobFacts
<1>3. ASSUME Calm, Working PROVE Attends(job, Suite, Runs) /\ Arms(job, Suite)
  BY <1>3 DEF Attentive, Armed
<1>4. ASSUME Locally, Calm', queued' = queued PROVE Calm /\ Suite' = Suite /\ Runs' = Runs
  BY <1>4 DEF Locally, Calm, Suite, Runs
<1>5. CASE Reconcile
  <2>1. CASE ~Calm'
    BY <2>1, DisturbedArmed
  <2>2. CASE Calm'
    <3>1. suiteFeed' = suiteFeed /\ runFeed' = runFeed /\ Suite' = Suite
      BY <1>5 DEF Reconcile, Locally, Suite
    <3>2. Cached(suiteFeed) = Suite /\ Cached(runFeed) = Runs
      BY <2>2, <3>1, ShapeFacts DEF Calm
    <3>3. job' = IF ~Exists(Suite) THEN Idle
                 ELSE IF Suite.del
                   THEN At(IF Listed(Runs) = {} THEN "release" ELSE "delete", Suite, Runs, Listed(Runs))
                 ELSE IF SuiteFin \notin Suite.fins THEN At("finalizer", Suite, Runs, {})
                 ELSE AfterFinalizer(Suite, Runs)
      BY <1>5, <3>2 DEF Reconcile
    <3>4. CASE ~Exists(Suite)
      BY <3>1, <3>3, <3>4 DEF Armed, TimerSet, Working, Idle
    <3>5. CASE job' = AfterFinalizer(Suite, Runs)
      <4>1. job'.step # "idle" /\ Arms(job', Suite)
        BY <1>1, <3>5, AfterFinalizerIs, ProceedsGoes, JobFacts, PhaseArms
      <4> QED
        BY <3>1, <4>1, OngoingArmed
    <3>6. CASE \E step \in {"release", "delete", "finalizer"} : \E todo : job' = At(step, Suite, Runs, todo)
      <4>1. PICK step, todo : step \in {"release", "delete", "finalizer"} /\ job' = At(step, Suite, Runs, todo)
        BY <3>6
      <4>2. job'.step = step /\ job'.suite = Suite
        BY <4>1, AtShape
      <4>3. job'.step # "idle" /\ Arms(job', Suite)
        BY <1>1, <4>1, <4>2, OtherArms
      <4> QED
        BY <3>1, <4>3, OngoingArmed
    <3> QED
      BY <3>3, <3>4, <3>5, <3>6
  <2> QED
    BY <2>1, <2>2
<1>6. CASE Done
  <2>1. CASE ~Calm'
    BY <2>1, DisturbedArmed
  <2>2. CASE Calm'
    <3>1. job' = Idle /\ queued' = queued /\ Locally /\ Working /\ job.step = "done"
      BY <1>6 DEF Done, Return, Shape, Working
    <3>2. Suite' = Suite /\ Arms(job, Suite)
      BY <1>3, <1>4, <2>2, <3>1
    <3>3. Suite.phase # "Ready" \/ ~Valid(Suite.sched)
      BY <3>1, <3>2 DEF Arms
    <3> QED
      BY <3>1, <3>2, <3>3, RestingArmed
  <2> QED
    BY <2>1, <2>2
<1>7. CASE MissingRun \/ CreateRunFails \/ NilSchedule
  <2>1. queued' = TRUE
    BY <1>7 DEF MissingRun, CreateRunFails, NilSchedule, Return, Shape
  <2> QED
    BY <2>1, DisturbedArmed DEF Calm
<1>8. CASE RunsDeleted
  <2>1. CASE ~Calm'
    BY <2>1, DisturbedArmed
  <2>2. CASE Calm'
    <3>1. job' = Idle /\ queued' = queued /\ Locally /\ Working /\ job.step = "delete"
      BY <1>8, <2>2 DEF RunsDeleted, Return, Shape, Working, Calm
    <3>2. Suite' = Suite /\ Attends(job, Suite, Runs)
      BY <1>3, <1>4, <2>2, <3>1
    <3>3. Suite.del
      BY <3>1, <3>2 DEF Attends, CalmSuite
    <3> QED
      BY <3>1, <3>2, <3>3 DEF Armed, TimerSet, Working, Idle
  <2> QED
    BY <2>1, <2>2
<1>9. CASE HistoryEnforced \/ RunsReleased
  <2>1. CASE ~Calm'
    BY <2>1, DisturbedArmed
  <2>2. CASE Calm'
    <3>1. /\ job' \in {Scheduled(job.suite, job.runs), EnsurePhase(job.suite, job.runs)}
          /\ queued' = queued /\ Locally /\ Working /\ Goes(job) /\ job.step \in {"history", "releaseRuns"}
          /\ job.suite \in SuiteRecs /\ job.runs \in RunLists
      BY <1>2, <1>9, <2>2 DEF HistoryEnforced, RunsReleased, Return, Calm
    <3>2. Suite' = Suite /\ Attends(job, Suite, Runs) /\ Arms(job, Suite)
      BY <1>3, <1>4, <2>2, <3>1
    <3>3. Alike(job.suite, Suite) /\ AtTime(job.suite, Suite) /\ Exists(job.suite)
      BY <3>2 DEF Attends, CalmSuite, Arms, Alike, Exists
    <3>4. Arms(job', Suite)
      BY <3>1, <3>3, ScheduledArms, PhaseArms
    <3>5. job'.step # "idle"
      BY <3>1, ScheduledIs, EnsurePhaseIs, ProceedsGoes, JobFacts
    <3> QED
      BY <3>2, <3>4, <3>5, OngoingArmed
  <2> QED
    BY <2>1, <2>2
<1>10. CASE Compact \/ NextRunIsDue
  <2>1. CASE ~Calm'
    BY <2>1, DisturbedArmed
  <2>2. CASE Calm'
    <3>1. /\ job'.suite = job.suite /\ job'.step \in {"releaseRuns", "trigger"}
          /\ queued' = queued /\ Locally /\ Working
      BY <1>2, <1>10 DEF Compact, NextRunIsDue, Goes, Jobs
    <3>2. Suite' = Suite /\ Arms(job, Suite)
      BY <1>3, <1>4, <2>2, <3>1
    <3>3. job'.step # "idle" /\ Arms(job', Suite)
      BY <3>1, <3>2, OtherArms DEF Arms
    <3> QED
      BY <3>2, <3>3, OngoingArmed
  <2> QED
    BY <2>1, <2>2
<1>11. CASE \E r \in Names : CleanUpRun(r)
  <2>1. PICK r \in Names : CleanUpRun(r)
    BY <1>11
  <2>2. Working /\ Goes(job)
    BY <1>2, <2>1 DEF CleanUpRun
  <2>3. PICK out \in cleanUp(job.runs[r], Runs[r], SuiteFin, "Resource") :
          /\ PublishRun(r, out.obj)
          /\ job' = [job EXCEPT !.todo = @ \ {r}, !.err = @ \/ out.res # "OK"]
    BY <2>1, AnswersAre DEF CleanUpRun
  <2>4. Runs[r] \in RunRecs /\ job.runs[r] \in RunRecs
    BY <2>2, ShapeFacts, JobFacts
  <2>5. out.obj \in RunRecs
    BY <2>4, RunAnswers
  <2>6. CASE ~Calm'
    BY <2>6, DisturbedArmed
  <2>7. CASE Calm'
    <3>1. suiteFeed' = suiteFeed /\ queued' = queued /\ Suite' = Suite /\ job.step \in {"delete", "history"}
      BY <2>1 DEF CleanUpRun, Suite
    <3>2. Calm
      BY <2>3, <2>5, <2>7, <3>1, RunWritten DEF Calm
    <3>3. job'.suite = job.suite /\ job'.step = job.step
      BY <2>2, <2>3 DEF Goes, Jobs
    <3>4. job'.step # "idle" /\ Arms(job', Suite)
      BY <1>3, <2>2, <3>1, <3>2, <3>3, OtherArms DEF Arms
    <3> QED
      BY <3>1, <3>4, OngoingArmed
  <2> QED
    BY <2>6, <2>7
<1>12. CASE \E r \in Names : ReleaseRun(r)
  <2>1. PICK r \in Names : ReleaseRun(r)
    BY <1>12
  <2>2. Working /\ Goes(job)
    BY <1>2, <2>1 DEF ReleaseRun
  <2>3. PICK out \in removeFinalizer(job.runs[r], Runs[r], SuiteFin, "Resource") :
          /\ PublishRun(r, out.obj)
          /\ IF out.res = "OK" THEN job' = [job EXCEPT !.todo = @ \ {r}] /\ UNCHANGED queued
             ELSE Return(TRUE)
    BY <2>1, AnswersAre DEF ReleaseRun
  <2>4. Runs[r] \in RunRecs /\ job.runs[r] \in RunRecs
    BY <2>2, ShapeFacts, JobFacts
  <2>5. out.obj \in RunRecs
    BY <2>4, RunAnswers
  <2>6. CASE ~Calm'
    BY <2>6, DisturbedArmed
  <2>7. CASE Calm'
    <3>1. /\ suiteFeed' = suiteFeed /\ queued' = queued /\ Suite' = Suite /\ job.step = "releaseRuns"
          /\ job' = [job EXCEPT !.todo = @ \ {r}]
      BY <2>1, <2>3, <2>7 DEF ReleaseRun, Suite, Calm, Return
    <3>2. Calm
      BY <2>3, <2>5, <2>7, <3>1, RunWritten DEF Calm
    <3>3. job'.suite = job.suite /\ job'.step = job.step
      BY <2>2, <3>1 DEF Goes, Jobs
    <3>4. job'.step # "idle" /\ Arms(job', Suite)
      BY <1>3, <2>2, <3>1, <3>2, <3>3, OtherArms DEF Arms
    <3> QED
      BY <3>1, <3>4, OngoingArmed
  <2> QED
    BY <2>6, <2>7
<1>13. CASE ReleaseSuite
  <2>1. Working /\ Goes(job) /\ job.suite \in SuiteRecs
    BY <1>2, <1>13 DEF ReleaseSuite
  <2>2. PICK out \in cleanUp(job.suite, Suite, SuiteFin, "Resource") :
          suiteFeed' = Publish(suiteFeed, out.obj) /\ Return(out.res # "OK")
    BY <1>13, AnswersAre DEF ReleaseSuite
  <2>3. out.obj \in SuiteRecs
    BY <1>1, <2>1, CleanUpAnswers
  <2>4. CASE ~Calm'
    BY <2>4, DisturbedArmed
  <2>5. CASE Calm'
    <3>1. job' = Idle /\ ~queued /\ runFeed' = runFeed /\ job.step = "release"
      BY <1>13, <2>2, <2>5 DEF ReleaseSuite, Calm, Return, Shape
    <3>2. Fresh(suiteFeed) /\ suiteFeed' = suiteFeed /\ Suite' = Suite
      BY <2>2, <2>3, <2>5, SuiteWritten DEF Calm, Suite
    <3>3. Calm
      BY <2>5, <3>1, <3>2 DEF Calm
    <3>4. Suite.del
      BY <1>3, <2>1, <3>1, <3>3 DEF Attends, CalmSuite
    <3> QED
      BY <3>1, <3>2, <3>4 DEF Armed, TimerSet, Working, Idle
  <2> QED
    BY <2>4, <2>5
<1>14. CASE EnsureFinalizer
  <2>1. Working /\ Goes(job) /\ job.suite \in SuiteRecs /\ job.runs \in RunLists
    BY <1>2, <1>14 DEF EnsureFinalizer
  <2>2. PICK out \in addFinalizer(job.suite, Suite, SuiteFin, "Resource") :
          /\ suiteFeed' = Publish(suiteFeed, out.obj)
          /\ IF out.res = "OK" THEN job' = AfterFinalizer(out.obj, job.runs) /\ UNCHANGED queued
             ELSE Return(TRUE)
    BY <1>14, AnswersAre DEF EnsureFinalizer
  <2>3. out.obj \in SuiteRecs
    BY <1>1, <2>1, AddAnswers
  <2>4. CASE ~Calm'
    BY <2>4, DisturbedArmed
  <2>5. CASE Calm'
    <3>1. out.obj = Suite /\ Suite' = Suite
      BY <2>2, <2>3, <2>5, SuiteWritten DEF Calm
    <3>2. job' = AfterFinalizer(Suite, job.runs)
      BY <2>2, <2>5, <3>1 DEF Calm, Return
    <3>3. job'.step # "idle" /\ Arms(job', Suite)
      BY <1>1, <2>1, <3>2, AfterFinalizerIs, ProceedsGoes, JobFacts, PhaseArms
    <3> QED
      BY <3>1, <3>3, OngoingArmed
  <2> QED
    BY <2>4, <2>5
<1>15. CASE CreateRun
  <2>1. PICK r \in Names, run \in RunRecs : PublishRun(r, run) /\ run # Runs[r]
    <3>1. \E r \in Names : \E run : RunCreated(r, run)
      BY <1>15, RunCreates
    <3>2. \A r, run : RunCreated(r, run) => run \in RunRecs /\ PublishRun(r, run) /\ run # Runs[r]
      <4> SUFFICES ASSUME NEW r, NEW run, RunCreated(r, run)
                   PROVE  run \in RunRecs /\ PublishRun(r, run) /\ run # Runs[r]
        OBVIOUS
      <4>1. 1 + Cardinality(Born(Runs)) \in Nat
        BY BornFinite
      <4>2. Exists(run)
        BY <4>1, NewRunShape DEF RunCreated
      <4> QED
        BY <4>2 DEF RunCreated, Exists
    <3> QED
      BY <3>1, <3>2
  <2>2. ~Calm'
    BY <2>1, RunWritten DEF Calm
  <2> QED
    BY <2>2, DisturbedArmed
<1>16. CASE SetRunning
  <2> DEFINE new == [job.suite EXCEPT !.phase = "Running", !.current = None]
  <2>1. Working /\ Goes(job) /\ job.suite \in SuiteRecs
    BY <1>2, <1>16 DEF SetRunning
  <2>2. new \in SuiteRecs /\ new.phase = "Running"
    BY <2>1, SuiteChanges DEF SuiteRecs
  <2>3. PICK out \in PatchAnswers(new) :
          Answer(out.res) /\ suiteFeed' = Publish(suiteFeed, out.obj) /\ Return(out.res # "OK")
    BY <1>16 DEF SetRunning
  <2> HIDE DEF new
  <2>4. out.obj \in SuiteRecs
    BY <1>1, <2>1, <2>2, JobFacts, SuiteAnswers
  <2>5. ASSUME Calm' PROVE FALSE
    <3>1. out.res = "OK" /\ ~queued /\ runFeed' = runFeed /\ job.step = "trigger"
      BY <1>16, <2>3, <2>5 DEF SetRunning, Calm, Return, Shape
    <3>2. Fresh(suiteFeed) /\ out.obj = Suite
      BY <2>3, <2>4, <2>5, SuiteWritten DEF Calm
    <3>3. Calm
      BY <2>5, <3>1, <3>2 DEF Calm
    <3>4. CalmSuite(job, Suite) /\ Suite.phase = "Ready"
      BY <1>3, <2>1, <3>1, <3>3 DEF Attends, CalmPhase, Resting
    <3>5. Suite = Merged(Suite, job.base, new) /\ Exists(Suite) /\ job.base \in SuiteRecs
      BY <1>1, <2>1, <2>2, <3>1, <3>2, JobFacts, SuiteAnswers
    <3>6. Suite.phase = Taken(Suite.phase, job.base.phase, new.phase)
      BY <1>1, <2>2, <3>5, MergedFields
    <3> QED
      BY <2>2, <3>4, <3>6 DEF Taken, CalmSuite, Alike
  <2> QED
    BY <2>5, DisturbedArmed
<1>17. CASE NoSchedule \/ DropSchedule \/ Focus \/ SetPending \/ SetReady \/ ResetTrigger \/ AnnotateRelease \/ TrackRun
  BY <1>17, PatchesArmed
<1>18. CASE ClearNextRun
  <2> DEFINE new == [job.suite EXCEPT !.nextRun = None]
             Copy(out) == IF out.res = "OK" THEN out.obj ELSE new
  <2>1. Working /\ Goes(job) /\ job.suite \in SuiteRecs /\ job.runs \in RunLists /\ job.step = "clearNext"
    BY <1>2, <1>18 DEF ClearNextRun
  <2>2. PICK out : Trying(new, out, AfterSchedule(Copy(out), job.runs))
    BY <1>18 DEF ClearNextRun, TryPatchSuite, Trying, SuitePatched
  <2>3. new \in SuiteRecs /\ new.nextRun = None /\ (Alike(job.suite, Suite) => Alike(new, Suite))
    BY <2>1, SuiteChanges, Bounds DEF SuiteRecs, Alike
  <2> HIDE DEF new
  <2>4. Copy(out) \in SuiteRecs
    BY <2>1, <2>2, <2>3, PatchedShape DEF Trying
  <2>5. Goes(AfterSchedule(Copy(out), job.runs))
    BY <2>1, <2>4, AfterScheduleIs, ProceedsGoes
  <2>6. ASSUME out.obj = Suite, Attends(job, Suite, Runs), Arms(job, Suite)
        PROVE  Arms(AfterSchedule(Copy(out), job.runs), Suite)
    <3>1. Suite.sched # Suite.annotated
      BY <2>1, <2>6 DEF Arms
    <3>2. Alike(Copy(out), Suite) /\ AtTime(Copy(out), Suite)
      BY <1>1, <2>3, <2>6, <3>1 DEF AtTime, Attends, CalmSuite
    <3> QED
      BY <2>1, <2>4, <3>2, PhaseArms
  <2> QED
    BY <2>1, <2>2, <2>3, <2>5, <2>6, TryingArmed
<1>19. CASE RejectSchedule
  <2> DEFINE new == [job.suite EXCEPT !.nextRun = None]
             Copy(out) == IF out.res = "OK" THEN out.obj ELSE new
  <2>1. Working /\ Goes(job) /\ job.suite \in SuiteRecs /\ job.runs \in RunLists /\ job.step = "badSchedule"
    BY <1>2, <1>19 DEF RejectSchedule
  <2>2. PICK out : Trying(new, out, Triggered(Copy(out), job.runs))
    BY <1>19 DEF RejectSchedule, TryPatchSuite, Trying, SuitePatched
  <2>3. new \in SuiteRecs /\ new.nextRun = None
    BY <2>1, SuiteChanges, Bounds DEF SuiteRecs
  <2> HIDE DEF new
  <2>4. Copy(out) \in SuiteRecs
    BY <2>1, <2>2, <2>3, PatchedShape DEF Trying
  <2>5. Goes(Triggered(Copy(out), job.runs))
    BY <2>1, <2>4, TriggeredIs, ProceedsGoes
  <2>6. ASSUME out.obj = Suite, Arms(job, Suite)
        PROVE  Arms(Triggered(Copy(out), job.runs), Suite)
    <3>1. Suite.sched = BadSchedule
      BY <2>1, <2>6 DEF Arms
    <3>2. AtTime(Copy(out), Suite) /\ ~Valid(Suite.sched)
      BY <1>1, <2>3, <2>6, <3>1 DEF AtTime, Valid
    <3> QED
      BY <2>1, <2>4, <3>2, TriggeredArms
  <2> QED
    BY <2>1, <2>2, <2>3, <2>5, <2>6, TryingArmed
<1>20. CASE Annotate
  <2> DEFINE new == [job.suite EXCEPT !.annotated = job.suite.sched]
  <2>1. Working /\ Goes(job) /\ job.suite \in SuiteRecs /\ job.runs \in RunLists /\ job.step = "annotate"
    BY <1>2, <1>20 DEF Annotate
  <2>2. PICK out : Proceeding(new, out, Parsed(out.obj, job.runs, job.suite.sched))
    BY <1>20 DEF Annotate, PatchSuite, Proceeding, SuitePatched
  <2>3. /\ job.suite.sched \in Schedules /\ job.suite.sched # 0
        /\ new \in SuiteRecs /\ new.annotated = job.suite.sched /\ new.sched = job.suite.sched
    BY <2>1, SuiteChanges DEF SuiteRecs, Goes
  <2> HIDE DEF new
  <2>4. out.obj \in SuiteRecs
    BY <2>1, <2>2, <2>3, PatchedShape DEF Proceeding
  <2>5. Goes(Parsed(out.obj, job.runs, job.suite.sched))
    BY <2>1, <2>3, <2>4, ParsedIs, ProceedsGoes
  <2>6. ASSUME out.obj = Suite, Alike(new, Suite)
        PROVE  Arms(Parsed(out.obj, job.runs, job.suite.sched), Suite)
    <3>1. Suite.sched = job.suite.sched /\ Suite.annotated = job.suite.sched
      BY <2>3, <2>6 DEF Alike
    <3> QED
      BY <1>1, <2>1, <2>3, <2>6, <3>1, ParsedArms
  <2> QED
    BY <2>1, <2>2, <2>3, <2>5, <2>6, ProceedingArmed
<1>21. CASE SetNextRun
  <2> DEFINE next == NextTime(job.when, now)
             new == [job.suite EXCEPT !.nextRun = next]
  <2>1. /\ Working /\ Goes(job) /\ job.suite \in SuiteRecs /\ job.runs \in RunLists /\ job.step = "setNext"
        /\ job.when \in Schedules \cup {0} /\ job.when # 0
    BY <1>2, <1>21, JobFacts DEF SetNextRun, Goes
  <2>2. next \in Int /\ next # None
    <3>1. now \in Nat
      BY Bounds DEF Shape
    <3> QED
      BY <2>1, <3>1, NextTimeNatural
  <2> HIDE DEF next
  <2>3. PICK out : Proceeding(new, out, [Triggered(out.obj, job.runs) EXCEPT !.when = job.when])
    BY <1>21 DEF SetNextRun, PatchSuite, Proceeding, SuitePatched, next
  <2>4. new \in SuiteRecs /\ new.nextRun = next
    BY <2>1, <2>2, SuiteChanges DEF SuiteRecs
  <2> HIDE DEF new
  <2>5. out.obj \in SuiteRecs
    BY <2>1, <2>3, <2>4, PatchedShape DEF Proceeding
  <2>6. Goes([Triggered(out.obj, job.runs) EXCEPT !.when = job.when])
    BY <2>1, <2>5, TriggeredIs, ProceedsGoes
  <2>7. ASSUME out.obj = Suite, Exists(Suite), Suite = Merged(Suite, job.base, new), Arms(job, Suite)
        PROVE  Arms([Triggered(out.obj, job.runs) EXCEPT !.when = job.when], Suite)
    <3>1. job.base \in SuiteRecs /\ job.base.nextRun = None /\ Suite.annotated = Suite.sched
      BY <2>1, <2>7 DEF Arms
    <3>2. Suite.nextRun = Taken(Suite.nextRun, job.base.nextRun, new.nextRun)
      BY <1>1, <2>4, <2>7, <3>1, MergedFields
    <3>3. Suite.nextRun # None
      BY <2>2, <2>4, <3>1, <3>2 DEF Taken
    <3> QED
      BY <1>1, <2>1, <2>7, <3>1, <3>3, TriggeredArms
  <2> QED
    BY <2>1, <2>3, <2>4, <2>6, <2>7, ProceedingArmed
<1>22. CASE FinishRun
  <2> DEFINE new == [job.suite EXCEPT !.phase = "Ready", !.current = None]
  <2>1. Working /\ Goes(job) /\ job.suite \in SuiteRecs /\ job.runs \in RunLists /\ job.step = "finish"
    BY <1>2, <1>22 DEF FinishRun
  <2>2. PICK out : Proceeding(new, out, At("done", out.obj, job.runs, {}))
    BY <1>22 DEF FinishRun, PatchSuite, Proceeding, SuitePatched
  <2>3. new \in SuiteRecs /\ new.phase = "Ready"
    BY <2>1, SuiteChanges DEF SuiteRecs
  <2> HIDE DEF new
  <2>4. ASSUME Calm' PROVE FALSE
    <3>1. Attends(job, Suite, Runs) /\ Alike(new, Suite)
      BY <2>1, <2>2, <2>3, <2>4, CalmReply
    <3> QED
      BY <2>1, <2>3, <3>1 DEF Attends, CalmPhase, Alike
  <2> QED
    BY <2>4, DisturbedArmed
<1>23. CASE WaitForNextRun
  <2>1. CASE ~Calm'
    BY <2>1, DisturbedArmed
  <2>2. CASE Calm'
    <3>1. /\ job' = Idle /\ Working /\ Goes(job) /\ job.step = "due" /\ RequeueAt(job.suite.nextRun)
          /\ queued' = queued /\ suiteFeed' = suiteFeed /\ runFeed' = runFeed
      BY <1>2, <1>23 DEF WaitForNextRun, Return, Shape
    <3>2. Calm /\ Suite' = Suite
      BY <2>2, <3>1 DEF Calm, Suite
    <3>3. Arms(job, Suite)
      BY <1>3, <3>1, <3>2
    <3>4. job.suite.nextRun # None /\ job.suite.nextRun \in Int /\ wake \in Int
      BY <3>1, <3>3, JobFacts DEF Arms, Shape, SuiteRecs
    <3>5. wake' # None /\ wake' <= job.suite.nextRun
      BY <3>1, <3>4 DEF RequeueAt
    <3>6. Valid(Suite.sched) => Suite.annotated = Suite.sched /\ Suite.nextRun = job.suite.nextRun
      BY <3>1, <3>3, <3>4 DEF Arms, AtTime, Valid
    <3> QED
      BY <3>1, <3>2, <3>4, <3>5, <3>6, RestingArmed
  <2> QED
    BY <2>1, <2>2
<1>24. CASE NextRunMissed
  <2> DEFINE next == NextTime(job.when, now)
             new == [job.suite EXCEPT !.nextRun = next]
  <2>1. /\ Working /\ Goes(job) /\ job.suite \in SuiteRecs /\ job.step = "due" /\ job.base \in SuiteRecs
        /\ job.when \in Schedules \cup {0} /\ job.when # 0
    BY <1>2, <1>24, JobFacts DEF NextRunMissed
  <2>2. next \in Int /\ next # None
    <3>1. now \in Nat
      BY Bounds DEF Shape
    <3> QED
      BY <2>1, <3>1, NextTimeNatural
  <2> HIDE DEF next
  <2>3. PICK out : /\ SuitePatched(new, out) /\ Return(out.res # "OK")
                   /\ IF out.res = "OK" THEN RequeueAt(next) ELSE UNCHANGED wake
    BY <1>24 DEF NextRunMissed, SuitePatched, next
  <2>4. new \in SuiteRecs /\ new.nextRun = next
    BY <2>1, <2>2, SuiteChanges DEF SuiteRecs
  <2> HIDE DEF new
  <2>5. CASE ~Calm'
    BY <2>5, DisturbedArmed
  <2>6. CASE Calm'
    <3>1. job' = Idle /\ ~queued /\ out.res = "OK" /\ RequeueAt(next)
      BY <2>3, <2>6 DEF Return, Calm, Shape
    <3>2. Fresh(suiteFeed) /\ Fresh(runFeed) /\ Suite' = Suite /\ out.obj = Suite
      BY <2>1, <2>3, <2>4, <2>6, PatchedShape DEF Calm
    <3>3. Attends(job, Suite, Runs) /\ Arms(job, Suite)
      BY <1>3, <2>1, <3>1, <3>2 DEF Calm
    <3>4. Suite = Merged(Suite, job.base, new) /\ Exists(Suite)
      BY <1>1, <2>1, <2>3, <2>4, <3>1, <3>2, SuiteAnswers DEF SuitePatched
    <3>5. Suite.nextRun = Taken(Suite.nextRun, job.base.nextRun, new.nextRun)
      BY <1>1, <2>1, <2>4, <3>4, MergedFields
    <3>6. /\ job.suite.nextRun # None /\ job.base = job.suite
          /\ Valid(Suite.sched) => Suite.annotated = Suite.sched /\ Suite.nextRun = job.suite.nextRun
      BY <2>1, <3>3 DEF Arms, AtTime, Valid
    <3>7. Valid(Suite.sched) => Suite.nextRun = next
      BY <2>4, <3>5, <3>6 DEF Taken
    <3>8. wake' # None /\ wake' <= next
      BY <2>2, <3>1 DEF RequeueAt, Shape
    <3> QED
      BY <2>2, <3>1, <3>2, <3>6, <3>7, <3>8, RestingArmed
  <2> QED
    BY <2>5, <2>6
<1> QED
  BY <1>5, <1>6, <1>7, <1>8, <1>9, <1>10, <1>11, <1>12, <1>13, <1>14, <1>15, <1>16, <1>17, <1>18, <1>19, <1>20,
     <1>21, <1>22, <1>23, <1>24 DEF Controller

\* Steps outside of the controller change nothing it knows, nor the timer, or
\* queue the key, or leave an event under way that will.
LEMMA BystanderArmed ==
  ASSUME Shape, Armed, \/ SuiteEvent \/ RunEvent \/ WakeUp \/ Tick \/ Restart \/ Cluster \/ UNCHANGED vars
  PROVE  Armed'
<1>1. CASE ~Calm'
  BY <1>1, DisturbedArmed
<1>2. CASE Calm'
  <2>1. UNCHANGED <<suiteFeed, runFeed, queued, job, wake>>
    <3>1. ~(SuiteEvent \/ RunEvent \/ WakeUp \/ Restart)
      BY <1>2 DEF Calm, SuiteEvent, RunEvent, WakeUp, Restart
    <3>2. CASE Tick \/ UNCHANGED vars
      BY <3>2 DEF Tick, vars
    <3>3. CASE Cluster
      <4>1. CASE /\ \E x \in SuiteRecs : suiteFeed' = Publish(suiteFeed, x)
                 /\ UNCHANGED <<runFeed, queued, job, wake>>
        BY <1>2, <4>1, SuiteWritten DEF Calm
      <4>2. CASE /\ \E r \in Names, x \in RunRecs : PublishRun(r, x)
                 /\ UNCHANGED <<suiteFeed, queued, job, wake>>
        BY <1>2, <4>2, RunWritten DEF Calm
      <4>3. CASE queued' \in {queued, TRUE} /\ UNCHANGED <<suiteFeed, runFeed, job, wake>>
        BY <1>2, <4>3 DEF Calm, Shape
      <4> QED
        BY <3>3, <4>1, <4>2, <4>3, ClusterWrites
    <3> QED
      BY <3>1, <3>2, <3>3
  <2> QED
    BY <2>1 DEF Armed, TimerSet, Quiescent, Calm, Working, Suite
<1> QED
  BY <1>1, <1>2

\* The inductive invariant of the timer.
LEMMA ArmedInvariant == Spec => [](Shape /\ DeletedHeld /\ Attentive /\ Armed)
<1>1. Init => Armed
  BY DEF Init, Armed, TimerSet, Quiescent, Calm
<1>2. ASSUME Shape, Attentive, Armed, [Next]_vars PROVE Armed'
  BY <1>2, ControllerArmed, BystanderArmed DEF Next
<1> QED
  BY <1>1, <1>2, AttentiveInvariant, PTL DEF Spec

\* A Ready suite with a schedule never oversleeps: with no work left it has
\* annotated the schedule, has a next run, and its key will be queued by then,
\* whatever calls fail and whatever the age of the caches.
THEOREM TimerAlwaysSet == Spec => []TimerSet
<1>1. Armed => TimerSet
  BY DEF Armed
<1> QED
  BY <1>1, ArmedInvariant, PTL

-----------------------------------------------------------------------------
(***************************************************************************)
(* The next run is a time of the schedule, if there is one valid schedule: *)
(* whatever copy of the suite a next run is taken from, it was computed    *)
(* from that schedule.                                                     *)
(***************************************************************************)
OneSchedule == \A s, t \in Schedules : Valid(s) /\ Valid(t) => s = t

\* The times of a schedule.
Times(sched) == {sched * k : k \in Nat}

OnTime(suite) == suite.nextRun = None \/ \A s \in Schedules : Valid(s) => suite.nextRun \in Times(s)

OnTimeRecs == {suite \in SuiteRecs : OnTime(suite)}

\* What a reconcile knows of the schedule, whatever the age of its copies.
Timely(j) == OnTime(j.suite) /\ OnTime(j.base) /\ (j.when = BadSchedule => j.step = "badSchedule")

AllOnTime == suiteFeed \in Seq(OnTimeRecs) /\ (Working => Timely(job))

\* The next time of a schedule is one of its times.
LEMMA NextTimeOnTime ==
  ASSUME NEW sched \in Schedules \cup {0}, sched # 0, NEW t \in Nat
  PROVE  NextTime(sched, t) \in Times(sched)
<1>1. sched \in Nat /\ sched > 0
  BY Bounds
<1>2. t \div sched + 1 \in Nat
  BY <1>1
<1> QED
  BY <1>2 DEF NextTime, Times

\* And it is a multiple of the schedule.
LEMMA TimesDivide ==
  ASSUME NEW sched \in Schedules, sched # 0, NEW t \in Times(sched)
  PROVE  t % sched = 0
<1>1. \A s \in Nat, k \in Nat : s > 0 => (s * k) % s = 0
  OBVIOUS
<1>2. sched \in Nat /\ sched > 0
  BY Bounds
<1> QED
  BY <1>1, <1>2 DEF Times

\* The steps set by the operators that order them keep what they know.
LEMMA TimelySteps ==
  ASSUME NEW suite \in SuiteRecs, OnTime(suite), NEW runs
  PROVE  /\ \A step, todo : Timely(At(step, suite, runs, todo))
         /\ Timely(Triggered(suite, runs))
         /\ \A when : when # BadSchedule => Timely([Triggered(suite, runs) EXCEPT !.when = when])
         /\ \A when : Timely(Parsed(suite, runs, when))
         /\ Timely(Scheduled(suite, runs)) /\ Timely(notRunning(suite, runs)) /\ Timely(isRunning(suite, runs))
         /\ Timely(EnsurePhase(suite, runs)) /\ Timely(AfterSchedule(suite, runs))
         /\ Timely(AfterFinalizer(suite, runs))
<1>1. ASSUME NEW step, NEW todo PROVE Timely(At(step, suite, runs, todo))
  <2>1. At(step, suite, runs, todo).when # BadSchedule
    BY Bounds DEF At
  <2> QED
    BY <2>1, AtShape DEF Timely
<1>2. ASSUME NEW step, NEW todo, NEW when, when = BadSchedule => step = "badSchedule"
      PROVE  Timely([At(step, suite, runs, todo) EXCEPT !.when = when])
  <2> DEFINE j == [At(step, suite, runs, todo) EXCEPT !.when = when]
  <2>1. j.when = when /\ j.step = step /\ j.suite = suite /\ j.base = suite
    BY DEF At
  <2> QED
    BY <1>2, <2>1 DEF Timely
<1>3. PICK trigger : Triggered(suite, runs) = At(trigger, suite, runs, {})
  BY DEF Triggered
<1>4. /\ Timely(Triggered(suite, runs))
      /\ \A when : when # BadSchedule => Timely([Triggered(suite, runs) EXCEPT !.when = when])
  BY <1>1, <1>2, <1>3
<1>5. ASSUME NEW when PROVE Timely(Parsed(suite, runs, when))
  <2>1. CASE when = BadSchedule
    <3>1. Parsed(suite, runs, when) = [At("badSchedule", suite, runs, {}) EXCEPT !.when = when]
      BY <2>1 DEF Parsed
    <3> QED
      BY <1>2, <3>1
  <2>2. CASE when # BadSchedule
    <3>1. \E step : Parsed(suite, runs, when) = [At(step, suite, runs, {}) EXCEPT !.when = when]
      BY <1>3, <2>2 DEF Parsed
    <3> QED
      BY <1>2, <2>2, <3>1
  <2> QED
    BY <2>1, <2>2
<1>6. Timely(Scheduled(suite, runs))
  BY <1>1, <1>4, <1>5 DEF Scheduled
<1>7. Timely(notRunning(suite, runs)) /\ Timely(isRunning(suite, runs))
  BY <1>1, <1>6 DEF notRunning, isRunning
<1>8. Timely(EnsurePhase(suite, runs))
  BY <1>1, <1>7 DEF EnsurePhase
<1>9. Timely(AfterSchedule(suite, runs))
  BY <1>1, <1>8 DEF AfterSchedule
<1>10. Timely(AfterFinalizer(suite, runs))
  BY <1>1, <1>9 DEF AfterFinalizer
<1> QED
  BY <1>1, <1>4, <1>5, <1>6, <1>7, <1>8, <1>9, <1>10

\* The feed of suites all of which are on time.
LEMMA OnTimeFacts ==
  ASSUME Shape, AllOnTime
  PROVE  /\ OnTime(Suite) /\ OnTime(Cached(suiteFeed)) /\ suiteFeed # <<>>
         /\ \A x \in SuiteRecs : OnTime(x) => Publish(suiteFeed, x) \in Seq(OnTimeRecs)
<1>1. suiteFeed # <<>> /\ suiteFeed \in Seq(OnTimeRecs)
  BY DEF Shape, AllOnTime
<1>2. Suite \in OnTimeRecs /\ Cached(suiteFeed) \in OnTimeRecs
  BY <1>1, FeedStates DEF Suite
<1>3. \A x \in OnTimeRecs : Publish(suiteFeed, x) \in Seq(OnTimeRecs)
  BY <1>1, PublishStates
<1> QED
  BY <1>1, <1>2, <1>3 DEF OnTimeRecs

\* A patch made from what is on time is.
LEMMA OnTimePatch ==
  ASSUME Shape, AllOnTime, Working, NEW new \in SuiteRecs, OnTime(new), NEW out \in PatchAnswers(new)
  PROVE  /\ out.obj \in SuiteRecs /\ OnTime(out.obj)
         /\ Publish(suiteFeed, out.obj) \in Seq(OnTimeRecs)
<1>1. Suite \in SuiteRecs /\ job.base \in SuiteRecs /\ OnTime(Suite)
  BY ShapeFacts, JobFacts, OnTimeFacts
<1>2. out.obj \in SuiteRecs /\ out.obj \in {Suite, Merged(Suite, job.base, new)} /\ (~Exists(Suite) => out.obj = Suite)
  BY <1>1, SuiteAnswers
<1> DEFINE merged == Merged(Suite, job.base, new)
<1>3. Exists(Suite) => merged.nextRun = Taken(Suite.nextRun, job.base.nextRun, new.nextRun)
  BY <1>1, MergedFields
<1> HIDE DEF merged
<1>4. out.obj.nextRun \in {Suite.nextRun, new.nextRun}
  BY <1>2, <1>3 DEF Taken, merged
<1>5. OnTime(out.obj)
  BY <1>1, <1>4 DEF OnTime
<1> QED
  BY <1>2, <1>5, OnTimeFacts

\* The changes to a suite that leave its next run alone.
LEMMA NextRunLeft ==
  ASSUME NEW suite \in SuiteRecs
  PROVE  /\ \A x : /\ [suite EXCEPT !.phase = x].nextRun = suite.nextRun
                   /\ [suite EXCEPT !.current = x].nextRun = suite.nextRun
                   /\ [suite EXCEPT !.annotated = x].nextRun = suite.nextRun
                   /\ [suite EXCEPT !.needsRun = x].nextRun = suite.nextRun
                   /\ [suite EXCEPT !.lastHelm = x].nextRun = suite.nextRun
                   /\ [suite EXCEPT !.sched = x].nextRun = suite.nextRun
                   /\ [suite EXCEPT !.fins = x].nextRun = suite.nextRun
                   /\ WithFins(suite, x).nextRun = suite.nextRun
         /\ \A x, y : [suite EXCEPT !.phase = x, !.current = y].nextRun = suite.nextRun
         /\ \A x : [suite EXCEPT !.nextRun = x].nextRun = x
         /\ Deleted(suite).nextRun = suite.nextRun /\ Reaped(suite).nextRun = suite.nextRun
  BY DEF SuiteRecs, WithFins, Deleted, Reaped

\* So does everything the server makes of the suite for its finalizer.
LEMMA FinalizerOnTime ==
  ASSUME NEW suite \in SuiteRecs, OnTime(suite), NEW copy \in SuiteRecs
  PROVE  /\ \A out \in cleanUp(copy, suite, SuiteFin, "Resource") : out.obj \in SuiteRecs /\ OnTime(out.obj)
         /\ \A out \in addFinalizer(copy, suite, SuiteFin, "Resource") : out.obj \in SuiteRecs /\ OnTime(out.obj)
<1>1. ASSUME NEW out \in cleanUp(copy, suite, SuiteFin, "Resource") PROVE OnTime(out.obj)
  <2> DEFINE deleted == IF copy.del THEN suite ELSE Reaped(Deleted(suite))
             less == WithFins(deleted, copy.fins \ {SuiteFin})
  <2>1. Deleted(suite) \in SuiteRecs /\ copy.fins \ {SuiteFin} \in SUBSET {SuiteFin}
    BY SuiteTypes DEF SuiteRecs
  <2>2. deleted \in SuiteRecs /\ deleted.nextRun = suite.nextRun
    BY <2>1, SuiteTypes, NextRunLeft
  <2>3. out.obj \in {suite, deleted, Reaped(less)}
    BY CleanUpOutcomes
  <2> HIDE DEF deleted
  <2>4. less \in SuiteRecs /\ less.nextRun = suite.nextRun
    BY <2>1, <2>2, SuiteTypes, NextRunLeft
  <2> HIDE DEF less
  <2>5. out.obj.nextRun = suite.nextRun
    BY <2>2, <2>3, <2>4, NextRunLeft
  <2> QED
    BY <2>5 DEF OnTime
<1>2. ASSUME NEW out \in addFinalizer(copy, suite, SuiteFin, "Resource") PROVE OnTime(out.obj)
  <2>1. out.obj \in {suite, [suite EXCEPT !.fins = {SuiteFin}]}
    BY AddAnswers
  <2>2. out.obj.nextRun = suite.nextRun
    BY <2>1 DEF SuiteRecs
  <2> QED
    BY <2>2 DEF OnTime
<1> QED
  BY <1>1, <1>2, CleanUpAnswers, AddAnswers

\* Every action of the controller leaves the suite and all copies of it on time.
LEMMA ControllerOnTime ==
  ASSUME OneSchedule, Shape, AllOnTime, Controller
  PROVE  AllOnTime'
<1>1. /\ Suite \in SuiteRecs /\ Cached(suiteFeed) \in SuiteRecs /\ suiteFeed \in Seq(OnTimeRecs)
      /\ OnTime(Suite) /\ OnTime(Cached(suiteFeed)) /\ suiteFeed # <<>>
      /\ \A x \in SuiteRecs : OnTime(x) => Publish(suiteFeed, x) \in Seq(OnTimeRecs)
  BY ShapeFacts, OnTimeFacts DEF AllOnTime
<1>2. job.step # "idle" =>
        /\ Working /\ Goes(job) /\ job.suite \in SuiteRecs /\ job.base \in SuiteRecs /\ job.todo \subseteq Names
        /\ Timely(job) /\ OnTime(job.suite)
  BY StepWorks, JobFacts DEF AllOnTime, Timely
<1>3. ASSUME suiteFeed' \in Seq(OnTimeRecs), job' = Idle \/ Timely(job') PROVE AllOnTime'
  <2>1. Working' => Timely(job')
    BY <1>3 DEF Working, Idle
  <2> QED
    BY <1>3, <2>1 DEF AllOnTime, Timely, OnTime
<1>4. CASE Reconcile
  <2>1. suiteFeed' = suiteFeed
    BY <1>4 DEF Reconcile, Locally
  <2>2. job' = Idle \/ job' = AfterFinalizer(Cached(suiteFeed), Cached(runFeed))
         \/ \E step, todo : job' = At(step, Cached(suiteFeed), Cached(runFeed), todo)
    BY <1>4 DEF Reconcile
  <2>3. job' = Idle \/ Timely(job')
    BY <1>1, <2>2, TimelySteps
  <2> QED
    BY <1>1, <1>3, <2>1, <2>3
<1>5. CASE Done \/ RunsDeleted \/ MissingRun \/ WaitForNextRun \/ CreateRunFails \/ NilSchedule
  <2>1. job' = Idle
    BY <1>5 DEF Done, RunsDeleted, MissingRun, WaitForNextRun, CreateRunFails, NilSchedule, Return
  <2>2. suiteFeed' = suiteFeed \/ suiteFeed' = <<Suite>>
    BY <1>5 DEF Done, RunsDeleted, MissingRun, WaitForNextRun, CreateRunFails, NilSchedule, Locally
  <2>3. <<Suite>> \in Seq(OnTimeRecs)
    BY <1>1 DEF OnTimeRecs
  <2> QED
    BY <1>1, <1>3, <2>1, <2>2, <2>3
<1>6. CASE HistoryEnforced \/ RunsReleased
  <2>1. /\ suiteFeed' = suiteFeed /\ job.step # "idle"
        /\ job' \in {Idle, Scheduled(job.suite, job.runs), EnsurePhase(job.suite, job.runs)}
    BY <1>6 DEF HistoryEnforced, RunsReleased, Return, Locally
  <2>2. job' = Idle \/ Timely(job')
    BY <1>2, <2>1, TimelySteps
  <2> QED
    BY <1>1, <1>3, <2>1, <2>2
<1>7. CASE Compact \/ NextRunIsDue \/ CreateRun \/ \E r \in Names : CleanUpRun(r) \/ ReleaseRun(r)
  <2>1. suiteFeed' = suiteFeed /\ job.step \notin {"idle", "badSchedule"}
    BY <1>7 DEF Compact, NextRunIsDue, CreateRun, CleanUpRun, ReleaseRun, Locally
  <2>2. job' = Idle \/ (job'.suite = job.suite /\ job'.base = job.base /\ job'.when = job.when)
    BY <1>2, <1>7, <2>1 DEF Compact, NextRunIsDue, CreateRun, CleanUpRun, ReleaseRun, Return, Goes, Jobs
  <2>3. job' = Idle \/ Timely(job')
    BY <1>2, <2>1, <2>2 DEF Timely
  <2> QED
    BY <1>1, <1>3, <2>1, <2>3
<1>8. CASE ReleaseSuite
  <2>1. PICK out \in cleanUp(job.suite, Suite, SuiteFin, "Resource") : suiteFeed' = Publish(suiteFeed, out.obj)
    BY <1>8, AnswersAre DEF ReleaseSuite
  <2>2. job' = Idle /\ job.step # "idle"
    BY <1>8 DEF ReleaseSuite, Return
  <2>3. out.obj \in SuiteRecs /\ OnTime(out.obj)
    BY <1>1, <1>2, <2>2, FinalizerOnTime
  <2> QED
    BY <1>1, <1>3, <2>1, <2>2, <2>3
<1>9. CASE EnsureFinalizer
  <2>1. PICK out \in addFinalizer(job.suite, Suite, SuiteFin, "Resource") :
          /\ suiteFeed' = Publish(suiteFeed, out.obj)
          /\ job' \in {Idle, AfterFinalizer(out.obj, job.runs)}
    BY <1>9, AnswersAre DEF EnsureFinalizer, Return
  <2>2. job.step # "idle"
    BY <1>9 DEF EnsureFinalizer
  <2>3. out.obj \in SuiteRecs /\ OnTime(out.obj)
    BY <1>1, <1>2, <2>2, FinalizerOnTime
  <2> QED
    BY <1>1, <1>3, <2>1, <2>3, TimelySteps
<1>10. ASSUME NEW new \in SuiteRecs, OnTime(new), NEW out \in PatchAnswers(new), Working,
              suiteFeed' = Publish(suiteFeed, out.obj),
              out.obj \in SuiteRecs /\ OnTime(out.obj) => job' = Idle \/ Timely(job')
       PROVE  AllOnTime'
  BY <1>3, <1>10, OnTimePatch
<1>11. CASE ClearNextRun \/ RejectSchedule \/ NoSchedule
  <2> DEFINE new == [job.suite EXCEPT !.nextRun = None]
  <2>1. Working /\ job.suite \in SuiteRecs
    BY <1>2, <1>11 DEF ClearNextRun, RejectSchedule, NoSchedule
  <2>2. new \in SuiteRecs /\ OnTime(new)
    BY <2>1, SuiteChanges, NextRunLeft, Bounds DEF OnTime
  <2>3. PICK out \in PatchAnswers(new) :
          /\ suiteFeed' = Publish(suiteFeed, out.obj)
          /\ job' = Idle \/ \E x \in {out.obj, new} : job' \in {AfterSchedule(x, job.runs), Triggered(x, job.runs)}
    BY <1>11 DEF ClearNextRun, RejectSchedule, NoSchedule, PatchSuite, TryPatchSuite, Return
  <2> HIDE DEF new
  <2>4. out.obj \in SuiteRecs /\ OnTime(out.obj) => job' = Idle \/ Timely(job')
    BY <2>2, <2>3, TimelySteps
  <2> QED
    BY <1>10, <2>1, <2>2, <2>3, <2>4
<1>12. CASE SetNextRun \/ NextRunMissed
  <2> DEFINE next == NextTime(job.when, now)
             new == [job.suite EXCEPT !.nextRun = next]
  <2>1. /\ Working /\ Goes(job) /\ job.suite \in SuiteRecs /\ job.when # 0
        /\ job.when \in Schedules /\ job.when # BadSchedule
    <3>1. job.step \in {"setNext", "due"} /\ job.when # 0
      BY <1>2, <1>12 DEF SetNextRun, NextRunMissed, Goes
    <3> QED
      BY <1>2, <3>1, JobFacts DEF Timely
  <2>2. next \in Times(job.when) /\ next \in Int
    <3>1. now \in Nat
      BY Bounds DEF Shape
    <3> QED
      BY <2>1, <3>1, NextTimeOnTime, NextTimeType
  <2> HIDE DEF next
  <2>3. new \in SuiteRecs /\ new.nextRun = next
    BY <2>1, <2>2, SuiteChanges, NextRunLeft
  <2>4. OnTime(new)
    <3>1. \A s \in Schedules : Valid(s) => s = job.when
      BY <2>1 DEF OneSchedule, Valid
    <3> QED
      BY <2>2, <2>3, <3>1 DEF OnTime
  <2>5. PICK out \in PatchAnswers(new) :
          /\ suiteFeed' = Publish(suiteFeed, out.obj)
          /\ job' = Idle \/ job' = [Triggered(out.obj, job.runs) EXCEPT !.when = job.when]
    BY <1>12 DEF SetNextRun, NextRunMissed, PatchSuite, Return, next
  <2> HIDE DEF new
  <2>6. ASSUME out.obj \in SuiteRecs, OnTime(out.obj) PROVE job' = Idle \/ Timely(job')
    <3>1. Timely([Triggered(out.obj, job.runs) EXCEPT !.when = job.when])
      BY <2>1, <2>6, TimelySteps
    <3> QED
      BY <2>5, <3>1
  <2> QED
    BY <1>10, <2>1, <2>3, <2>4, <2>5, <2>6
<1>13. ASSUME NEW new, NEW out \in PatchAnswers(new), job.step # "idle", new \in SuiteRecs,
              new.nextRun = job.suite.nextRun, suiteFeed' = Publish(suiteFeed, out.obj),
              out.obj \in SuiteRecs /\ OnTime(out.obj) => job' = Idle \/ Timely(job')
       PROVE  AllOnTime'
  <2>1. OnTime(new)
    BY <1>2, <1>13 DEF OnTime
  <2> QED
    BY <1>2, <1>10, <1>13, <2>1
<1>14. CASE DropSchedule \/ ResetTrigger \/ AnnotateRelease
  <2>1. job.step \notin {"idle", "badSchedule"}
    BY <1>14 DEF DropSchedule, ResetTrigger, AnnotateRelease
  <2>2. /\ [job.suite EXCEPT !.annotated = 0] \in SuiteRecs /\ [job.suite EXCEPT !.needsRun = FALSE] \in SuiteRecs
        /\ [job.suite EXCEPT !.lastHelm = 0] \in SuiteRecs
    BY <1>2, <2>1, SuiteChanges
  <2> DEFINE Newer == {[job.suite EXCEPT !.annotated = 0], [job.suite EXCEPT !.needsRun = FALSE],
                       [job.suite EXCEPT !.lastHelm = 0]}
             GoesOn(x) == \/ job' = Idle
                          \/ job' = [job EXCEPT !.step = "noSchedule", !.suite = x]
                          \/ \E cause : job' = [job EXCEPT !.step = "trigger", !.suite = x, !.cause = cause]
  <2>3. PICK new, out :
          new \in Newer /\ out \in PatchAnswers(new) /\ suiteFeed' = Publish(suiteFeed, out.obj) /\ GoesOn(out.obj)
    <3>1. \E new \in Newer : \E out \in PatchAnswers(new) : suiteFeed' = Publish(suiteFeed, out.obj) /\ GoesOn(out.obj)
      BY <1>14 DEF DropSchedule, ResetTrigger, AnnotateRelease, PatchSuite, Return
    <3> QED
      BY <3>1
  <2>4. new \in SuiteRecs /\ new.nextRun = job.suite.nextRun
    <3>1. new \in SuiteRecs
      BY <2>2, <2>3
    <3>2. new.nextRun = job.suite.nextRun
      BY <1>2, <2>1, <2>3 DEF SuiteRecs
    <3> QED
      BY <3>1, <3>2
  <2>5. job' = Idle \/ (job'.suite = out.obj /\ job'.base = job.base /\ job'.when = job.when)
    BY <1>2, <2>1, <2>3 DEF Goes, Jobs
  <2>6. out.obj \in SuiteRecs /\ OnTime(out.obj) => job' = Idle \/ Timely(job')
    BY <1>2, <2>1, <2>5 DEF Timely
  <2> QED
    BY <1>13, <2>1, <2>3, <2>4, <2>6
<1>15. CASE Focus \/ TrackRun
  <2>1. job.step # "idle"
    BY <1>15 DEF Focus, TrackRun
  <2> DEFINE Newer(r) == {[job.suite EXCEPT !.phase = "Running", !.current = r], [job.suite EXCEPT !.current = r]}
             GoesOn(x) == \/ job' = Idle \/ job' = isRunning(x, job.runs)
                        \/ \E step, todo : job' = At(step, x, job.runs, todo)
  <2>2. PICK r \in job.todo : \E new \in Newer(r) : \E out \in PatchAnswers(new) :
          suiteFeed' = Publish(suiteFeed, out.obj) /\ GoesOn(out.obj)
    <3>1. CASE Focus
      <4>1. PICK r \in job.todo : \E out \in PatchAnswers([job.suite EXCEPT !.phase = "Running", !.current = r]) :
              suiteFeed' = Publish(suiteFeed, out.obj) /\ GoesOn(out.obj)
        BY <3>1 DEF Focus, PatchSuite, Return
      <4> QED
        BY <4>1
    <3>2. CASE TrackRun
      <4>1. PICK r \in job.todo : \E out \in PatchAnswers([job.suite EXCEPT !.current = r]) :
              suiteFeed' = Publish(suiteFeed, out.obj) /\ GoesOn(out.obj)
        BY <3>2 DEF TrackRun, PatchSuite, Return
      <4> QED
        BY <4>1
    <3> QED
      BY <1>15, <3>1, <3>2
  <2>3. PICK new \in Newer(r) : \E out \in PatchAnswers(new) :
          suiteFeed' = Publish(suiteFeed, out.obj) /\ GoesOn(out.obj)
    BY <2>2
  <2>4. new \in SuiteRecs /\ new.nextRun = job.suite.nextRun
    <3>1. r \in Names /\ job.suite \in SuiteRecs
      BY <1>2, <2>1
    <3>2. \A x \in Newer(r) : x \in SuiteRecs
      <4>1. [job.suite EXCEPT !.phase = "Running", !.current = r] \in SuiteRecs
        BY <3>1, SuiteChanges
      <4>2. [job.suite EXCEPT !.current = r] \in SuiteRecs
        BY <3>1, SuiteChanges
      <4> QED
        BY <4>1, <4>2
    <3>3. \A x \in Newer(r) : x.nextRun = job.suite.nextRun
      BY <3>1 DEF SuiteRecs
    <3> QED
      BY <3>2, <3>3
  <2>5. PICK out \in PatchAnswers(new) : suiteFeed' = Publish(suiteFeed, out.obj) /\ GoesOn(out.obj)
    BY <2>3
  <2> HIDE DEF Newer
  <2>6. out.obj \in SuiteRecs /\ OnTime(out.obj) => job' = Idle \/ Timely(job')
    BY <2>5, TimelySteps
  <2> QED
    BY <1>13, <2>1, <2>4, <2>5, <2>6
<1>16. CASE SetPending \/ SetReady
  <2>1. job.step # "idle"
    BY <1>16 DEF SetPending, SetReady
  <2>2. PICK x, out :
          /\ x \in {"Pending", "Ready"}
          /\ out \in PatchAnswers([job.suite EXCEPT !.phase = x])
          /\ suiteFeed' = Publish(suiteFeed, out.obj)
          /\ \/ job' \in {Idle, notRunning(out.obj, job.runs), Scheduled(out.obj, job.runs)}
             \/ \E step, todo : job' = At(step, out.obj, job.runs, todo)
    BY <1>16 DEF SetPending, SetReady, PatchSuite, Return
  <2>3. [job.suite EXCEPT !.phase = x] \in SuiteRecs /\ [job.suite EXCEPT !.phase = x].nextRun = job.suite.nextRun
    BY <1>2, <2>1, <2>2, NextRunLeft, SuiteChanges
  <2>4. out.obj \in SuiteRecs /\ OnTime(out.obj) => job' = Idle \/ Timely(job')
    BY <2>2, TimelySteps
  <2> QED
    BY <1>13, <2>1, <2>2, <2>3, <2>4
<1>17. CASE Annotate
  <2> DEFINE new == [job.suite EXCEPT !.annotated = job.suite.sched]
  <2>1. job.step # "idle"
    BY <1>17 DEF Annotate
  <2>2. PICK out \in PatchAnswers(new) :
          /\ suiteFeed' = Publish(suiteFeed, out.obj)
          /\ job' \in {Idle, Parsed(out.obj, job.runs, job.suite.sched)}
    BY <1>17 DEF Annotate, PatchSuite, Return
  <2>3. new \in SuiteRecs /\ new.nextRun = job.suite.nextRun
    <3>1. job.suite.sched \in Schedules
      BY <1>2, <2>1 DEF SuiteRecs
    <3> QED
      BY <1>2, <2>1, <3>1, NextRunLeft, SuiteChanges
  <2>4. out.obj \in SuiteRecs /\ OnTime(out.obj) => job' = Idle \/ Timely(job')
    BY <2>2, TimelySteps
  <2> QED
    BY <1>13, <2>1, <2>2, <2>3, <2>4
<1>18. CASE SetRunning \/ FinishRun
  <2>1. job.step # "idle"
    BY <1>18 DEF SetRunning, FinishRun
  <2>2. PICK x \in {"Running", "Ready"} : \E out \in PatchAnswers([job.suite EXCEPT !.phase = x, !.current = None]) :
          /\ suiteFeed' = Publish(suiteFeed, out.obj)
          /\ job' = Idle \/ job' = At("done", out.obj, job.runs, {})
    BY <1>18 DEF SetRunning, FinishRun, PatchSuite, Return
  <2> DEFINE new == [job.suite EXCEPT !.phase = x, !.current = None]
  <2>3. new \in SuiteRecs /\ new.nextRun = job.suite.nextRun
    <3>1. new \in SuiteRecs
      BY <1>2, <2>1, <2>2, SuiteChanges
    <3>2. new.nextRun = job.suite.nextRun
      BY <1>2, <2>1, <2>2 DEF SuiteRecs
    <3> QED
      BY <3>1, <3>2
  <2>4. PICK out \in PatchAnswers(new) :
          /\ suiteFeed' = Publish(suiteFeed, out.obj)
          /\ job' = Idle \/ job' = At("done", out.obj, job.runs, {})
    BY <2>2
  <2> HIDE DEF new
  <2>5. out.obj \in SuiteRecs /\ OnTime(out.obj) => job' = Idle \/ Timely(job')
    BY <2>4, TimelySteps
  <2> QED
    BY <1>13, <2>1, <2>3, <2>4, <2>5
<1> QED
  BY <1>4, <1>5, <1>6, <1>7, <1>8, <1>9, <1>11, <1>12, <1>14, <1>15, <1>16, <1>17, <1>18 DEF Controller

\* Nobody else touches the next run.
LEMMA BystanderOnTime ==
  ASSUME Shape, AllOnTime, \/ SuiteEvent \/ RunEvent \/ WakeUp \/ Tick \/ Restart \/ Cluster \/ UNCHANGED vars
  PROVE  AllOnTime'
<1>1. Suite \in SuiteRecs /\ OnTime(Suite) /\ suiteFeed # <<>> /\ suiteFeed \in Seq(OnTimeRecs)
  BY ShapeFacts, OnTimeFacts DEF AllOnTime
<1>2. ASSUME suiteFeed' \in Seq(OnTimeRecs), job' \in {job, Idle} PROVE AllOnTime'
  BY <1>2 DEF AllOnTime, Timely, OnTime, Working, Idle
<1>3. CASE SuiteEvent
  <2>1. Tail(suiteFeed) \in Seq(OnTimeRecs)
    BY <1>1, <1>3, EventStates DEF SuiteEvent
  <2> QED
    BY <1>2, <1>3, <2>1 DEF SuiteEvent
<1>4. CASE RunEvent \/ WakeUp \/ Tick \/ UNCHANGED vars
  BY <1>1, <1>2, <1>4 DEF RunEvent, WakeUp, Tick, vars
<1>5. CASE Restart
  <2>1. <<Suite>> \in Seq(OnTimeRecs)
    BY <1>1 DEF OnTimeRecs
  <2> QED
    BY <1>2, <1>5, <2>1 DEF Restart
<1>6. CASE Cluster
  <2>1. CASE UNCHANGED <<suiteFeed, job>>
    BY <1>1, <1>2, <2>1
  <2>2. CASE (\E x \in SuiteRecs : ClusterSuite(x) /\ suiteFeed' = Publish(suiteFeed, x)) /\ job' = job
    <3>1. PICK x \in SuiteRecs : ClusterSuite(x) /\ suiteFeed' = Publish(suiteFeed, x)
      BY <2>2
    <3>2. x.nextRun = Suite.nextRun
      <4>1. Deleted(Suite) \in SuiteRecs
        BY <1>1, SuiteTypes
      <4>2. Reaped(Deleted(Suite)).nextRun = Suite.nextRun
        BY <1>1, <4>1, NextRunLeft
      <4>3. /\ [Suite EXCEPT !.needsRun = TRUE].nextRun = Suite.nextRun
            /\ \A sched : [Suite EXCEPT !.sched = sched].nextRun = Suite.nextRun
        BY <1>1 DEF SuiteRecs
      <4> QED
        BY <3>1, <4>2, <4>3 DEF ClusterSuite
    <3>3. OnTime(x)
      BY <1>1, <3>2 DEF OnTime
    <3> QED
      BY <1>2, <2>2, <3>1, <3>3, OnTimeFacts
  <2> QED
    BY <1>6, <2>1, <2>2, ClusterWrites
<1> QED
  BY <1>3, <1>4, <1>5, <1>6

\* The invariant of the next run.
LEMMA OnTimeInvariant ==
  ASSUME OneSchedule
  PROVE  Spec => [](Shape /\ AllOnTime)
<1>1. Init => Shape /\ AllOnTime
  <2> SUFFICES ASSUME Init PROVE AllOnTime
    BY InitShape
  <2>1. PICK sched \in Schedules : suiteFeed = <<NewSuite(sched)>>
    BY DEF Init
  <2>2. NewSuite(sched) \in OnTimeRecs
    BY NewSuiteShape DEF OnTimeRecs, OnTime, NewSuite
  <2>3. ~Working
    BY DEF Init, Working, Idle
  <2> QED
    BY <2>1, <2>2, <2>3 DEF AllOnTime
<1>2. ASSUME Shape, AllOnTime, [Next]_vars PROVE Shape' /\ AllOnTime'
  BY <1>2, NextShape, ControllerOnTime, BystanderOnTime DEF Next
<1> QED
  BY <1>1, <1>2, PTL DEF Spec

-----------------------------------------------------------------------------
(***************************************************************************)
(* With several valid schedules the next run is one of the annotated       *)
(* schedule as long as every reconcile starts with a current cache and no  *)
(* call fails: the next run is forgotten before another schedule is        *)
(* annotated.                                                              *)
(***************************************************************************)
Punctual == MaxLag = 0 /\ MaxFaults = 0

\* The next run fits the annotated schedule, and there is none before the suite
\* is Ready.
Planned(suite) ==
  /\ Valid(suite.annotated) => suite.nextRun = None \/ suite.nextRun \in Times(suite.annotated)
  /\ suite.phase \in {"", "Pending"} => suite.nextRun = None

\* Only the controller writes these, so its copy has them right.
Same(copy, suite) ==
  copy.nextRun = suite.nextRun /\ copy.annotated = suite.annotated /\ copy.phase = suite.phase

\* The next run was forgotten or is one of the schedule.
Agrees(copy) == copy.nextRun = None \/ copy.sched = copy.annotated

\* Neither new nor running.
Waiting(suite) == suite.phase \in {"Pending", "Ready"}

InStep(j, suite) ==
  /\ Same(j.suite, suite) /\ j.base.nextRun = suite.nextRun
  /\ j.step \in {"clearNext", "badSchedule", "pending", "ready", "annotate"} => j.base = j.suite
  /\ j.step \in {"pending", "ready", "annotate"} => suite.nextRun = None
  /\ j.step \in {"compact", "releaseRuns", "history"} => Agrees(j.suite)
  /\ j.step \in {"history"} \cup Quiet => suite.phase = "Ready"
  /\ j.step = "setNext" => j.when = suite.annotated
  /\ j.step = "due" => j.when \in {0, suite.annotated}

AllInStep == Exists(Suite) => Planned(Suite) /\ (Working => InStep(job, Suite))

\* Where a reconcile goes from a copy that is in step.
LEMMA InStepNext ==
  ASSUME NEW copy \in SuiteRecs, NEW suite \in SuiteRecs, NEW runs, Same(copy, suite), Planned(suite), Exists(suite)
  PROVE  /\ suite.phase = "Ready" =>
              /\ InStep(Triggered(copy, runs), suite)
              /\ InStep([Triggered(copy, runs) EXCEPT !.when = suite.annotated], suite)
              /\ InStep(Parsed(copy, runs, suite.annotated), suite)
              /\ Agrees(copy) => InStep(Scheduled(copy, runs), suite)
         /\ \A todo : InStep(At("focus", copy, runs, todo), suite) /\ InStep(At("done", copy, runs, todo), suite)
         /\ Waiting(suite) /\ Agrees(copy) => InStep(notRunning(copy, runs), suite)
         /\ InStep(isRunning(copy, runs), suite)
         /\ Agrees(copy) => InStep(EnsurePhase(copy, runs), suite) /\ InStep(AfterSchedule(copy, runs), suite)
         /\ InStep(AfterFinalizer(copy, runs), suite)
<1>1. copy.nextRun = suite.nextRun /\ copy.annotated = suite.annotated /\ copy.phase = suite.phase
  BY DEF Same
<1>2. ASSUME NEW step, NEW todo, NEW j, j.step = step, j.suite = copy, j.base = copy,
             step \in {"pending", "ready", "annotate"} => suite.nextRun = None,
             step \in {"compact", "releaseRuns", "history"} => Agrees(copy),
             step \in {"history"} \cup Quiet => suite.phase = "Ready",
             step = "setNext" => j.when = suite.annotated,
             step = "due" => j.when \in {0, suite.annotated}
      PROVE  InStep(j, suite)
  BY <1>1, <1>2 DEF InStep, Same
<1>3. ASSUME NEW step, NEW todo,
             step \in {"pending", "ready", "annotate"} => suite.nextRun = None,
             step \in {"compact", "releaseRuns", "history"} => Agrees(copy),
             step \in {"history"} \cup Quiet => suite.phase = "Ready",
             step # "setNext"
      PROVE  InStep(At(step, copy, runs, todo), suite)
  <2> DEFINE j == At(step, copy, runs, todo)
  <2>1. j.step = step /\ j.suite = copy /\ j.base = copy /\ j.when = 0
    BY DEF At
  <2> HIDE DEF j
  <2>2. InStep(j, suite)
    BY <1>2, <1>3, <2>1
  <2> QED
    BY <2>2 DEF j
<1>4. ASSUME suite.phase = "Ready" PROVE InStep(Triggered(copy, runs), suite)
  <2>1. PICK step \in {"manual", "helm", "due", "done"} : Triggered(copy, runs) = At(step, copy, runs, {})
    BY DEF Triggered
  <2> QED
    BY <1>3, <1>4, <2>1
<1>5. ASSUME suite.phase = "Ready", NEW step \in {"manual", "helm", "due", "done", "setNext", "badSchedule"}
      PROVE  InStep([At(step, copy, runs, {}) EXCEPT !.when = suite.annotated], suite)
  <2> DEFINE j == [At(step, copy, runs, {}) EXCEPT !.when = suite.annotated]
  <2>1. j.step = step /\ j.suite = copy /\ j.base = copy /\ j.when = suite.annotated
    BY DEF At
  <2> HIDE DEF j
  <2>2. InStep(j, suite)
    BY <1>2, <1>5, <2>1
  <2> QED
    BY <2>2 DEF j
<1>6. ASSUME suite.phase = "Ready"
      PROVE  /\ InStep([Triggered(copy, runs) EXCEPT !.when = suite.annotated], suite)
             /\ InStep(Parsed(copy, runs, suite.annotated), suite)
  <2>1. PICK trigger \in {"manual", "helm", "due", "done"} : Triggered(copy, runs) = At(trigger, copy, runs, {})
    BY DEF Triggered
  <2>2. \E step \in {"badSchedule", "setNext", trigger} :
          Parsed(copy, runs, suite.annotated) = [At(step, copy, runs, {}) EXCEPT !.when = suite.annotated]
    BY <2>1 DEF Parsed
  <2> QED
    BY <1>5, <1>6, <2>1, <2>2
<1>7. ASSUME suite.phase = "Ready", Agrees(copy) PROVE InStep(Scheduled(copy, runs), suite)
  <2>1. CASE copy.sched = 0
    BY <1>4, <1>7, <2>1 DEF Scheduled
  <2>2. CASE copy.sched # 0 /\ copy.annotated # copy.sched
    <3>1. Scheduled(copy, runs) = At("annotate", copy, runs, {}) /\ suite.nextRun = None
      BY <1>1, <1>7, <2>2 DEF Scheduled, Agrees
    <3> QED
      BY <1>3, <1>7, <3>1
  <2>3. CASE copy.sched # 0 /\ copy.annotated = copy.sched
    BY <1>1, <1>6, <1>7, <2>3 DEF Scheduled
  <2> QED
    BY <2>1, <2>2, <2>3
<1>8. ASSUME NEW step \in {"focus", "done", "create", "missing", "finish", "clearNext", "dropSchedule", "noSchedule"},
             NEW todo
      PROVE  InStep(At(step, copy, runs, todo), suite)
  <2>1. step \notin {"history"} \cup Quiet
    BY <1>8 DEF Quiet
  <2> QED
    BY <1>3, <1>8, <2>1
<1>9. ASSUME Waiting(suite), Agrees(copy) PROVE InStep(notRunning(copy, runs), suite)
  <2>1. CASE copy.phase = "Pending"
    <3>1. notRunning(copy, runs) = At("ready", copy, runs, {}) /\ suite.nextRun = None
      BY <1>1, <2>1 DEF notRunning, Planned
    <3>2. "ready" \notin {"history"} \cup Quiet
      BY DEF Quiet
    <3> QED
      BY <1>3, <3>1, <3>2
  <2>2. CASE copy.phase # "Pending"
    <3>1. suite.phase = "Ready"
      BY <1>1, <1>9, <2>2 DEF Waiting
    <3>2. InStep(At("history", copy, runs, Old(runs)), suite)
      BY <1>3, <1>9, <3>1
    <3> QED
      BY <1>7, <1>9, <2>2, <3>1, <3>2 DEF notRunning
  <2> QED
    BY <2>1, <2>2
<1>10. InStep(isRunning(copy, runs), suite)
  BY <1>8 DEF isRunning
<1>11. ASSUME Agrees(copy) PROVE InStep(EnsurePhase(copy, runs), suite)
  <2>1. CASE copy.phase = "Running" \/ Unfinished(runs) # {}
    BY <1>8, <1>10, <2>1 DEF EnsurePhase
  <2>2. CASE copy.phase = "" /\ Unfinished(runs) = {}
    <3>1. EnsurePhase(copy, runs) = At("pending", copy, runs, {}) /\ suite.nextRun = None
      BY <1>1, <2>2 DEF EnsurePhase, Planned
    <3>2. "pending" \notin {"history"} \cup Quiet
      BY DEF Quiet
    <3> QED
      BY <1>3, <3>1, <3>2
  <2>3. CASE copy.phase \notin {"", "Running"} /\ Unfinished(runs) = {}
    <3>1. Waiting(suite)
      BY <1>1, <2>3 DEF Waiting, SuiteRecs, SuitePhases, Exists
    <3> QED
      BY <1>9, <1>11, <2>3, <3>1 DEF EnsurePhase
  <2> QED
    BY <2>1, <2>2, <2>3
<1>12. ASSUME Agrees(copy) PROVE InStep(AfterSchedule(copy, runs), suite)
  <2>1. "compact" \notin {"history"} \cup Quiet
    BY DEF Quiet
  <2>2. InStep(At("compact", copy, runs, {}), suite)
    BY <1>3, <1>12, <2>1
  <2> QED
    BY <1>11, <1>12, <2>2 DEF AfterSchedule
<1>13. InStep(AfterFinalizer(copy, runs), suite)
  <2>1. CASE copy.sched # 0 /\ (copy.sched = copy.annotated \/ copy.nextRun = None)
    BY <1>12, <2>1 DEF AfterFinalizer, Agrees
  <2>2. CASE ~(copy.sched # 0 /\ (copy.sched = copy.annotated \/ copy.nextRun = None))
    BY <1>8, <2>2 DEF AfterFinalizer
  <2> QED
    BY <2>1, <2>2
<1> QED
  BY <1>4, <1>6, <1>7, <1>8, <1>9, <1>10, <1>11, <1>12, <1>13

\* A patch takes over what the reconcile made of the schedule, or refuses all of
\* it.
LEMMA PatchTakes ==
  ASSUME Shape, Working, NEW new \in SuiteRecs, NEW out \in PatchAnswers(new)
  PROVE  /\ out.obj \in SuiteRecs
         /\ out.obj.phase \in {Suite.phase, new.phase}
         /\ out.obj.nextRun \in {Suite.nextRun, new.nextRun}
         /\ out.obj.annotated \in {Suite.annotated, new.annotated}
         /\ out.res = "OK" /\ job.base.nextRun = Suite.nextRun => out.obj.nextRun = new.nextRun
         /\ out.res = "OK" /\ job.base.annotated = Suite.annotated => out.obj.annotated = new.annotated
         /\ out.res = "OK" /\ job.base.phase = Suite.phase => out.obj.phase = new.phase
         /\ Punctual /\ Exists(Suite) => out.res \in {"OK", "Conflict"}
         /\ Punctual /\ Exists(Suite) /\ job.base = job.suite => out.res = "OK"
         /\ out.res = "OK" => Exists(Suite)
         /\ ~Exists(Suite) => out.obj = Suite
         /\ Exists(Suite) /\ Exists(new) => Exists(out.obj)
<1>1. Suite \in SuiteRecs /\ job.base \in SuiteRecs
  BY ShapeFacts, JobFacts
<1>2. /\ out.obj \in SuiteRecs
      /\ out.obj \in {Suite, Merged(Suite, job.base, new)}
      /\ out.res \in {"OK", "Error", "NotFound", "Conflict"}
      /\ out.res = "OK" => Exists(Suite) /\ out.obj = Merged(Suite, job.base, new)
      /\ out.res = "NotFound" => ~Exists(Suite)
      /\ out.res = "Conflict" => job.base # job.suite
      /\ out.res = "Error" => faults < MaxFaults
      /\ ~Exists(Suite) => out.obj = Suite
  BY <1>1, SuiteAnswers
<1>3. Punctual => out.res # "Error"
  BY <1>2 DEF Punctual, Shape
<1> DEFINE merged == Merged(Suite, job.base, new)
<1>4. Exists(Suite) =>
        /\ merged.phase = Taken(Suite.phase, job.base.phase, new.phase)
        /\ merged.nextRun = Taken(Suite.nextRun, job.base.nextRun, new.nextRun)
        /\ merged.annotated = Taken(Suite.annotated, job.base.annotated, new.annotated)
  BY <1>1, MergedFields
<1>5. out.obj \in {Suite, merged} /\ (out.res = "OK" => Exists(Suite) /\ out.obj = merged)
  BY <1>2
<1> HIDE DEF merged
<1>6. /\ out.obj.phase \in {Suite.phase, new.phase}
      /\ out.obj.nextRun \in {Suite.nextRun, new.nextRun}
      /\ out.obj.annotated \in {Suite.annotated, new.annotated}
      /\ out.res = "OK" /\ job.base.nextRun = Suite.nextRun => out.obj.nextRun = new.nextRun
      /\ out.res = "OK" /\ job.base.annotated = Suite.annotated => out.obj.annotated = new.annotated
      /\ out.res = "OK" /\ job.base.phase = Suite.phase => out.obj.phase = new.phase
  BY <1>2, <1>4, <1>5 DEF Taken
<1> QED
  BY <1>2, <1>3, <1>6 DEF Exists


\* Cleaning a suite up leaves all of it but its end.
LEMMA CleanUpSame ==
  ASSUME NEW suite \in SuiteRecs, NEW copy \in SuiteRecs, NEW out \in cleanUp(copy, suite, SuiteFin, "Resource"),
         Exists(out.obj)
  PROVE  Same(out.obj, suite)
<1> DEFINE deleted == IF copy.del THEN suite ELSE Reaped(Deleted(suite))
           less == WithFins(deleted, copy.fins \ {SuiteFin})
<1>1. ASSUME NEW x \in SuiteRecs PROVE Exists(Reaped(x)) => Same(Reaped(x), x)
  BY DEF Reaped, Exists, Same, SuiteRecs
<1>2. ASSUME NEW x \in SuiteRecs, NEW fins PROVE Same(Deleted(x), x) /\ Same(WithFins(x, fins), x)
  BY DEF Deleted, WithFins, Same, SuiteRecs
<1>3. Deleted(suite) \in SuiteRecs /\ deleted \in SuiteRecs /\ copy.fins \ {SuiteFin} \in SUBSET {SuiteFin}
  BY SuiteTypes DEF SuiteRecs
<1>4. Exists(deleted) => Same(deleted, suite)
  BY <1>1, <1>2, <1>3 DEF Same
<1>5. out.obj \in {suite, deleted, Reaped(less)}
  BY CleanUpOutcomes
<1> HIDE DEF deleted
<1>6. less \in SuiteRecs /\ Same(less, deleted)
  BY <1>2, <1>3, SuiteTypes
<1> HIDE DEF less
<1>7. Exists(Reaped(less)) => Exists(deleted) /\ Same(Reaped(less), deleted)
  BY <1>1, <1>6 DEF Same, Exists, Reaped
<1> QED
  BY <1>4, <1>5, <1>7 DEF Same

\* Every action of the controller leaves the next run in step with the annotated
\* schedule.
LEMMA ControllerInStep ==
  ASSUME Punctual, Shape, AllInStep, Controller
  PROVE  AllInStep'
<1>1. Suite \in SuiteRecs /\ Same(Suite, Suite)
  BY ShapeFacts DEF Same
<1>2. job.step # "idle" =>
        /\ Working /\ Goes(job) /\ job.suite \in SuiteRecs /\ job.base \in SuiteRecs /\ job.todo \subseteq Names
        /\ job.when \in Schedules \cup {0}
        /\ Exists(Suite) => Planned(Suite) /\ InStep(job, Suite) /\ Same(job.suite, Suite) /\ Exists(job.suite)
  BY StepWorks, JobFacts DEF AllInStep, InStep, Same, Exists
<1>3. ASSUME Exists(Suite') => Planned(Suite') /\ (job' = Idle \/ InStep(job', Suite')) PROVE AllInStep'
  BY <1>3 DEF AllInStep, Working, Idle
<1>4. ASSUME Suite' = Suite, Exists(Suite) /\ Planned(Suite) => job' = Idle \/ InStep(job', Suite) PROVE AllInStep'
  BY <1>3, <1>4 DEF AllInStep
<1>5. ASSUME NEW new \in SuiteRecs, NEW out, out \in PatchAnswers(new), job.step # "idle",
             suiteFeed' = Publish(suiteFeed, out.obj),
             Exists(Suite) /\ Exists(out.obj) => Planned(out.obj) /\ (job' = Idle \/ InStep(job', out.obj))
      PROVE  AllInStep'
  <2>1. out.obj \in SuiteRecs /\ (~Exists(Suite) => out.obj = Suite)
    BY <1>2, <1>5, PatchTakes
  <2>2. Suite' = out.obj
    BY <1>5, <2>1, SuiteWritten
  <2> QED
    BY <1>3, <1>5, <2>1, <2>2
<1>6. CASE Reconcile
  <2>1. Cached(suiteFeed) = Suite
    <3>1. Len(suiteFeed) \in Nat \ {0} /\ Len(suiteFeed) <= 0 + 1
      BY <1>6, FeedStates DEF Reconcile, Shape, Punctual
    <3>2. \A n \in Nat \ {0} : n <= 0 + 1 => n = 1
      OBVIOUS
    <3>3. Fresh(suiteFeed)
      BY <3>1, <3>2 DEF Fresh
    <3> QED
      BY <3>3, ShapeFacts
  <2>2. Suite' = Suite
    BY <1>6 DEF Reconcile, Locally, Suite
  <2>3. /\ \/ job' = Idle \/ job' = AfterFinalizer(Suite, Cached(runFeed))
           \/ \E step \in {"release", "delete", "finalizer"} : \E todo : job' = At(step, Suite, Cached(runFeed), todo)
    BY <1>6, <2>1 DEF Reconcile
  <2>4. ASSUME Exists(Suite), Planned(Suite), NEW step \in {"release", "delete", "finalizer"}, NEW todo
        PROVE  InStep(At(step, Suite, Cached(runFeed), todo), Suite)
    <3>1. step \notin {"history"} \cup Quiet
      BY DEF Quiet
    <3> QED
      BY <1>1, <3>1, AtShape DEF InStep
  <2> QED
    BY <1>1, <1>4, <2>2, <2>3, <2>4, InStepNext
<1>7. CASE Done \/ RunsDeleted \/ MissingRun \/ WaitForNextRun \/ CreateRunFails \/ NilSchedule
  <2>1. job' = Idle
    BY <1>7 DEF Done, RunsDeleted, MissingRun, WaitForNextRun, CreateRunFails, NilSchedule, Return
  <2>2. suiteFeed' = suiteFeed \/ suiteFeed' = <<Suite>>
    BY <1>7 DEF Done, RunsDeleted, MissingRun, WaitForNextRun, CreateRunFails, NilSchedule, Locally
  <2>3. Suite' = Suite
    BY <1>1, <2>2, RestartStates DEF Suite
  <2> QED
    BY <1>4, <2>1, <2>3
<1>8. CASE HistoryEnforced \/ RunsReleased
  <2>1. /\ Suite' = Suite /\ job.step \in {"history", "releaseRuns"}
        /\ \/ job' = Idle
           \/ job.step = "history" /\ job' = Scheduled(job.suite, job.runs)
           \/ job' = EnsurePhase(job.suite, job.runs)
    BY <1>8 DEF HistoryEnforced, RunsReleased, Return, Locally, Suite
  <2>2. Exists(Suite) => Agrees(job.suite) /\ (job.step = "history" => Suite.phase = "Ready")
    BY <1>2, <2>1 DEF InStep
  <2> QED
    BY <1>1, <1>2, <1>4, <2>1, <2>2, InStepNext
<1>9. CASE Compact \/ NextRunIsDue \/ CreateRun \/ \E r \in Names : CleanUpRun(r) \/ ReleaseRun(r)
  <2>1. Suite' = Suite /\ job.step \in {"compact", "due", "create", "delete", "history", "releaseRuns"}
    BY <1>9 DEF Compact, NextRunIsDue, CreateRun, CleanUpRun, ReleaseRun, Locally, Suite
  <2>2. \/ job' = Idle
        \/ /\ job'.suite = job.suite /\ job'.base = job.base
           /\ \/ job'.step = job.step /\ job.step \in {"delete", "history", "releaseRuns"}
              \/ job'.step = "releaseRuns" /\ job.step = "compact"
              \/ job'.step \in {"trigger", "track"}
    BY <1>2, <1>9, <2>1 DEF Compact, NextRunIsDue, CreateRun, CleanUpRun, ReleaseRun, Return, Goes, Jobs
  <2>3. {"delete", "releaseRuns", "trigger", "track"} \cap ({"history"} \cup Quiet) = {}
    BY DEF Quiet
  <2>4. Exists(Suite) => job' = Idle \/ InStep(job', Suite)
    BY <1>2, <2>1, <2>2, <2>3 DEF InStep, Quiet
  <2> QED
    BY <1>4, <2>1, <2>4
<1>10. CASE ReleaseSuite
  <2>1. PICK out \in cleanUp(job.suite, Suite, SuiteFin, "Resource") : suiteFeed' = Publish(suiteFeed, out.obj)
    BY <1>10, AnswersAre DEF ReleaseSuite
  <2>2. job' = Idle /\ job.step # "idle"
    BY <1>10 DEF ReleaseSuite, Return
  <2>3. out.obj \in SuiteRecs /\ (~Exists(Suite) => out.obj = Suite)
    BY <1>1, <1>2, <2>1, <2>2, CleanUpAnswers
  <2>4. Exists(out.obj) => Same(out.obj, Suite)
    BY <1>1, <1>2, <2>1, <2>2, CleanUpSame
  <2>5. Suite' = out.obj
    BY <2>1, <2>3, SuiteWritten
  <2> QED
    BY <1>2, <1>3, <2>2, <2>3, <2>4, <2>5 DEF Same, Planned
<1>11. CASE EnsureFinalizer
  <2>1. PICK out \in addFinalizer(job.suite, Suite, SuiteFin, "Resource") :
          /\ suiteFeed' = Publish(suiteFeed, out.obj)
          /\ job' \in {Idle, AfterFinalizer(out.obj, job.runs)}
    BY <1>11, AnswersAre DEF EnsureFinalizer, Return
  <2>2. job.step # "idle"
    BY <1>11 DEF EnsureFinalizer
  <2>3. out.obj \in SuiteRecs /\ out.obj \in {Suite, [Suite EXCEPT !.fins = {SuiteFin}]}
    BY <1>1, <1>2, <2>1, <2>2, AddAnswers
  <2>4. Same(out.obj, Suite) /\ Same(out.obj, out.obj) /\ Suite' = out.obj
    BY <1>1, <2>1, <2>3, SuiteWritten DEF Same, SuiteRecs
  <2>5. Exists(out.obj) => Exists(Suite) /\ Planned(out.obj)
    BY <1>2, <2>2, <2>4 DEF Same, Planned, Exists
  <2>6. Exists(out.obj) => InStep(AfterFinalizer(out.obj, job.runs), out.obj)
    BY <2>3, <2>4, <2>5, InStepNext
  <2> QED
    BY <1>3, <2>1, <2>4, <2>5, <2>6
<1>12. ASSUME job.step # "idle", NEW new \in SuiteRecs, NEW out, out \in PatchAnswers(new),
              new.nextRun = job.suite.nextRun, new.annotated = job.suite.annotated,
              new.phase \in {job.suite.phase, "Ready", "Running"} \/ new.nextRun = None,
              Exists(Suite), Exists(out.obj)
       PROVE  out.obj \in SuiteRecs /\ Same(out.obj, out.obj) /\ Planned(out.obj)
              /\ out.obj.nextRun = Suite.nextRun /\ out.obj.annotated = Suite.annotated
              /\ out.obj.phase \in {Suite.phase, new.phase}
  <2>1. /\ out.obj \in SuiteRecs /\ out.obj.nextRun = Suite.nextRun /\ out.obj.annotated = Suite.annotated
        /\ out.obj.phase \in {Suite.phase, new.phase}
    BY <1>2, <1>12, PatchTakes DEF Same
  <2>2. Planned(out.obj)
    BY <1>2, <1>12, <2>1 DEF Same, Planned
  <2> QED
    BY <2>1, <2>2 DEF Same
<1>13. ASSUME job.step # "idle", Exists(Suite), NEW out, Exists(out.obj), out.obj \in SuiteRecs, Planned(out.obj), NEW runs
       PROVE  /\ out.obj.phase = "Ready" =>
                   /\ InStep(Triggered(out.obj, runs), out.obj)
                   /\ InStep([Triggered(out.obj, runs) EXCEPT !.when = out.obj.annotated], out.obj)
                   /\ InStep(Parsed(out.obj, runs, out.obj.annotated), out.obj)
                   /\ Agrees(out.obj) => InStep(Scheduled(out.obj, runs), out.obj)
              /\ \A todo : /\ InStep(At("focus", out.obj, runs, todo), out.obj)
                           /\ InStep(At("done", out.obj, runs, todo), out.obj)
              /\ Waiting(out.obj) /\ Agrees(out.obj) => InStep(notRunning(out.obj, runs), out.obj)
              /\ InStep(isRunning(out.obj, runs), out.obj)
              /\ Agrees(out.obj) => InStep(AfterSchedule(out.obj, runs), out.obj)
  <2>1. Same(out.obj, out.obj)
    BY DEF Same
  <2> QED
    BY <1>13, <2>1, InStepNext
<1>14. CASE ClearNextRun \/ RejectSchedule \/ NoSchedule
  <2> DEFINE new == [job.suite EXCEPT !.nextRun = None]
  <2>1. job.step \in {"clearNext", "badSchedule", "noSchedule"}
    BY <1>14 DEF ClearNextRun, RejectSchedule, NoSchedule
  <2>2. /\ new \in SuiteRecs /\ new.nextRun = None
        /\ new.annotated = job.suite.annotated /\ new.phase = job.suite.phase
    <3>1. new \in SuiteRecs
      BY <1>2, <2>1, SuiteChanges, Bounds
    <3> QED
      BY <1>2, <2>1, <3>1 DEF SuiteRecs
  <2>3. PICK out \in PatchAnswers(new) :
          /\ suiteFeed' = Publish(suiteFeed, out.obj)
          /\ \/ job' = Idle
             \/ /\ out.res = "OK"
                /\ \/ job' = AfterSchedule(out.obj, job.runs)
                   \/ job.step = "badSchedule" /\ job' = Triggered(out.obj, job.runs)
             \/ out.res # "OK" /\ job.step \in {"clearNext", "badSchedule"}
    BY <1>14 DEF ClearNextRun, RejectSchedule, NoSchedule, PatchSuite, TryPatchSuite, Return
  <2> HIDE DEF new
  <2>4. ASSUME Exists(Suite), Exists(out.obj) PROVE Planned(out.obj) /\ (job' = Idle \/ InStep(job', out.obj))
    <3>1. /\ out.obj \in SuiteRecs /\ out.obj.phase = Suite.phase /\ out.obj.annotated = Suite.annotated
          /\ out.obj.nextRun \in {Suite.nextRun, None} /\ (out.res = "OK" => out.obj.nextRun = None)
          /\ job.base = job.suite => out.res = "OK"
      BY <1>2, <2>1, <2>2, <2>4, PatchTakes DEF InStep, Same
    <3>2. Planned(out.obj)
      BY <1>2, <2>1, <2>4, <3>1 DEF Planned
    <3>3. /\ job.step \in {"clearNext", "badSchedule"} => job.base = job.suite
          /\ job.step = "badSchedule" => Suite.phase = "Ready"
      BY <1>2, <2>1, <2>4 DEF InStep, Quiet
    <3>4. job' = Idle \/ InStep(job', out.obj)
      BY <1>13, <2>1, <2>3, <2>4, <3>1, <3>2, <3>3 DEF Agrees
    <3> QED
      BY <3>2, <3>4
  <2> QED
    BY <1>5, <2>1, <2>2, <2>3, <2>4
<1>15. CASE DropSchedule \/ ResetTrigger \/ AnnotateRelease
  <2>1. job.step \in {"dropSchedule", "manual", "helm"}
    BY <1>15 DEF DropSchedule, ResetTrigger, AnnotateRelease
  <2>2. /\ [job.suite EXCEPT !.annotated = 0] \in SuiteRecs /\ [job.suite EXCEPT !.needsRun = FALSE] \in SuiteRecs
        /\ [job.suite EXCEPT !.lastHelm = 0] \in SuiteRecs
    BY <1>2, <2>1, SuiteChanges
  <2> DEFINE Newer == {[job.suite EXCEPT !.annotated = 0], [job.suite EXCEPT !.needsRun = FALSE],
                       [job.suite EXCEPT !.lastHelm = 0]}
             GoesOn(x) == \/ job' = Idle
                          \/ job' = [job EXCEPT !.step = "noSchedule", !.suite = x]
                          \/ \E cause : job' = [job EXCEPT !.step = "trigger", !.suite = x, !.cause = cause]
  <2>3. PICK new, out :
          new \in Newer /\ out \in PatchAnswers(new) /\ suiteFeed' = Publish(suiteFeed, out.obj) /\ GoesOn(out.obj)
    <3>1. \E new \in Newer : \E out \in PatchAnswers(new) : suiteFeed' = Publish(suiteFeed, out.obj) /\ GoesOn(out.obj)
      BY <1>15 DEF DropSchedule, ResetTrigger, AnnotateRelease, PatchSuite, Return
    <3> QED
      BY <3>1
  <2>4. /\ new \in SuiteRecs /\ new.nextRun = job.suite.nextRun /\ new.phase = job.suite.phase
        /\ new.annotated \in {job.suite.annotated, 0}
    <3>1. new \in SuiteRecs
      BY <2>2, <2>3
    <3>2. new.nextRun = job.suite.nextRun /\ new.phase = job.suite.phase /\ new.annotated \in {job.suite.annotated, 0}
      BY <1>2, <2>1, <2>3 DEF SuiteRecs
    <3> QED
      BY <3>1, <3>2
  <2>5. job' = Idle \/ (job'.suite = out.obj /\ job'.base = job.base /\ job'.step \in {"noSchedule", "trigger"})
    BY <1>2, <2>1, <2>3 DEF Goes, Jobs
  <2>6. out \in PatchAnswers(new)
    BY <2>3
  <2>7. ASSUME Exists(Suite), Exists(out.obj) PROVE Planned(out.obj) /\ (job' = Idle \/ InStep(job', out.obj))
    <3>1. /\ out.obj.phase = Suite.phase /\ out.obj.annotated \in {Suite.annotated, 0}
          /\ out.obj.nextRun = Suite.nextRun
      BY <1>2, <2>1, <2>4, <2>6, <2>7, PatchTakes DEF Same
    <3>2. Planned(out.obj)
      BY <1>2, <2>1, <2>7, <3>1 DEF Planned, Valid
    <3>3. job.base.nextRun = out.obj.nextRun
      BY <1>2, <2>1, <2>7, <3>1 DEF InStep
    <3>4. {"noSchedule", "trigger"} \cap ({"history"} \cup Quiet) = {}
      BY DEF Quiet
    <3>5. job' = Idle \/ InStep(job', out.obj)
      BY <2>5, <3>3, <3>4 DEF InStep, Same, Quiet
    <3> QED
      BY <3>2, <3>5
  <2> QED
    BY <1>5, <2>1, <2>3, <2>4, <2>7
<1>16. CASE Focus \/ TrackRun
  <2>1. job.step # "idle"
    BY <1>16 DEF Focus, TrackRun
  <2> DEFINE Newer(r) == {[job.suite EXCEPT !.phase = "Running", !.current = r], [job.suite EXCEPT !.current = r]}
             GoesOn(x) == \/ job' = Idle \/ job' = isRunning(x, job.runs)
                          \/ \E step \in {"focus", "done"} : \E todo : job' = At(step, x, job.runs, todo)
  <2>2. PICK r \in job.todo : \E new \in Newer(r) : \E out \in PatchAnswers(new) :
          suiteFeed' = Publish(suiteFeed, out.obj) /\ GoesOn(out.obj)
    <3>1. CASE Focus
      <4>1. PICK r \in job.todo : \E out \in PatchAnswers([job.suite EXCEPT !.phase = "Running", !.current = r]) :
              suiteFeed' = Publish(suiteFeed, out.obj) /\ GoesOn(out.obj)
        BY <3>1 DEF Focus, PatchSuite, Return
      <4> QED
        BY <4>1
    <3>2. CASE TrackRun
      <4>1. PICK r \in job.todo : \E out \in PatchAnswers([job.suite EXCEPT !.current = r]) :
              suiteFeed' = Publish(suiteFeed, out.obj) /\ GoesOn(out.obj)
        BY <3>2 DEF TrackRun, PatchSuite, Return
      <4> QED
        BY <4>1
    <3> QED
      BY <1>16, <3>1, <3>2
  <2>3. PICK new \in Newer(r) : \E out \in PatchAnswers(new) :
          suiteFeed' = Publish(suiteFeed, out.obj) /\ GoesOn(out.obj)
    BY <2>2
  <2>4. /\ new \in SuiteRecs /\ new.nextRun = job.suite.nextRun /\ new.annotated = job.suite.annotated
        /\ new.phase \in {job.suite.phase, "Running"}
    <3>1. r \in Names /\ job.suite \in SuiteRecs
      BY <1>2, <2>1
    <3>2. \A x \in Newer(r) : x \in SuiteRecs
      <4>1. [job.suite EXCEPT !.phase = "Running", !.current = r] \in SuiteRecs
        BY <3>1, SuiteChanges
      <4>2. [job.suite EXCEPT !.current = r] \in SuiteRecs
        BY <3>1, SuiteChanges
      <4> QED
        BY <4>1, <4>2
    <3>3. \A x \in Newer(r) : /\ x.nextRun = job.suite.nextRun /\ x.annotated = job.suite.annotated
                              /\ x.phase \in {job.suite.phase, "Running"}
      BY <3>1 DEF SuiteRecs
    <3> QED
      BY <3>2, <3>3
  <2>5. PICK out \in PatchAnswers(new) : suiteFeed' = Publish(suiteFeed, out.obj) /\ GoesOn(out.obj)
    BY <2>3
  <2> HIDE DEF Newer
  <2>6. ASSUME Exists(Suite), Exists(out.obj) PROVE Planned(out.obj) /\ (job' = Idle \/ InStep(job', out.obj))
    <3>1. out.obj \in SuiteRecs /\ Planned(out.obj)
      BY <1>12, <2>1, <2>4, <2>6
    <3> QED
      BY <1>13, <2>1, <2>5, <2>6, <3>1
  <2> QED
    BY <1>5, <2>1, <2>4, <2>5, <2>6
<1>17. CASE SetPending \/ SetReady
  <2>1. job.step \in {"pending", "ready"}
    BY <1>17 DEF SetPending, SetReady
  <2>2. PICK x, out :
          /\ x \in {"Pending", "Ready"}
          /\ out \in PatchAnswers([job.suite EXCEPT !.phase = x])
          /\ suiteFeed' = Publish(suiteFeed, out.obj)
          /\ \/ job' = Idle
             \/ /\ out.res = "OK"
                /\ \/ job' = notRunning(out.obj, job.runs)
                   \/ x = "Ready" /\ job' = Scheduled(out.obj, job.runs)
                   \/ x = "Ready" /\ \E todo : job' = At("history", out.obj, job.runs, todo)
    BY <1>17 DEF SetPending, SetReady, PatchSuite, Return
  <2> DEFINE new == [job.suite EXCEPT !.phase = x]
  <2>3. /\ new \in SuiteRecs /\ new.nextRun = job.suite.nextRun /\ new.annotated = job.suite.annotated
        /\ new.phase = x
    <3>1. new \in SuiteRecs
      BY <1>2, <2>1, <2>2, SuiteChanges
    <3> QED
      BY <1>2, <2>1, <3>1 DEF SuiteRecs
  <2> HIDE DEF new
  <2>4. ASSUME Exists(Suite), Exists(out.obj) PROVE Planned(out.obj) /\ (job' = Idle \/ InStep(job', out.obj))
    <3>1. Suite.nextRun = None /\ job.base.phase = Suite.phase /\ new.nextRun = None
      BY <1>2, <2>1, <2>3, <2>4 DEF InStep, Same
    <3>2. /\ out.obj \in SuiteRecs /\ out.obj.nextRun = None /\ Planned(out.obj) /\ Same(out.obj, out.obj)
          /\ out.res = "OK" => out.obj.phase = x
      BY <1>12, <2>1, <2>2, <2>3, <2>4, <3>1, <1>2, PatchTakes DEF new
    <3>3. Agrees(out.obj)
      BY <3>2 DEF Agrees
    <3>4. ASSUME out.obj.phase = "Ready", NEW todo PROVE InStep(At("history", out.obj, job.runs, todo), out.obj)
      BY <3>2, <3>3, <3>4, AtShape DEF InStep, Quiet
    <3>5. job' = Idle \/ InStep(job', out.obj)
      BY <1>13, <2>1, <2>2, <2>4, <3>2, <3>3, <3>4 DEF Waiting
    <3> QED
      BY <3>2, <3>5
  <2> QED
    BY <1>5, <2>1, <2>2, <2>3, <2>4 DEF new
<1>18. CASE Annotate
  <2> DEFINE new == [job.suite EXCEPT !.annotated = job.suite.sched]
  <2>1. job.step = "annotate"
    BY <1>18 DEF Annotate
  <2>2. PICK out \in PatchAnswers(new) :
          /\ suiteFeed' = Publish(suiteFeed, out.obj)
          /\ \/ job' = Idle
             \/ out.res = "OK" /\ job' = Parsed(out.obj, job.runs, job.suite.sched)
    BY <1>18 DEF Annotate, PatchSuite, Return
  <2>3. /\ new \in SuiteRecs /\ new.nextRun = job.suite.nextRun /\ new.phase = job.suite.phase
        /\ new.annotated = job.suite.sched
    <3>1. job.suite.sched \in Schedules
      BY <1>2, <2>1 DEF SuiteRecs
    <3>2. new \in SuiteRecs
      BY <1>2, <2>1, <3>1, SuiteChanges
    <3> QED
      BY <1>2, <2>1, <3>2 DEF SuiteRecs
  <2> HIDE DEF new
  <2>4. ASSUME Exists(Suite), Exists(out.obj) PROVE Planned(out.obj) /\ (job' = Idle \/ InStep(job', out.obj))
    <3>1. Suite.nextRun = None /\ new.nextRun = None /\ job.base.annotated = Suite.annotated /\ Suite.phase = "Ready"
      BY <1>2, <2>1, <2>3, <2>4 DEF InStep, Same, Quiet
    <3>2. /\ out.obj \in SuiteRecs /\ out.obj.nextRun = None /\ out.obj.phase = "Ready"
          /\ out.res = "OK" => out.obj.annotated = job.suite.sched
      BY <1>2, <2>1, <2>3, <2>4, <3>1, PatchTakes DEF Same
    <3>3. Planned(out.obj)
      BY <3>2 DEF Planned
    <3>4. job' = Idle \/ InStep(job', out.obj)
      BY <1>13, <2>1, <2>2, <2>4, <3>2, <3>3
    <3> QED
      BY <3>3, <3>4
  <2> QED
    BY <1>5, <2>1, <2>2, <2>3, <2>4
<1>19. CASE SetNextRun \/ NextRunMissed
  <2> DEFINE next == NextTime(job.when, now)
             new == [job.suite EXCEPT !.nextRun = next]
  <2>1. job.step \in {"setNext", "due"} /\ job.when # 0
    BY <1>2, <1>19 DEF SetNextRun, NextRunMissed, Goes
  <2>2. next \in Times(job.when) /\ next \in Int
    <3>1. now \in Nat /\ job.when \in Schedules
      BY <1>2, <2>1, Bounds DEF Shape
    <3> QED
      BY <1>2, <2>1, <3>1, NextTimeOnTime, NextTimeType
  <2>3. PICK out \in PatchAnswers(new) :
          /\ suiteFeed' = Publish(suiteFeed, out.obj)
          /\ job' = Idle \/ job' = [Triggered(out.obj, job.runs) EXCEPT !.when = job.when]
    BY <1>19 DEF SetNextRun, NextRunMissed, PatchSuite, Return
  <2> HIDE DEF next
  <2>4. /\ new \in SuiteRecs /\ new.nextRun = next /\ new.phase = job.suite.phase
        /\ new.annotated = job.suite.annotated
    <3>1. new \in SuiteRecs
      BY <1>2, <2>1, <2>2, SuiteChanges
    <3> QED
      BY <1>2, <2>1, <3>1 DEF SuiteRecs
  <2> HIDE DEF new
  <2>5. ASSUME Exists(Suite), Exists(out.obj) PROVE Planned(out.obj) /\ (job' = Idle \/ InStep(job', out.obj))
    <3>1. Suite.phase = "Ready" /\ job.when = Suite.annotated
      BY <1>2, <2>1, <2>5 DEF InStep, Quiet
    <3>2. /\ out.obj \in SuiteRecs /\ out.obj.nextRun \in {Suite.nextRun, next} /\ out.obj.phase = "Ready"
          /\ out.obj.annotated = job.when
      BY <1>2, <2>1, <2>4, <2>5, <3>1, PatchTakes DEF Same
    <3>3. Planned(out.obj)
      BY <1>2, <2>1, <2>2, <2>5, <3>1, <3>2 DEF Planned
    <3>4. job' = Idle \/ InStep(job', out.obj)
      BY <1>13, <2>1, <2>3, <2>5, <3>2, <3>3
    <3> QED
      BY <3>3, <3>4
  <2> QED
    BY <1>5, <2>1, <2>3, <2>4, <2>5
<1>20. CASE SetRunning \/ FinishRun
  <2>1. job.step # "idle"
    BY <1>20 DEF SetRunning, FinishRun
  <2>2. PICK x \in {"Running", "Ready"} : \E out \in PatchAnswers([job.suite EXCEPT !.phase = x, !.current = None]) :
          /\ suiteFeed' = Publish(suiteFeed, out.obj)
          /\ job' = Idle \/ job' = At("done", out.obj, job.runs, {})
    BY <1>20 DEF SetRunning, FinishRun, PatchSuite, Return
  <2> DEFINE new == [job.suite EXCEPT !.phase = x, !.current = None]
  <2>3. /\ new \in SuiteRecs /\ new.nextRun = job.suite.nextRun /\ new.annotated = job.suite.annotated
        /\ new.phase = x
    <3>1. new \in SuiteRecs
      BY <1>2, <2>1, <2>2, SuiteChanges
    <3>2. new.nextRun = job.suite.nextRun /\ new.annotated = job.suite.annotated /\ new.phase = x
      BY <1>2, <2>1, <2>2 DEF SuiteRecs
    <3> QED
      BY <3>1, <3>2
  <2>4. PICK out \in PatchAnswers(new) :
          /\ suiteFeed' = Publish(suiteFeed, out.obj)
          /\ job' = Idle \/ job' = At("done", out.obj, job.runs, {})
    BY <2>2
  <2> HIDE DEF new
  <2>5. ASSUME Exists(Suite), Exists(out.obj) PROVE Planned(out.obj) /\ (job' = Idle \/ InStep(job', out.obj))
    <3>1. out.obj \in SuiteRecs /\ Planned(out.obj)
      BY <1>12, <2>1, <2>2, <2>3, <2>4, <2>5
    <3> QED
      BY <1>13, <2>1, <2>4, <2>5, <3>1
  <2> QED
    BY <1>5, <2>1, <2>3, <2>4, <2>5
<1> QED
  BY <1>6, <1>7, <1>8, <1>9, <1>10, <1>11, <1>14, <1>15, <1>16, <1>17, <1>18, <1>19, <1>20 DEF Controller

\* Nobody else touches the next run, or what it was annotated with.
LEMMA BystanderInStep ==
  ASSUME Shape, AllInStep, \/ SuiteEvent \/ RunEvent \/ WakeUp \/ Tick \/ Restart \/ Cluster \/ UNCHANGED vars
  PROVE  AllInStep'
<1>1. Suite \in SuiteRecs /\ suiteFeed # <<>> /\ suiteFeed \in Seq(SuiteRecs)
  BY ShapeFacts DEF Shape
<1>2. ASSUME Exists(Suite') => Exists(Suite) /\ Same(Suite', Suite), job' \in {job, Idle} PROVE AllInStep'
  <2>1. ASSUME Exists(Suite') PROVE Planned(Suite')
    BY <1>2, <2>1 DEF AllInStep, Planned, Same
  <2>2. ASSUME Exists(Suite'), Working' PROVE InStep(job', Suite')
    <3>1. job' = job /\ Working
      BY <1>2, <2>2 DEF Working, Idle
    <3>2. Same(Suite', Suite) /\ InStep(job, Suite)
      BY <1>2, <2>2, <3>1 DEF AllInStep
    <3>3. InStep(job, Suite')
      BY <3>2 DEF InStep, Same
    <3> QED
      BY <3>1, <3>3
  <2> QED
    BY <2>1, <2>2 DEF AllInStep
<1>3. CASE SuiteEvent
  <2>1. Suite' = Suite
    BY <1>1, <1>3, EventStates DEF SuiteEvent, Suite
  <2> QED
    BY <1>2, <1>3, <2>1 DEF SuiteEvent, Same
<1>4. CASE RunEvent \/ WakeUp \/ Tick \/ UNCHANGED vars
  BY <1>2, <1>4 DEF RunEvent, WakeUp, Tick, vars, Suite, Same
<1>5. CASE Restart
  <2>1. Suite' = Suite
    BY <1>1, <1>5, RestartStates DEF Restart, Suite
  <2> QED
    BY <1>2, <1>5, <2>1 DEF Restart, Same
<1>6. CASE Cluster
  <2>1. CASE UNCHANGED <<suiteFeed, job>>
    BY <1>2, <2>1 DEF Suite, Same
  <2>2. CASE (\E x \in SuiteRecs : ClusterSuite(x) /\ suiteFeed' = Publish(suiteFeed, x)) /\ job' = job
    <3>1. PICK x \in SuiteRecs : ClusterSuite(x) /\ suiteFeed' = Publish(suiteFeed, x)
      BY <2>2
    <3>2. Exists(x) => Exists(Suite) /\ Same(x, Suite)
      <4> DEFINE deleted == Deleted(Suite)
      <4>1. deleted \in SuiteRecs /\ Same(deleted, Suite)
        <5>1. deleted \in SuiteRecs
          BY <1>1, SuiteTypes
        <5> QED
          BY <1>1, <5>1 DEF Deleted, Same, SuiteRecs
      <4> HIDE DEF deleted
      <4>2. Exists(Reaped(deleted)) => Same(Reaped(deleted), deleted)
        BY <4>1 DEF Reaped, Exists, Same, SuiteRecs
      <4>3. /\ Same([Suite EXCEPT !.needsRun = TRUE], Suite)
            /\ \A sched : Same([Suite EXCEPT !.sched = sched], Suite)
        BY <1>1 DEF SuiteRecs, Same
      <4> QED
        BY <3>1, <4>1, <4>2, <4>3 DEF ClusterSuite, Same, Exists, deleted
    <3>3. Suite' = x
      BY <3>1, SuiteWritten
    <3> QED
      BY <1>2, <2>2, <3>2, <3>3
  <2> QED
    BY <1>6, <2>1, <2>2, ClusterWrites
<1> QED
  BY <1>3, <1>4, <1>5, <1>6

\* The invariant of the annotated schedule.
LEMMA InStepInvariant ==
  ASSUME Punctual
  PROVE  Spec => [](Shape /\ AllInStep)
<1>1. Init => Shape /\ AllInStep
  <2> SUFFICES ASSUME Init PROVE AllInStep
    BY InitShape
  <2>1. PICK sched \in Schedules : suiteFeed = <<NewSuite(sched)>>
    BY DEF Init
  <2>2. Suite = NewSuite(sched)
    BY <2>1 DEF Suite, Stored
  <2>3. Planned(Suite)
    BY <2>2 DEF Planned, NewSuite
  <2>4. ~Working
    BY DEF Init, Working, Idle
  <2> QED
    BY <2>3, <2>4 DEF AllInStep
<1>2. ASSUME Shape, AllInStep, [Next]_vars PROVE Shape' /\ AllInStep'
  BY <1>2, NextShape, ControllerInStep, BystanderInStep DEF Next
<1> QED
  BY <1>1, <1>2, PTL DEF Spec

(***************************************************************************)
(* When no work is left a Ready suite with a schedule will not oversleep,  *)
(* if there is one valid schedule, or if caches are current and no call    *)
(* fails.                                                                  *)
(***************************************************************************)
THEOREM AlwaysScheduleArmed ==
  ASSUME OneSchedule \/ Punctual
  PROVE  Spec => []ScheduleArmed
<1>1. ASSUME Suite \in SuiteRecs, TimerSet, ScheduleArmed \/ Suite.nextRun = None \/ ~Valid(Suite.sched)
                                            \/ Suite.annotated # Suite.sched
                                            \/ Suite.nextRun \in Times(Suite.sched)
      PROVE  ScheduleArmed
  <2> SUFFICES ASSUME Quiescent, Exists(Suite), ~Suite.del, Suite.phase = "Ready", Suite.sched \notin {0, BadSchedule}
               PROVE  /\ Suite.annotated = Suite.sched
                      /\ Suite.nextRun # None /\ Suite.nextRun % Suite.sched = 0
                      /\ wake # None /\ wake <= Suite.nextRun
    BY DEF ScheduleArmed
  <2>1. /\ Suite.annotated = Suite.sched /\ Suite.nextRun # None /\ wake # None /\ wake <= Suite.nextRun
        /\ Valid(Suite.sched)
    BY <1>1 DEF TimerSet, Valid
  <2>2. Suite.nextRun % Suite.sched = 0
    <3>1. CASE ScheduleArmed
      BY <3>1 DEF ScheduleArmed
    <3>2. CASE Suite.nextRun \in Times(Suite.sched)
      <4>1. Suite.sched \in Schedules /\ Suite.sched # 0
        BY <1>1, <2>1 DEF SuiteRecs, Valid
      <4> QED
        BY <3>2, <4>1, TimesDivide
    <3> QED
      BY <1>1, <2>1, <3>1, <3>2
  <2> QED
    BY <2>1, <2>2
<1>2. ASSUME Shape, TimerSet, AllOnTime PROVE ScheduleArmed
  <2>1. Suite \in SuiteRecs /\ OnTime(Suite)
    BY <1>2, ShapeFacts, OnTimeFacts
  <2>2. Suite.sched \in Schedules
    BY <2>1 DEF SuiteRecs
  <2>3. Suite.nextRun = None \/ ~Valid(Suite.sched) \/ Suite.nextRun \in Times(Suite.sched)
    BY <2>1, <2>2 DEF OnTime
  <2> QED
    BY <1>1, <1>2, <2>1, <2>3
<1>3. ASSUME Shape, TimerSet, AllInStep PROVE ScheduleArmed
  <2>1. Suite \in SuiteRecs
    BY <1>3, ShapeFacts
  <2>2. CASE ~Exists(Suite)
    BY <2>2 DEF ScheduleArmed
  <2>3. CASE Exists(Suite)
    <3>1. \/ Suite.nextRun = None \/ ~Valid(Suite.sched) \/ Suite.annotated # Suite.sched
          \/ Suite.nextRun \in Times(Suite.sched)
      BY <1>3, <2>3 DEF AllInStep, Planned
    <3> QED
      BY <1>1, <1>3, <2>1, <3>1
  <2> QED
    BY <2>2, <2>3
<1>4. Spec => []TimerSet
  BY TimerAlwaysSet
<1>5. CASE OneSchedule
  <2>1. Spec => [](Shape /\ AllOnTime)
    BY <1>5, OnTimeInvariant
  <2> QED
    BY <1>2, <1>4, <2>1, PTL
<1>6. CASE Punctual
  <2>1. Spec => [](Shape /\ AllInStep)
    BY <1>6, InStepInvariant
  <2> QED
    BY <1>3, <1>4, <2>1, PTL
<1> QED
  BY <1>5, <1>6

-----------------------------------------------------------------------------
(***************************************************************************)
(* The nil schedule.  A next run that was missed is asked for by a         *)
(* schedule: with current caches no next run outlives its schedule, since  *)
(* every copy whose next run is forgotten was forgotten by the server too. *)
(***************************************************************************)

\* The next run was forgotten or belongs to a schedule there is.
Cleared(copy) == copy.nextRun = None \/ (copy.sched # 0 /\ copy.sched = copy.annotated)

\* A schedule other than the annotated one.
Edited(copy) == copy.sched \notin {0, copy.annotated}

\* What a reconcile's own copies tell it.
Tells(j) ==
  /\ j.step = "due" => j.when # 0
  /\ j.step = "clearNext" => Edited(j.suite)
  /\ j.step \in {"compact", "releaseRuns", "history"} => Cleared(j.suite)

\* Only the controller writes these, and only forgets on its own.
Follows(copy, suite) == copy.phase = suite.phase /\ copy.nextRun \in {suite.nextRun, None}

\* It forgets a next run the server still has only for another schedule.
Exact(copy, suite) == copy.nextRun = suite.nextRun \/ (copy.nextRun = None /\ Edited(copy))

\* A suite that was not Ready yet has no next run.
Unplanned(suite) == suite.phase \in {"", "Pending"} => suite.nextRun = None

\* What it knows of the stored suite.
Abreast(j, suite) ==
  /\ Follows(j.suite, suite) /\ j.base.phase = suite.phase
  /\ j.step \in {"dropSchedule", "noSchedule", "clearNext", "badSchedule"} => j.base.nextRun = suite.nextRun
  /\ j.step = "dropSchedule" => j.suite.nextRun = suite.nextRun
  /\ j.step \in {"compact", "releaseRuns", "history"} => Exact(j.suite, suite)
  /\ j.step \in {"pending", "ready"} => suite.nextRun = None
  /\ j.step \in {"history"} \cup Quiet => suite.phase = "Ready"

AllAbreast ==
  /\ Exists(Suite) => Unplanned(Suite)
  /\ Working => Tells(job) /\ (Exists(Suite) => Abreast(job, Suite))

\* A reconcile comes to a next run with the schedule it parsed.
LEMMA TellsNext ==
  ASSUME NEW copy, NEW runs
  PROVE  /\ \A step, todo : step \notin {"due", "clearNext", "compact", "releaseRuns", "history"} =>
              Tells(At(step, copy, runs, todo))
         /\ \A when : when # 0 => /\ Tells([Triggered(copy, runs) EXCEPT !.when = when])
                                  /\ Tells(Parsed(copy, runs, when))
         /\ copy.nextRun = None => Tells(Triggered(copy, runs))
         /\ Cleared(copy) =>
              /\ \A todo : Tells(At("history", copy, runs, todo))
              /\ Tells(Scheduled(copy, runs)) /\ Tells(notRunning(copy, runs))
              /\ Tells(EnsurePhase(copy, runs)) /\ Tells(AfterSchedule(copy, runs))
         /\ Tells(isRunning(copy, runs)) /\ Tells(AfterFinalizer(copy, runs))
<1>1. ASSUME NEW step, NEW todo, step # "due", step = "clearNext" => Edited(copy),
             step \in {"compact", "releaseRuns", "history"} => Cleared(copy)
      PROVE  Tells(At(step, copy, runs, todo))
  BY <1>1, AtShape DEF Tells
<1>2. PICK trigger \in {"manual", "helm", "due", "done"} :
        /\ Triggered(copy, runs) = At(trigger, copy, runs, {})
        /\ trigger = "due" => copy.nextRun # None
  BY DEF Triggered
<1>3. ASSUME NEW when, when # 0, NEW step \in {"manual", "helm", "due", "done", "badSchedule", "setNext"}
      PROVE  Tells([At(step, copy, runs, {}) EXCEPT !.when = when])
  <2> DEFINE j == [At(step, copy, runs, {}) EXCEPT !.when = when]
  <2>1. j.step = step /\ j.when = when
    BY DEF At
  <2> QED
    BY <1>3, <2>1 DEF Tells
<1>4. ASSUME NEW when, when # 0
      PROVE  Tells([Triggered(copy, runs) EXCEPT !.when = when]) /\ Tells(Parsed(copy, runs, when))
  <2>1. \E step \in {"badSchedule", "setNext", trigger} :
          Parsed(copy, runs, when) = [At(step, copy, runs, {}) EXCEPT !.when = when]
    BY <1>2 DEF Parsed
  <2>2. Tells(Parsed(copy, runs, when))
    BY <1>3, <1>4, <2>1
  <2>3. Tells([Triggered(copy, runs) EXCEPT !.when = when])
    BY <1>2, <1>3, <1>4
  <2> QED
    BY <2>2, <2>3
<1>5. copy.nextRun = None => Tells(Triggered(copy, runs))
  BY <1>1, <1>2
<1>6. ASSUME Cleared(copy) PROVE Tells(Scheduled(copy, runs))
  <2>1. CASE copy.sched = 0
    BY <1>5, <1>6, <2>1 DEF Scheduled, Cleared
  <2>2. CASE copy.sched # 0
    BY <1>1, <1>4, <2>2 DEF Scheduled
  <2> QED
    BY <2>1, <2>2
<1>7. Cleared(copy) => Tells(notRunning(copy, runs))
  BY <1>1, <1>6 DEF notRunning
<1>8. Tells(isRunning(copy, runs))
  BY <1>1 DEF isRunning
<1>9. Cleared(copy) => Tells(EnsurePhase(copy, runs))
  BY <1>1, <1>7, <1>8 DEF EnsurePhase
<1>10. Cleared(copy) => Tells(AfterSchedule(copy, runs))
  BY <1>1, <1>9 DEF AfterSchedule
<1>11. Tells(AfterFinalizer(copy, runs))
  <2>1. CASE copy.sched # 0 /\ (copy.sched = copy.annotated \/ copy.nextRun = None)
    BY <1>10, <2>1 DEF AfterFinalizer, Cleared
  <2>2. CASE ~(copy.sched # 0 /\ (copy.sched = copy.annotated \/ copy.nextRun = None))
    BY <1>1, <2>2 DEF AfterFinalizer, Edited
  <2> QED
    BY <2>1, <2>2
<1> QED
  BY <1>1, <1>4, <1>5, <1>6, <1>7, <1>8, <1>9, <1>10, <1>11

\* Where a reconcile goes from a copy that follows the stored suite.
LEMMA AbreastNext ==
  ASSUME NEW copy \in SuiteRecs, NEW suite \in SuiteRecs, NEW runs,
         Follows(copy, suite), Unplanned(suite), Exists(suite)
  PROVE  /\ suite.phase = "Ready" =>
              /\ Abreast(Triggered(copy, runs), suite)
              /\ \A when : Abreast([Triggered(copy, runs) EXCEPT !.when = when], suite)
              /\ copy.nextRun = suite.nextRun => \A when : Abreast(Parsed(copy, runs, when), suite)
         /\ \A step \in {"release", "delete", "finalizer", "focus", "done"} : \A todo :
              Abreast(At(step, copy, runs, todo), suite)
         /\ Abreast(isRunning(copy, runs), suite)
         /\ Exact(copy, suite) =>
              /\ suite.phase = "Ready" => /\ Abreast(Scheduled(copy, runs), suite)
                                          /\ \A todo : Abreast(At("history", copy, runs, todo), suite)
              /\ Waiting(suite) => Abreast(notRunning(copy, runs), suite)
              /\ Abreast(EnsurePhase(copy, runs), suite)
              /\ Abreast(AfterSchedule(copy, runs), suite)
         /\ copy.nextRun = suite.nextRun => Abreast(AfterFinalizer(copy, runs), suite)
<1>1. copy.phase = suite.phase
  BY DEF Follows
<1> DEFINE Fits(step) ==
             /\ step \in {"dropSchedule", "noSchedule", "clearNext", "badSchedule"} => copy.nextRun = suite.nextRun
             /\ step \in {"compact", "releaseRuns", "history"} => Exact(copy, suite)
             /\ step \in {"pending", "ready"} => suite.nextRun = None
             /\ step \in {"history"} \cup Quiet => suite.phase = "Ready"
<1>2. ASSUME NEW step, NEW j, j.step = step, j.suite = copy, j.base = copy, Fits(step)
      PROVE  Abreast(j, suite)
  BY <1>1, <1>2 DEF Abreast
<1>3. ASSUME NEW step, NEW todo, Fits(step)
      PROVE  Abreast(At(step, copy, runs, todo), suite)
  <2> DEFINE j == At(step, copy, runs, todo)
  <2>1. j.step = step /\ j.suite = copy /\ j.base = copy
    BY DEF At
  <2> HIDE DEF j, Fits
  <2>2. Abreast(j, suite)
    BY <1>2, <1>3, <2>1
  <2> QED
    BY <2>2 DEF j
<1>4. PICK trigger \in {"manual", "helm", "due", "done"} : Triggered(copy, runs) = At(trigger, copy, runs, {})
  BY DEF Triggered
<1>5. ASSUME suite.phase = "Ready", NEW when,
             NEW step \in {"manual", "helm", "due", "done", "setNext", "badSchedule"},
             step = "badSchedule" => copy.nextRun = suite.nextRun
      PROVE  Abreast([At(step, copy, runs, {}) EXCEPT !.when = when], suite)
  <2> DEFINE j == [At(step, copy, runs, {}) EXCEPT !.when = when]
  <2>1. j.step = step /\ j.suite = copy /\ j.base = copy
    BY DEF At
  <2>2. Fits(step)
    BY <1>5
  <2> HIDE DEF j, Fits
  <2>3. Abreast(j, suite)
    BY <1>2, <2>1, <2>2
  <2> QED
    BY <2>3 DEF j
<1>6. ASSUME suite.phase = "Ready", NEW when PROVE Abreast([Triggered(copy, runs) EXCEPT !.when = when], suite)
  BY <1>4, <1>5, <1>6
<1>7. ASSUME suite.phase = "Ready", copy.nextRun = suite.nextRun, NEW when
      PROVE  Abreast(Parsed(copy, runs, when), suite)
  <2>1. \E step \in {"badSchedule", "setNext", trigger} :
          Parsed(copy, runs, when) = [At(step, copy, runs, {}) EXCEPT !.when = when]
    BY <1>4 DEF Parsed
  <2>2. \A step \in {"badSchedule", "setNext", trigger} : Abreast([At(step, copy, runs, {}) EXCEPT !.when = when], suite)
    BY <1>4, <1>5, <1>7
  <2> QED
    BY <2>1, <2>2
<1>8. ASSUME suite.phase = "Ready" PROVE Abreast(Triggered(copy, runs), suite)
  <2>1. \A step \in {"manual", "helm", "due", "done"} : Fits(step)
    BY <1>8
  <2> HIDE DEF Fits
  <2> QED
    BY <1>3, <1>4, <2>1
<1>9. ASSUME suite.phase = "Ready", Exact(copy, suite)
      PROVE  /\ Abreast(Scheduled(copy, runs), suite)
             /\ \A todo : Abreast(At("history", copy, runs, todo), suite)
  <2>1. Fits("history") /\ Fits("annotate")
    BY <1>9
  <2> HIDE DEF Fits
  <2>2. CASE copy.sched = 0
    BY <1>3, <1>8, <1>9, <2>1, <2>2 DEF Scheduled
  <2>3. CASE copy.sched # 0 /\ copy.annotated # copy.sched
    BY <1>3, <2>1, <2>3 DEF Scheduled
  <2>4. CASE copy.sched # 0 /\ copy.annotated = copy.sched
    BY <1>3, <1>7, <1>9, <2>1, <2>4 DEF Scheduled, Exact, Edited
  <2> QED
    BY <2>2, <2>3, <2>4
<1>10. \A step \in {"release", "delete", "finalizer", "focus", "done", "create", "missing", "finish"} : \A todo :
         Abreast(At(step, copy, runs, todo), suite)
  <2>1. \A step \in {"release", "delete", "finalizer", "focus", "done", "create", "missing", "finish"} : Fits(step)
    BY DEF Quiet
  <2> HIDE DEF Fits
  <2> QED
    BY <1>3, <2>1
<1>11. Abreast(isRunning(copy, runs), suite)
  BY <1>10 DEF isRunning
<1>12. ASSUME Waiting(suite), Exact(copy, suite) PROVE Abreast(notRunning(copy, runs), suite)
  <2>1. CASE copy.phase = "Pending"
    <3>1. notRunning(copy, runs) = At("ready", copy, runs, {}) /\ suite.nextRun = None
      BY <1>1, <2>1 DEF notRunning, Unplanned
    <3>2. Fits("ready")
      BY <3>1 DEF Quiet
    <3> HIDE DEF Fits
    <3> QED
      BY <1>3, <3>1, <3>2
  <2>2. CASE copy.phase # "Pending"
    <3>1. suite.phase = "Ready"
      BY <1>1, <1>12, <2>2 DEF Waiting
    <3> QED
      BY <1>9, <1>12, <2>2, <3>1 DEF notRunning
  <2> QED
    BY <2>1, <2>2
<1>13. ASSUME Exact(copy, suite) PROVE Abreast(EnsurePhase(copy, runs), suite)
  <2>1. CASE copy.phase = "Running" \/ Unfinished(runs) # {}
    BY <1>10, <1>11, <2>1 DEF EnsurePhase
  <2>2. CASE copy.phase = "" /\ Unfinished(runs) = {}
    <3>1. EnsurePhase(copy, runs) = At("pending", copy, runs, {}) /\ suite.nextRun = None
      BY <1>1, <2>2 DEF EnsurePhase, Unplanned
    <3>2. Fits("pending")
      BY <3>1 DEF Quiet
    <3> HIDE DEF Fits
    <3> QED
      BY <1>3, <3>1, <3>2
  <2>3. CASE copy.phase \notin {"", "Running"} /\ Unfinished(runs) = {}
    <3>1. Waiting(suite)
      BY <1>1, <2>3 DEF Waiting, SuiteRecs, SuitePhases, Exists
    <3> QED
      BY <1>12, <1>13, <2>3, <3>1 DEF EnsurePhase
  <2> QED
    BY <2>1, <2>2, <2>3
<1>14. ASSUME Exact(copy, suite) PROVE Abreast(AfterSchedule(copy, runs), suite)
  <2>1. Fits("compact")
    BY <1>14 DEF Quiet
  <2> HIDE DEF Fits
  <2>2. Abreast(At("compact", copy, runs, {}), suite)
    BY <1>3, <2>1
  <2> QED
    BY <1>13, <1>14, <2>2 DEF AfterSchedule
<1>15. ASSUME copy.nextRun = suite.nextRun PROVE Abreast(AfterFinalizer(copy, runs), suite)
  <2>1. \A step \in {"dropSchedule", "noSchedule", "clearNext"} : Fits(step)
    BY <1>15 DEF Quiet
  <2> HIDE DEF Fits
  <2>2. \A step \in {"dropSchedule", "noSchedule", "clearNext"} : Abreast(At(step, copy, runs, {}), suite)
    BY <1>3, <2>1
  <2> QED
    BY <1>14, <1>15, <2>2 DEF AfterFinalizer, Exact
<1> HIDE DEF Fits
<1> QED
  BY <1>6, <1>7, <1>8, <1>9, <1>10, <1>11, <1>12, <1>13, <1>14, <1>15

\* What a patch leaves of the next run of a suite that a reconcile follows.
LEMMA PatchFollows ==
  ASSUME Shape, Working, Exists(Suite), Abreast(job, Suite), NEW new \in SuiteRecs, NEW out \in PatchAnswers(new)
  PROVE  /\ out.obj \in SuiteRecs /\ out.obj.phase \in {Suite.phase, new.phase}
         /\ out.obj.nextRun \in {Suite.nextRun, new.nextRun}
         /\ out.res = "OK" => out.obj.phase = new.phase
         /\ out.res = "OK" /\ job.base.nextRun = Suite.nextRun => out.obj.nextRun = new.nextRun
         /\ new.phase = job.suite.phase => out.obj.phase = Suite.phase
         /\ new.nextRun = job.suite.nextRun => out.obj.nextRun \in {Suite.nextRun, None}
  BY PatchTakes DEF Abreast, Follows

\* With current caches every action of the controller keeps the reconcile
\* abreast of the suite.
LEMMA ControllerAbreast ==
  ASSUME MaxLag = 0, Shape, AllAbreast, Controller
  PROVE  AllAbreast'
<1>1. Suite \in SuiteRecs
  BY ShapeFacts
<1>2. job.step # "idle" =>
        /\ Working /\ Goes(job) /\ job.suite \in SuiteRecs /\ job.base \in SuiteRecs /\ job.todo \subseteq Names
        /\ Tells(job)
        /\ Exists(Suite) => Unplanned(Suite) /\ Abreast(job, Suite) /\ Follows(job.suite, Suite)
  BY StepWorks, JobFacts DEF AllAbreast, Abreast
<1>3. ASSUME Exists(Suite') => Unplanned(Suite'),
             job' = Idle \/ (Tells(job') /\ (Exists(Suite') => Abreast(job', Suite')))
      PROVE  AllAbreast'
  BY <1>3 DEF AllAbreast, Working, Idle
<1>4. ASSUME Suite' = Suite, job' = Idle \/ (Tells(job') /\ (Exists(Suite) => Abreast(job', Suite))) PROVE AllAbreast'
  BY <1>3, <1>4 DEF AllAbreast
<1>5. ASSUME NEW new \in SuiteRecs, NEW out, out \in PatchAnswers(new), job.step # "idle",
             suiteFeed' = Publish(suiteFeed, out.obj),
             Exists(Suite) => Unplanned(out.obj) /\ (job' = Idle \/ Abreast(job', out.obj)),
             job' = Idle \/ Tells(job')
      PROVE  AllAbreast'
  <2>1. out.obj \in SuiteRecs /\ (~Exists(Suite) => out.obj = Suite)
    BY <1>2, <1>5, PatchTakes
  <2>2. Suite' = out.obj
    BY <1>5, <2>1, SuiteWritten
  <2> QED
    BY <1>3, <1>5, <2>1, <2>2
<1>6. CASE Reconcile
  <2>1. Cached(suiteFeed) = Suite
    <3>1. Len(suiteFeed) \in Nat \ {0} /\ Len(suiteFeed) <= 0 + 1
      BY <1>6, FeedStates DEF Reconcile, Shape
    <3>2. \A n \in Nat \ {0} : n <= 0 + 1 => n = 1
      OBVIOUS
    <3>3. Fresh(suiteFeed)
      BY <3>1, <3>2 DEF Fresh
    <3> QED
      BY <3>3, ShapeFacts
  <2>2. Suite' = Suite
    BY <1>6 DEF Reconcile, Locally, Suite
  <2>3. \/ job' = Idle \/ job' = AfterFinalizer(Suite, Cached(runFeed))
        \/ \E step \in {"release", "delete", "finalizer"} : \E todo : job' = At(step, Suite, Cached(runFeed), todo)
    BY <1>6, <2>1 DEF Reconcile
  <2>4. Follows(Suite, Suite) /\ (Exists(Suite) => Unplanned(Suite))
    BY DEF Follows, AllAbreast
  <2>5. job' = Idle \/ Tells(job')
    BY <2>3, TellsNext
  <2>6. Exists(Suite) => job' = Idle \/ Abreast(job', Suite)
    BY <1>1, <2>3, <2>4, AbreastNext
  <2> QED
    BY <1>4, <2>2, <2>5, <2>6
<1>7. CASE Done \/ RunsDeleted \/ MissingRun \/ WaitForNextRun \/ CreateRunFails \/ NilSchedule
  <2>1. job' = Idle
    BY <1>7 DEF Done, RunsDeleted, MissingRun, WaitForNextRun, CreateRunFails, NilSchedule, Return
  <2>2. suiteFeed' = suiteFeed \/ suiteFeed' = <<Suite>>
    BY <1>7 DEF Done, RunsDeleted, MissingRun, WaitForNextRun, CreateRunFails, NilSchedule, Locally
  <2>3. Suite' = Suite
    BY <1>1, <2>2, RestartStates DEF Suite
  <2> QED
    BY <1>4, <2>1, <2>3
<1>8. CASE HistoryEnforced \/ RunsReleased
  <2>1. /\ Suite' = Suite /\ job.step \in {"history", "releaseRuns"}
        /\ \/ job' = Idle
           \/ job.step = "history" /\ job' = Scheduled(job.suite, job.runs)
           \/ job' = EnsurePhase(job.suite, job.runs)
    BY <1>8 DEF HistoryEnforced, RunsReleased, Return, Locally, Suite
  <2>2. /\ Cleared(job.suite)
        /\ Exists(Suite) => Exact(job.suite, Suite) /\ (job.step = "history" => Suite.phase = "Ready")
    BY <1>2, <2>1 DEF Tells, Abreast
  <2>3. job' = Idle \/ Tells(job')
    BY <2>1, <2>2, TellsNext
  <2>4. Exists(Suite) => job' = Idle \/ Abreast(job', Suite)
    BY <1>1, <1>2, <2>1, <2>2, AbreastNext
  <2> QED
    BY <1>4, <2>1, <2>3, <2>4
<1>9. CASE Compact \/ NextRunIsDue \/ CreateRun \/ \E r \in Names : CleanUpRun(r) \/ ReleaseRun(r)
  <2>1. Suite' = Suite /\ job.step \in {"compact", "due", "create", "delete", "history", "releaseRuns"}
    BY <1>9 DEF Compact, NextRunIsDue, CreateRun, CleanUpRun, ReleaseRun, Locally, Suite
  <2>2. \/ job' = Idle
        \/ /\ job'.suite = job.suite /\ job'.base = job.base
           /\ \/ job'.step = job.step /\ job.step \in {"delete", "history", "releaseRuns"}
              \/ job'.step = "releaseRuns" /\ job.step = "compact"
              \/ job'.step \in {"trigger", "track"}
    BY <1>2, <1>9, <2>1 DEF Compact, NextRunIsDue, CreateRun, CleanUpRun, ReleaseRun, Return, Goes, Jobs
  <2>3. {"delete", "releaseRuns", "trigger", "track"} \cap ({"history"} \cup Quiet) = {}
    BY DEF Quiet
  <2>4. job' = Idle \/ Tells(job')
    BY <1>2, <2>1, <2>2 DEF Tells
  <2>5. Exists(Suite) => job' = Idle \/ Abreast(job', Suite)
    BY <1>2, <2>1, <2>2, <2>3 DEF Abreast, Quiet
  <2> QED
    BY <1>4, <2>1, <2>4, <2>5
<1>10. CASE ReleaseSuite
  <2>1. PICK out \in cleanUp(job.suite, Suite, SuiteFin, "Resource") : suiteFeed' = Publish(suiteFeed, out.obj)
    BY <1>10, AnswersAre DEF ReleaseSuite
  <2>2. job' = Idle /\ job.step # "idle"
    BY <1>10 DEF ReleaseSuite, Return
  <2>3. out.obj \in SuiteRecs /\ (~Exists(Suite) => out.obj = Suite)
    BY <1>1, <1>2, <2>1, <2>2, CleanUpAnswers
  <2>4. Exists(out.obj) => Same(out.obj, Suite)
    BY <1>1, <1>2, <2>1, <2>2, CleanUpSame
  <2>5. Suite' = out.obj
    BY <2>1, <2>3, SuiteWritten
  <2> QED
    BY <1>2, <1>3, <2>2, <2>3, <2>4, <2>5 DEF Same, Unplanned
<1>11. CASE EnsureFinalizer
  <2>1. PICK out \in addFinalizer(job.suite, Suite, SuiteFin, "Resource") :
          /\ suiteFeed' = Publish(suiteFeed, out.obj)
          /\ job' \in {Idle, AfterFinalizer(out.obj, job.runs)}
    BY <1>11, AnswersAre DEF EnsureFinalizer, Return
  <2>2. job.step # "idle"
    BY <1>11 DEF EnsureFinalizer
  <2>3. out.obj \in SuiteRecs /\ out.obj \in {Suite, [Suite EXCEPT !.fins = {SuiteFin}]}
    BY <1>1, <1>2, <2>1, <2>2, AddAnswers
  <2>4. out.obj.phase = Suite.phase /\ out.obj.nextRun = Suite.nextRun /\ Suite' = out.obj
    BY <1>1, <2>1, <2>3, SuiteWritten DEF SuiteRecs
  <2>5. Exists(out.obj) => Exists(Suite) /\ Unplanned(out.obj)
    BY <1>2, <2>2, <2>4 DEF Unplanned, Exists
  <2>6. Tells(AfterFinalizer(out.obj, job.runs))
    BY TellsNext
  <2>7. Exists(out.obj) => Abreast(AfterFinalizer(out.obj, job.runs), out.obj)
    BY <2>3, <2>5, AbreastNext DEF Follows
  <2> QED
    BY <1>3, <2>1, <2>4, <2>5, <2>6, <2>7
<1>12. ASSUME job.step # "idle", Exists(Suite), NEW out, out.obj \in SuiteRecs, Unplanned(out.obj), Exists(out.obj)
       PROVE  \A runs : /\ out.obj.phase = "Ready" =>
                             /\ Abreast(Triggered(out.obj, runs), out.obj)
                             /\ \A when : /\ Abreast([Triggered(out.obj, runs) EXCEPT !.when = when], out.obj)
                                          /\ Abreast(Parsed(out.obj, runs, when), out.obj)
                             /\ Abreast(Scheduled(out.obj, runs), out.obj)
                             /\ \A todo : Abreast(At("history", out.obj, runs, todo), out.obj)
                        /\ \A step \in {"focus", "done"} : \A todo : Abreast(At(step, out.obj, runs, todo), out.obj)
                        /\ Waiting(out.obj) => Abreast(notRunning(out.obj, runs), out.obj)
                        /\ Abreast(isRunning(out.obj, runs), out.obj)
                        /\ Abreast(AfterSchedule(out.obj, runs), out.obj)
  BY <1>12, AbreastNext DEF Follows, Exact
<1>13. CASE ClearNextRun \/ RejectSchedule \/ NoSchedule
  <2> DEFINE new == [job.suite EXCEPT !.nextRun = None]
  <2>1. job.step \in {"clearNext", "badSchedule", "noSchedule"}
    BY <1>13 DEF ClearNextRun, RejectSchedule, NoSchedule
  <2>2. /\ new \in SuiteRecs /\ new.nextRun = None /\ new.phase = job.suite.phase
    <3>1. new \in SuiteRecs
      BY <1>2, <2>1, SuiteChanges, Bounds
    <3> QED
      BY <1>2, <2>1, <3>1 DEF SuiteRecs
  <2>3. PICK out \in PatchAnswers(new) :
          /\ suiteFeed' = Publish(suiteFeed, out.obj)
          /\ \/ job' = Idle
             \/ \E x \in {out.obj, new} :
                  /\ \/ x = out.obj /\ out.res = "OK"
                     \/ x = new /\ job.step \in {"clearNext", "badSchedule"}
                  /\ \/ job' = AfterSchedule(x, job.runs) /\ job.step \in {"clearNext", "noSchedule"}
                     \/ job' = Triggered(x, job.runs) /\ job.step = "badSchedule"
    BY <1>13 DEF ClearNextRun, RejectSchedule, NoSchedule, PatchSuite, TryPatchSuite, Return
  <2> HIDE DEF new
  <2>4. ASSUME Exists(Suite)
        PROVE  /\ out.obj \in SuiteRecs /\ out.obj.phase = Suite.phase /\ Exists(out.obj)
               /\ out.obj.nextRun \in {Suite.nextRun, None} /\ Unplanned(out.obj)
    <3>1. /\ out.obj \in SuiteRecs /\ out.obj.phase = Suite.phase
          /\ out.obj.nextRun \in {Suite.nextRun, None}
      BY <1>2, <2>1, <2>2, <2>4, PatchFollows
    <3> QED
      BY <1>2, <2>1, <2>4, <3>1 DEF Unplanned, Exists
  <2>5. out.res = "OK" => Exists(Suite) /\ out.obj.nextRun = None
    <3>1. Exists(Suite) => job.base.nextRun = Suite.nextRun
      BY <1>2, <2>1 DEF Abreast
    <3>2. out.res = "OK" => Exists(Suite)
      BY <1>2, <2>1, <2>2, PatchTakes
    <3> QED
      BY <1>2, <2>1, <2>2, <3>1, <3>2, PatchFollows
  <2>6. ASSUME Exists(Suite), NEW x \in {out.obj, new}, x = out.obj \/ job.step \in {"clearNext", "badSchedule"},
               x.nextRun = None
        PROVE  /\ job.step \in {"clearNext", "noSchedule"} => Abreast(AfterSchedule(x, job.runs), out.obj)
               /\ job.step = "badSchedule" => Abreast(Triggered(x, job.runs), out.obj)
    <3>1. job.step = "badSchedule" => Suite.phase = "Ready"
      BY <1>2, <2>1, <2>6 DEF Abreast, Quiet
    <3>2. x \in SuiteRecs /\ Follows(x, out.obj)
      BY <1>2, <2>1, <2>2, <2>4, <2>6 DEF Follows
    <3>3. job.step \in {"clearNext", "noSchedule"} => Exact(x, out.obj)
      <4>1. CASE x = out.obj
        BY <4>1 DEF Exact
      <4>2. CASE x = new /\ job.step = "clearNext"
        <5>1. Edited(job.suite)
          BY <1>2, <4>2 DEF Tells
        <5>2. new.sched = job.suite.sched /\ new.annotated = job.suite.annotated
          BY <1>2, <2>1 DEF new, SuiteRecs
        <5> QED
          BY <2>6, <4>2, <5>1, <5>2 DEF Edited, Exact
      <4> QED
        BY <2>1, <2>6, <4>1, <4>2
    <3> QED
      BY <2>4, <2>6, <3>1, <3>2, <3>3, AbreastNext
  <2>7. CASE job' = Idle
    BY <1>5, <2>1, <2>2, <2>3, <2>4, <2>7
  <2>8. CASE job' # Idle
    <3>1. PICK x \in {out.obj, new} :
            /\ \/ x = out.obj /\ out.res = "OK"
               \/ x = new /\ job.step \in {"clearNext", "badSchedule"}
            /\ \/ job' = AfterSchedule(x, job.runs) /\ job.step \in {"clearNext", "noSchedule"}
               \/ job' = Triggered(x, job.runs) /\ job.step = "badSchedule"
      BY <2>3, <2>8
    <3>2. x.nextRun = None /\ Cleared(x)
      BY <2>2, <2>5, <3>1 DEF Cleared
    <3>3. Tells(job')
      BY <3>1, <3>2, TellsNext
    <3>4. Exists(Suite) => Abreast(job', out.obj)
      BY <2>6, <3>1, <3>2
    <3> QED
      BY <1>5, <2>1, <2>2, <2>3, <2>4, <3>3, <3>4
  <2> QED
    BY <2>7, <2>8
<1>14. ASSUME job.step # "idle", Exists(Suite), NEW new \in SuiteRecs, NEW out \in PatchAnswers(new),
              new.nextRun = job.suite.nextRun, new.phase \in {job.suite.phase, "Running", "Ready"}
       PROVE  out.obj \in SuiteRecs /\ Unplanned(out.obj) /\ Exists(out.obj)
  <2>1. /\ out.obj \in SuiteRecs /\ out.obj.phase \in {Suite.phase, new.phase}
        /\ out.obj.nextRun \in {Suite.nextRun, None}
        /\ new.phase = job.suite.phase => out.obj.phase = Suite.phase
    BY <1>2, <1>14, PatchFollows
  <2>2. out.obj.phase \in {Suite.phase, "Running", "Ready"}
    BY <1>14, <2>1
  <2> QED
    BY <1>2, <1>14, <2>1, <2>2 DEF Unplanned, Exists
<1>15. CASE DropSchedule \/ ResetTrigger \/ AnnotateRelease
  <2>1. job.step \in {"dropSchedule", "manual", "helm"}
    BY <1>15 DEF DropSchedule, ResetTrigger, AnnotateRelease
  <2>2. /\ [job.suite EXCEPT !.annotated = 0] \in SuiteRecs /\ [job.suite EXCEPT !.needsRun = FALSE] \in SuiteRecs
        /\ [job.suite EXCEPT !.lastHelm = 0] \in SuiteRecs
    BY <1>2, <2>1, SuiteChanges
  <2> DEFINE Newer == {[job.suite EXCEPT !.annotated = 0], [job.suite EXCEPT !.needsRun = FALSE],
                       [job.suite EXCEPT !.lastHelm = 0]}
             GoesOn(x) == \/ job' = Idle
                          \/ job.step = "dropSchedule" /\ job' = [job EXCEPT !.step = "noSchedule", !.suite = x]
                          \/ \E cause : job' = [job EXCEPT !.step = "trigger", !.suite = x, !.cause = cause]
  <2>3. PICK new, out :
          new \in Newer /\ out \in PatchAnswers(new) /\ suiteFeed' = Publish(suiteFeed, out.obj) /\ GoesOn(out.obj)
    <3>1. \E new \in Newer : \E out \in PatchAnswers(new) : suiteFeed' = Publish(suiteFeed, out.obj) /\ GoesOn(out.obj)
      BY <1>15 DEF DropSchedule, ResetTrigger, AnnotateRelease, PatchSuite, Return
    <3> QED
      BY <3>1
  <2>4. new \in SuiteRecs /\ new.nextRun = job.suite.nextRun /\ new.phase = job.suite.phase
    <3>1. new \in SuiteRecs
      BY <2>2, <2>3
    <3>2. new.nextRun = job.suite.nextRun /\ new.phase = job.suite.phase
      BY <1>2, <2>1, <2>3 DEF SuiteRecs
    <3> QED
      BY <3>1, <3>2
  <2>5. \/ job' = Idle
        \/ /\ job'.suite = out.obj /\ job'.base = job.base
           /\ (job'.step = "noSchedule" /\ job.step = "dropSchedule") \/ job'.step = "trigger"
    BY <1>2, <2>1, <2>3 DEF Goes, Jobs
  <2>6. out \in PatchAnswers(new)
    BY <2>3
  <2>7. job' = Idle \/ Tells(job')
    BY <2>5 DEF Tells
  <2>8. ASSUME Exists(Suite) PROVE Unplanned(out.obj) /\ (job' = Idle \/ Abreast(job', out.obj))
    <3>1. out.obj.phase = Suite.phase /\ out.obj.nextRun \in {Suite.nextRun, None}
      BY <1>2, <2>1, <2>4, <2>6, <2>8, PatchFollows
    <3>2. Unplanned(out.obj)
      BY <1>2, <2>1, <2>8, <3>1 DEF Unplanned
    <3>3. job.base.phase = out.obj.phase
      BY <1>2, <2>1, <2>8, <3>1 DEF Abreast
    <3>4. job.step = "dropSchedule" => out.obj.nextRun = job.base.nextRun
      <4>1. job.step = "dropSchedule" => job.base.nextRun = Suite.nextRun /\ job.suite.nextRun = Suite.nextRun
        BY <1>2, <2>1, <2>8 DEF Abreast
      <4>2. out.obj.nextRun \in {Suite.nextRun, new.nextRun}
        BY <1>2, <2>1, <2>4, <2>6, <2>8, PatchFollows
      <4> QED
        BY <2>4, <4>1, <4>2
    <3>5. {"noSchedule", "trigger"} \cap ({"history"} \cup Quiet) = {}
      BY DEF Quiet
    <3>6. job' = Idle \/ Abreast(job', out.obj)
      BY <2>5, <3>3, <3>4, <3>5 DEF Abreast, Follows, Quiet
    <3> QED
      BY <3>2, <3>6
  <2> QED
    BY <1>5, <2>1, <2>3, <2>4, <2>7, <2>8
<1>16. CASE Focus \/ TrackRun
  <2>1. job.step # "idle"
    BY <1>16 DEF Focus, TrackRun
  <2> DEFINE Newer(r) == {[job.suite EXCEPT !.phase = "Running", !.current = r], [job.suite EXCEPT !.current = r]}
             GoesOn(x) == \/ job' = Idle \/ job' = isRunning(x, job.runs)
                          \/ \E step \in {"focus", "done"} : \E todo : job' = At(step, x, job.runs, todo)
  <2>2. PICK r \in job.todo : \E new \in Newer(r) : \E out \in PatchAnswers(new) :
          suiteFeed' = Publish(suiteFeed, out.obj) /\ GoesOn(out.obj)
    <3>1. CASE Focus
      <4>1. PICK r \in job.todo : \E out \in PatchAnswers([job.suite EXCEPT !.phase = "Running", !.current = r]) :
              suiteFeed' = Publish(suiteFeed, out.obj) /\ GoesOn(out.obj)
        BY <3>1 DEF Focus, PatchSuite, Return
      <4> QED
        BY <4>1
    <3>2. CASE TrackRun
      <4>1. PICK r \in job.todo : \E out \in PatchAnswers([job.suite EXCEPT !.current = r]) :
              suiteFeed' = Publish(suiteFeed, out.obj) /\ GoesOn(out.obj)
        BY <3>2 DEF TrackRun, PatchSuite, Return
      <4> QED
        BY <4>1
    <3> QED
      BY <1>16, <3>1, <3>2
  <2>3. PICK new \in Newer(r) : \E out \in PatchAnswers(new) :
          suiteFeed' = Publish(suiteFeed, out.obj) /\ GoesOn(out.obj)
    BY <2>2
  <2>4. new \in SuiteRecs /\ new.nextRun = job.suite.nextRun /\ new.phase \in {job.suite.phase, "Running"}
    <3>1. r \in Names /\ job.suite \in SuiteRecs
      BY <1>2, <2>1
    <3>2. \A x \in Newer(r) : x \in SuiteRecs
      <4>1. [job.suite EXCEPT !.phase = "Running", !.current = r] \in SuiteRecs
        BY <3>1, SuiteChanges
      <4>2. [job.suite EXCEPT !.current = r] \in SuiteRecs
        BY <3>1, SuiteChanges
      <4> QED
        BY <4>1, <4>2
    <3>3. \A x \in Newer(r) : x.nextRun = job.suite.nextRun /\ x.phase \in {job.suite.phase, "Running"}
      BY <3>1 DEF SuiteRecs
    <3> QED
      BY <3>2, <3>3
  <2>5. PICK out \in PatchAnswers(new) : suiteFeed' = Publish(suiteFeed, out.obj) /\ GoesOn(out.obj)
    BY <2>3
  <2> HIDE DEF Newer
  <2>6. job' = Idle \/ Tells(job')
    BY <2>5, TellsNext
  <2>7. ASSUME Exists(Suite) PROVE Unplanned(out.obj) /\ (job' = Idle \/ Abreast(job', out.obj))
    <3>1. out.obj \in SuiteRecs /\ Unplanned(out.obj) /\ Exists(out.obj)
      BY <1>2, <1>14, <2>1, <2>4, <2>7
    <3> QED
      BY <1>12, <2>1, <2>5, <2>7, <3>1
  <2> QED
    BY <1>5, <2>1, <2>4, <2>5, <2>6, <2>7
<1>17. CASE SetPending \/ SetReady
  <2>1. job.step \in {"pending", "ready"}
    BY <1>17 DEF SetPending, SetReady
  <2>2. PICK x, out :
          /\ x \in {"Pending", "Ready"}
          /\ out \in PatchAnswers([job.suite EXCEPT !.phase = x])
          /\ suiteFeed' = Publish(suiteFeed, out.obj)
          /\ \/ job' = Idle
             \/ /\ out.res = "OK"
                /\ \/ job' = notRunning(out.obj, job.runs)
                   \/ x = "Ready" /\ job' = Scheduled(out.obj, job.runs)
                   \/ x = "Ready" /\ \E todo : job' = At("history", out.obj, job.runs, todo)
    BY <1>17 DEF SetPending, SetReady, PatchSuite, Return
  <2> DEFINE new == [job.suite EXCEPT !.phase = x]
  <2>3. new \in SuiteRecs /\ new.nextRun = job.suite.nextRun /\ new.phase = x
    <3>1. new \in SuiteRecs
      BY <1>2, <2>1, <2>2, SuiteChanges
    <3> QED
      BY <1>2, <2>1, <3>1 DEF SuiteRecs
  <2>4. out \in PatchAnswers(new) /\ x \in {"Pending", "Ready"}
    BY <2>2
  <2> HIDE DEF new
  <2>5. ASSUME Exists(Suite)
        PROVE  /\ out.obj \in SuiteRecs /\ out.obj.nextRun = None /\ Unplanned(out.obj) /\ Exists(out.obj)
               /\ out.res = "OK" => out.obj.phase = x
    <3>1. Suite.nextRun = None
      BY <1>2, <2>1, <2>5 DEF Abreast
    <3>2. /\ out.obj \in SuiteRecs /\ out.obj.nextRun = None /\ out.obj.phase \in {Suite.phase, x}
          /\ out.res = "OK" => out.obj.phase = x
      BY <1>2, <2>1, <2>3, <2>4, <2>5, <3>1, PatchFollows
    <3> QED
      BY <2>4, <2>5, <3>2 DEF Unplanned, Exists
  <2>6. out.res = "OK" => Exists(Suite)
    BY <1>2, <2>1, <2>3, <2>4, PatchTakes
  <2>7. job' = Idle \/ Tells(job')
    <3>1. CASE job' = Idle
      BY <3>1
    <3>2. CASE job' # Idle
      <4>1. Cleared(out.obj)
        BY <2>2, <2>5, <2>6, <3>2 DEF Cleared
      <4> QED
        BY <2>2, <3>2, <4>1, TellsNext
    <3> QED
      BY <3>1, <3>2
  <2>8. ASSUME Exists(Suite) PROVE job' = Idle \/ Abreast(job', out.obj)
    <3>1. CASE job' = Idle
      BY <3>1
    <3>2. CASE job' # Idle
      <4>1. out.obj.phase = x /\ Waiting(out.obj)
        BY <2>2, <2>5, <2>8, <3>2 DEF Waiting
      <4> QED
        BY <1>12, <2>1, <2>2, <2>5, <2>8, <3>2, <4>1
    <3> QED
      BY <3>1, <3>2
  <2> QED
    BY <1>5, <2>1, <2>2, <2>3, <2>4, <2>5, <2>7, <2>8
<1>18. CASE Annotate
  <2> DEFINE new == [job.suite EXCEPT !.annotated = job.suite.sched]
  <2>1. job.step = "annotate"
    BY <1>18 DEF Annotate
  <2>2. PICK out \in PatchAnswers(new) :
          /\ suiteFeed' = Publish(suiteFeed, out.obj)
          /\ job' = Idle \/ job' = Parsed(out.obj, job.runs, job.suite.sched)
    BY <1>18 DEF Annotate, PatchSuite, Return
  <2>3. new \in SuiteRecs /\ new.nextRun = job.suite.nextRun /\ new.phase = job.suite.phase
    <3>1. job.suite.sched \in Schedules
      BY <1>2, <2>1 DEF SuiteRecs
    <3>2. new \in SuiteRecs
      BY <1>2, <2>1, <3>1, SuiteChanges
    <3> QED
      BY <1>2, <2>1, <3>2 DEF SuiteRecs
  <2> HIDE DEF new
  <2>4. job' = Idle \/ Tells(job')
    <3>1. job.suite.sched # 0
      BY <1>2, <2>1 DEF Goes
    <3>2. Tells(Parsed(out.obj, job.runs, job.suite.sched))
      BY <3>1, TellsNext
    <3> QED
      BY <2>2, <3>2
  <2>5. ASSUME Exists(Suite) PROVE Unplanned(out.obj) /\ (job' = Idle \/ Abreast(job', out.obj))
    <3>1. out.obj \in SuiteRecs /\ Unplanned(out.obj) /\ Exists(out.obj)
      BY <1>14, <2>1, <2>3, <2>5
    <3>2. out.obj.phase = "Ready"
      <4>1. Suite.phase = "Ready"
        BY <1>2, <2>1, <2>5 DEF Abreast, Quiet
      <4> QED
        BY <1>2, <2>1, <2>3, <2>5, <4>1, PatchFollows
    <3> QED
      BY <1>12, <2>1, <2>2, <2>5, <3>1, <3>2
  <2> QED
    BY <1>5, <2>1, <2>2, <2>3, <2>4, <2>5
<1>19. CASE SetNextRun \/ NextRunMissed
  <2> DEFINE next == NextTime(job.when, now)
             new == [job.suite EXCEPT !.nextRun = next]
  <2>1. job.step \in {"setNext", "due"} /\ job.when # 0
    BY <1>2, <1>19 DEF SetNextRun, NextRunMissed, Goes
  <2>2. next \in Int
    <3>1. now \in Nat /\ job.when \in Schedules
      BY <1>2, <2>1, Bounds DEF Shape, Goes, Jobs
    <3> QED
      BY <2>1, <3>1, NextTimeType
  <2>3. PICK out \in PatchAnswers(new) :
          /\ suiteFeed' = Publish(suiteFeed, out.obj)
          /\ job' = Idle \/ job' = [Triggered(out.obj, job.runs) EXCEPT !.when = job.when]
    BY <1>19 DEF SetNextRun, NextRunMissed, PatchSuite, Return
  <2> HIDE DEF next
  <2>4. new \in SuiteRecs /\ new.phase = job.suite.phase
    <3>1. new \in SuiteRecs
      BY <1>2, <2>1, <2>2, SuiteChanges
    <3> QED
      BY <1>2, <2>1, <3>1 DEF SuiteRecs
  <2> HIDE DEF new
  <2>5. job' = Idle \/ Tells(job')
    BY <2>1, <2>3, TellsNext
  <2>6. ASSUME Exists(Suite) PROVE Unplanned(out.obj) /\ (job' = Idle \/ Abreast(job', out.obj))
    <3>1. Suite.phase = "Ready"
      BY <1>2, <2>1, <2>6 DEF Abreast, Quiet
    <3>2. out.obj \in SuiteRecs /\ out.obj.phase = "Ready"
      BY <1>2, <2>1, <2>4, <2>6, <3>1, PatchFollows
    <3>3. Unplanned(out.obj) /\ Exists(out.obj)
      BY <3>2 DEF Unplanned, Exists
    <3> QED
      BY <1>12, <2>1, <2>3, <2>6, <3>2, <3>3
  <2> QED
    BY <1>5, <2>1, <2>3, <2>4, <2>5, <2>6
<1>20. CASE SetRunning \/ FinishRun
  <2>1. job.step # "idle"
    BY <1>20 DEF SetRunning, FinishRun
  <2>2. PICK x \in {"Running", "Ready"} : \E out \in PatchAnswers([job.suite EXCEPT !.phase = x, !.current = None]) :
          /\ suiteFeed' = Publish(suiteFeed, out.obj)
          /\ job' = Idle \/ job' = At("done", out.obj, job.runs, {})
    BY <1>20 DEF SetRunning, FinishRun, PatchSuite, Return
  <2> DEFINE new == [job.suite EXCEPT !.phase = x, !.current = None]
  <2>3. new \in SuiteRecs /\ new.nextRun = job.suite.nextRun /\ new.phase = x
    <3>1. new \in SuiteRecs
      BY <1>2, <2>1, <2>2, SuiteChanges
    <3>2. new.nextRun = job.suite.nextRun /\ new.phase = x
      BY <1>2, <2>1, <2>2 DEF SuiteRecs
    <3> QED
      BY <3>1, <3>2
  <2>4. PICK out \in PatchAnswers(new) :
          /\ suiteFeed' = Publish(suiteFeed, out.obj)
          /\ job' = Idle \/ job' = At("done", out.obj, job.runs, {})
    BY <2>2
  <2> HIDE DEF new
  <2>5. job' = Idle \/ Tells(job')
    <3>1. Tells(At("done", out.obj, job.runs, {}))
      BY TellsNext
    <3> QED
      BY <2>4, <3>1
  <2>6. ASSUME Exists(Suite) PROVE Unplanned(out.obj) /\ (job' = Idle \/ Abreast(job', out.obj))
    <3>1. out.obj \in SuiteRecs /\ Unplanned(out.obj) /\ Exists(out.obj)
      BY <1>14, <2>1, <2>2, <2>3, <2>4, <2>6
    <3> QED
      BY <1>12, <2>1, <2>4, <2>6, <3>1
  <2> QED
    BY <1>5, <2>1, <2>3, <2>4, <2>5, <2>6
<1> QED
  BY <1>6, <1>7, <1>8, <1>9, <1>10, <1>11, <1>13, <1>15, <1>16, <1>17, <1>18, <1>19, <1>20 DEF Controller

\* What the reconcile follows nobody else touches.
LEMMA BystanderAbreast ==
  ASSUME Shape, AllAbreast, \/ SuiteEvent \/ RunEvent \/ WakeUp \/ Tick \/ Restart \/ Cluster \/ UNCHANGED vars
  PROVE  AllAbreast'
<1>1. Suite \in SuiteRecs /\ suiteFeed # <<>> /\ suiteFeed \in Seq(SuiteRecs)
  BY ShapeFacts DEF Shape
<1>2. ASSUME Exists(Suite') => Exists(Suite) /\ Same(Suite', Suite), job' \in {job, Idle} PROVE AllAbreast'
  <2>1. ASSUME Exists(Suite') PROVE Unplanned(Suite')
    BY <1>2, <2>1 DEF AllAbreast, Unplanned, Same
  <2>2. ASSUME Working' PROVE Tells(job') /\ (Exists(Suite') => Abreast(job', Suite'))
    <3>1. job' = job /\ Working
      BY <1>2, <2>2 DEF Working, Idle
    <3>2. Tells(job) /\ (Exists(Suite') => Same(Suite', Suite) /\ Abreast(job, Suite))
      BY <1>2, <3>1 DEF AllAbreast
    <3>3. Exists(Suite') => Abreast(job, Suite')
      BY <3>2 DEF Abreast, Same, Follows, Exact
    <3> QED
      BY <3>1, <3>2, <3>3
  <2> QED
    BY <2>1, <2>2 DEF AllAbreast
<1>3. CASE SuiteEvent
  <2>1. Suite' = Suite
    BY <1>1, <1>3, EventStates DEF SuiteEvent, Suite
  <2> QED
    BY <1>2, <1>3, <2>1 DEF SuiteEvent, Same
<1>4. CASE RunEvent \/ WakeUp \/ Tick \/ UNCHANGED vars
  BY <1>2, <1>4 DEF RunEvent, WakeUp, Tick, vars, Suite, Same
<1>5. CASE Restart
  <2>1. Suite' = Suite
    BY <1>1, <1>5, RestartStates DEF Restart, Suite
  <2> QED
    BY <1>2, <1>5, <2>1 DEF Restart, Same
<1>6. CASE Cluster
  <2>1. CASE UNCHANGED <<suiteFeed, job>>
    BY <1>2, <2>1 DEF Suite, Same
  <2>2. CASE (\E x \in SuiteRecs : ClusterSuite(x) /\ suiteFeed' = Publish(suiteFeed, x)) /\ job' = job
    <3>1. PICK x \in SuiteRecs : ClusterSuite(x) /\ suiteFeed' = Publish(suiteFeed, x)
      BY <2>2
    <3>2. Exists(x) => Exists(Suite) /\ Same(x, Suite)
      <4> DEFINE deleted == Deleted(Suite)
      <4>1. deleted \in SuiteRecs /\ Same(deleted, Suite)
        <5>1. deleted \in SuiteRecs
          BY <1>1, SuiteTypes
        <5> QED
          BY <1>1, <5>1 DEF Deleted, Same, SuiteRecs
      <4> HIDE DEF deleted
      <4>2. Exists(Reaped(deleted)) => Same(Reaped(deleted), deleted)
        BY <4>1 DEF Reaped, Exists, Same, SuiteRecs
      <4>3. /\ Same([Suite EXCEPT !.needsRun = TRUE], Suite)
            /\ \A sched : Same([Suite EXCEPT !.sched = sched], Suite)
        BY <1>1 DEF SuiteRecs, Same
      <4> QED
        BY <3>1, <4>1, <4>2, <4>3 DEF ClusterSuite, Same, Exists, deleted
    <3>3. Suite' = x
      BY <3>1, SuiteWritten
    <3> QED
      BY <1>2, <2>2, <3>2, <3>3
  <2> QED
    BY <1>6, <2>1, <2>2, ClusterWrites
<1> QED
  BY <1>3, <1>4, <1>5, <1>6

\* The invariant of the next run and its schedule.
LEMMA AbreastInvariant ==
  ASSUME MaxLag = 0
  PROVE  Spec => [](Shape /\ AllAbreast)
<1>1. Init => Shape /\ AllAbreast
  <2> SUFFICES ASSUME Init PROVE AllAbreast
    BY InitShape
  <2>1. PICK sched \in Schedules : suiteFeed = <<NewSuite(sched)>>
    BY DEF Init
  <2>2. Suite = NewSuite(sched)
    BY <2>1 DEF Suite, Stored
  <2>3. Unplanned(Suite)
    BY <2>2 DEF Unplanned, NewSuite
  <2>4. ~Working
    BY DEF Init, Working, Idle
  <2> QED
    BY <2>3, <2>4 DEF AllAbreast
<1>2. ASSUME Shape, AllAbreast, [Next]_vars PROVE Shape' /\ AllAbreast'
  BY <1>2, NextShape, ControllerAbreast, BystanderAbreast DEF Next
<1> QED
  BY <1>1, <1>2, PTL DEF Spec

(***************************************************************************)
(* With current caches a reconcile that comes to a next run has a schedule *)
(* for it, whatever calls fail and whenever the schedule is edited or      *)
(* removed: the manager does not die of the nil schedule (notRunning).     *)
(***************************************************************************)
THEOREM AlwaysScheduleKnown ==
  ASSUME MaxLag = 0
  PROVE  Spec => []ScheduleKnown
<1>1. Shape /\ AllAbreast => ScheduleKnown
  BY StepWorks DEF AllAbreast, Tells, ScheduleKnown
<1>2. Spec => [](Shape /\ AllAbreast)
  BY AbreastInvariant
<1> QED
  BY <1>1, <1>2, PTL
=============================================================================

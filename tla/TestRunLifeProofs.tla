------------------------- MODULE TestRunLifeProofs --------------------------
(***************************************************************************)
(* What the TestRun controller promises when every reconcile starts with   *)
(* current caches (MaxLag = 0): the order of deletions, the life a reader  *)
(* of the status sees, one Test per template, no index out of range, and a *)
(* verdict that covers every template.  Each theorem assumes of the        *)
(* cluster no more than its proof needs.                                   *)
(***************************************************************************)
EXTENDS TestRunControllerProofs

-----------------------------------------------------------------------------
(***************************************************************************)
(* What each action does to the stored run, to the stored Tests and to the *)
(* reconcile.                                                              *)
(***************************************************************************)

\* A reconcile that starts with current caches.
LEMMA Reads ==
  ASSUME TypeOK, MaxLag = 0, Reconcile
  PROVE  /\ ~Working /\ Run' = Run /\ Tests' = Tests
         /\ \/ job' = Idle
            \/ /\ job' = At("finalizer", Run, Tests, {}) /\ Exists(Run)
               /\ ~IsFinal(Run.phase) /\ ~Run.del
            \/ /\ job' = Handle(Run, Tests) /\ Exists(Run)
               /\ IsFinal(Run.phase) \/ Run.del \/ RunFin \in Run.fins
<1>1. Len(runFeed) \in Nat \ {0} /\ Len(testFeed) \in Nat \ {0}
  BY FeedStates DEF TypeOK
<1>2. Len(runFeed) <= 1 /\ Len(testFeed) <= 1 /\ UNCHANGED <<runFeed, testFeed>> /\ ~Working
  BY DEF Reconcile
<1>3. Fresh(runFeed) /\ Fresh(testFeed)
  BY <1>1, <1>2 DEF Fresh
<1>4. Cached(runFeed) = Run /\ Cached(testFeed) = Tests
  BY <1>3, FreshStates DEF TypeOK, Run, Tests
<1>5. Run' = Run /\ Tests' = Tests
  BY <1>2 DEF Run, Tests
<1>6. job' = IF ~Exists(Run) THEN Idle
             ELSE IF ~IsFinal(Run.phase) /\ ~Run.del /\ RunFin \notin Run.fins
               THEN At("finalizer", Run, Tests, {})
             ELSE Handle(Run, Tests)
  BY <1>4 DEF Reconcile
<1> QED
  BY <1>2, <1>5, <1>6

\* What a write to the run that is not about its status keeps of it.
LEMMA FinsWritten ==
  ASSUME NEW run \in Runs, NEW fins
  PROVE  LET new == Reaped(WithFins(run, fins))
         IN  /\ new.n = run.n /\ new.del = run.del /\ new.policy = run.policy /\ new.results = run.results
             /\ new.phase = run.phase \/ (Exists(run) /\ new.phase = "Gone" /\ run.del /\ fins = {})
             /\ Exists(run) => new.fins = fins
             /\ ~Exists(run) => new = run
  BY Shapes DEF Reaped, WithFins

\* The two patches a reconcile makes on its way.
LEMMA Prepares ==
  ASSUME TypeOK, EnsureFinalizer \/ SetStarting
  PROVE  /\ Working /\ job.step \in {"finalizer", "starting"} /\ Tests' = Tests
         /\ Run'.n = Run.n /\ Run'.del = Run.del /\ Run'.policy = Run.policy /\ Run'.results = Run.results
         /\ Run'.phase = Run.phase \/ (Exists(Run) /\ job.step = "starting" /\ Run'.phase = "Starting")
         /\ RunFin \in Run.fins => RunFin \in Run'.fins
         /\ Run'.fins \subseteq Run.fins \cup job.run.fins \cup {RunFin}
         /\ \/ job' = Idle
            \/ /\ job' = Handle(Run', job.tests) /\ Exists(Run)
               /\ job.step = "finalizer" => RunFin \in Run'.fins
<1>b. Run \in Runs
  BY TypeFacts
<1>1. CASE EnsureFinalizer
  <2>1. PICK out \in Answers(addFinalizer(job.run, Run, RunFin, "Resource")) :
          /\ runFeed' = Publish(runFeed, out.obj)
          /\ IF out.res = "OK" THEN job' = Handle(out.obj, job.tests) ELSE Return(out.res # "NotFound")
    BY <1>1 DEF EnsureFinalizer
  <2>2. job.step = "finalizer" /\ UNCHANGED testFeed /\ Working
    BY <1>1 DEF EnsureFinalizer, Working
  <2>3. out.obj \in Runs
    BY <2>2, AnswersAre, RunCalls
  <2>4. Run' = out.obj /\ Tests' = Tests
    BY <2>1, <2>2, <2>3, TypeFacts DEF Tests
  <2> DEFINE new == Reaped(WithFins(Run, job.run.fins \cup {RunFin}))
  <2>5. /\ out.obj \in {Run, new}
        /\ out.res = "OK" => Exists(Run) /\ out.obj = new
    BY AnswersAre, FinOutcomes DEF addFinalizer
  <2>6. /\ new.n = Run.n /\ new.del = Run.del /\ new.policy = Run.policy /\ new.results = Run.results
        /\ new.phase = Run.phase
        /\ Exists(Run) => new.fins = job.run.fins \cup {RunFin}
        /\ ~Exists(Run) => new = Run
    BY <1>b, FinsWritten
  <2>7. job' = Idle \/ (out.res = "OK" /\ job' = Handle(out.obj, job.tests))
    BY <2>1 DEF Return
  <2> HIDE DEF new
  <2> QED
    BY <2>2, <2>4, <2>5, <2>6, <2>7
<1>2. CASE SetStarting
  <2>1. PICK out \in Answers(Patch(Run, WithStatus(Run, job.run, "Starting", job.run.results))) :
          /\ runFeed' = Publish(runFeed, out.obj)
          /\ IF out.res = "OK" THEN job' = Handle(out.obj, job.tests) ELSE Return(out.res # "NotFound")
    BY <1>2 DEF SetStarting
  <2>2. job.step = "starting" /\ UNCHANGED testFeed /\ Working
    BY <1>2 DEF SetStarting, Working
  <2>3. job.run.results \in SUBSET ResultRecs /\ "Starting" \in RunPhases
    BY <2>2, TypeFacts, Shapes, Phases
  <2>4. out.obj \in Runs
    BY <2>2, <2>3, AnswersAre, RunCalls
  <2>5. Run' = out.obj /\ Tests' = Tests
    BY <2>1, <2>2, <2>4, TypeFacts DEF Tests
  <2> DEFINE new == WithStatus(Run, job.run, "Starting", job.run.results)
  <2>6. /\ out.obj \in {Run, new}
        /\ out.res = "OK" => Exists(Run) /\ out.obj = new
    BY AnswersAre, PatchOutcomes
  <2>7. /\ new.n = Run.n /\ new.del = Run.del /\ new.policy = Run.policy /\ new.results = Run.results
        /\ new.phase = Run.phase \/ (Exists(Run) /\ new.phase = "Starting")
        /\ new.fins = Run.fins
    BY <1>b, Shapes DEF WithStatus
  <2>8. job' = Idle \/ (out.res = "OK" /\ job' = Handle(out.obj, job.tests))
    BY <2>1 DEF Return
  <2> HIDE DEF new
  <2> QED
    BY <2>2, <2>5, <2>6, <2>7, <2>8
<1> QED
  BY <1>1, <1>2

\* The deletions of Tests, of a whole list or of the misnamed ones.
LEMMA Cleans ==
  ASSUME TypeOK, NEW t \in Names, CleanUpTest(t) \/ CleanUpMisnamed(t)
  PROVE  /\ Working /\ job.step \in {"delete", "retain", "map"} /\ t \in job.todo /\ Run' = Run
         /\ \E test \in {Tests[t], Reaped(Deleted(Tests[t]))} : Tests' = [Tests EXCEPT ![t] = test]
         /\ \/ job' = Idle
            \/ /\ job'.step = job.step /\ job'.run = job.run /\ job'.tests = job.tests
               /\ job'.todo = job.todo \ {t} /\ job'.missing = job.missing
<1>1. PICK out \in Answers(cleanUp(job.tests[t], Tests[t], RunFin, "Resource")) :
        /\ PublishTest(t, out.obj)
        /\ \/ job' = [job EXCEPT !.todo = @ \ {t}, !.err = @ \/ out.res # "OK"]
           \/ job' = [job EXCEPT !.todo = @ \ {t}]
           \/ Return(TRUE)
  BY DEF CleanUpTest, CleanUpMisnamed
<1>2. job.step \in {"delete", "retain", "map"} /\ t \in job.todo /\ UNCHANGED runFeed /\ Working
  BY DEF CleanUpTest, CleanUpMisnamed, Working
<1>3. out.obj \in TestRecs /\ out.obj \in {Tests[t], Reaped(Deleted(Tests[t]))}
  BY <1>2, AnswersAre, TestCalls
<1>4. Tests' = [Tests EXCEPT ![t] = out.obj] /\ Run' = Run
  BY <1>1, <1>2, <1>3, TypeFacts DEF Run
<1>5. \/ job' = Idle
      \/ /\ job'.step = job.step /\ job'.run = job.run /\ job'.tests = job.tests
         /\ job'.todo = job.todo \ {t} /\ job'.missing = job.missing
  <2>1. job \in Jobs
    BY <1>2, TypeFacts
  <2> QED
    BY <1>1, <2>1 DEF Return, Jobs
<1> QED
  BY <1>2, <1>3, <1>4, <1>5

\* The ends of a reconcile that write nothing, and the watches.
LEMMA Rests ==
  ASSUME CleanedUp \/ CreateTestFails \/ Panic \/ RunEvent \/ TestEvent \/ Restart \/ UNCHANGED vars, TypeOK
  PROVE  Run' = Run /\ Tests' = Tests /\ (job' = Idle \/ job' = job)
<1>1. CASE CleanedUp \/ CreateTestFails \/ UNCHANGED vars
  BY <1>1 DEF CleanedUp, CreateTestFails, Return, vars, Run, Tests
<1>2. CASE Panic \/ Restart
  <2>1. runFeed' = <<Run>> /\ testFeed' = <<Tests>> /\ job' = Idle
    BY <1>2 DEF Panic, Restart
  <2> QED
    BY <2>1, RestartStates DEF Run, Tests
<1>3. CASE RunEvent \/ TestEvent
  BY <1>3, EventStates DEF RunEvent, TestEvent, TypeOK, Run, Tests
<1> QED
  BY <1>1, <1>2, <1>3

\* The end of a deleted run.
LEMMA Releases ==
  ASSUME TypeOK, ReleaseRun
  PROVE  /\ Working /\ job.step = "release" /\ Tests' = Tests /\ job' = Idle
         /\ Run'.n = Run.n /\ Run'.del = Run.del /\ Run'.policy = Run.policy /\ Run'.results = Run.results
         /\ Run'.phase = Run.phase \/ (Exists(Run) /\ Run'.phase = "Gone" /\ Run.del)
         /\ Run'.fins \subseteq Run.fins \cup job.run.fins
<1>b. Run \in Runs
  BY TypeFacts
<1>1. job.step = "release" /\ UNCHANGED testFeed /\ job' = Idle /\ Working
  BY DEF ReleaseRun, Return, Working
<1>2. CASE UNCHANGED runFeed
  BY <1>1, <1>2 DEF Run, Tests
<1>3. CASE ~UNCHANGED runFeed
  <2>1. PICK out \in Answers(removeFinalizer(job.run, Run, RunFin, "Resource")) : runFeed' = Publish(runFeed, out.obj)
    BY <1>3 DEF ReleaseRun
  <2>2. out.obj \in Runs
    BY <1>1, <2>1, AnswersAre, RunCalls
  <2>3. Run' = out.obj /\ Tests' = Tests
    BY <1>1, <2>1, <2>2, TypeFacts DEF Tests
  <2>4. out.obj \in {Run, Reaped(WithFins(Run, job.run.fins \ {RunFin}))}
    BY AnswersAre, FinOutcomes DEF removeFinalizer
  <2> QED
    BY <1>b, <1>1, <2>3, <2>4, FinsWritten
<1> QED
  BY <1>2, <1>3

\* The mapping of Tests to templates.
LEMMA Maps ==
  ASSUME TypeOK, MapTests
  PROVE  /\ Working /\ job.step = "map" /\ job.todo = {} /\ Run' = Run /\ Tests' = Tests
         /\ job'.step = "ensure" /\ job'.run = job.run /\ job'.tests = job.tests /\ job'.todo = job.todo
         /\ job'.missing = 0..(job.run.n - 1) \ Digits
<1>1. /\ job.step = "map" /\ job.todo = {} /\ UNCHANGED <<runFeed, testFeed>> /\ Working
      /\ job' = [job EXCEPT !.step = "ensure", !.missing = 0..(job.run.n - 1) \ Digits]
  BY DEF MapTests, Working
<1>2. job \in Jobs
  BY <1>1, TypeFacts
<1> QED
  BY <1>1, <1>2 DEF Run, Tests, Jobs

\* The creation of a Test.
LEMMA Creates ==
  ASSUME TypeOK, CreateTest
  PROVE  /\ Working /\ job.step = "ensure" /\ Run' = Run
         /\ \E i \in job.missing, t \in Names :
              /\ \A k \in job.missing : i <= k
              /\ Tests[t].phase = "Unborn" /\ Tests' = [Tests EXCEPT ![t] = NewTest(i)]
              /\ \/ job' = Idle
                 \/ /\ job'.step = "ensure" /\ job'.run = job.run /\ job'.tests = job.tests
                    /\ job'.todo = job.todo /\ job'.missing = job.missing \ {i}
<1>1. job.step = "ensure" /\ Working /\ UNCHANGED runFeed
  BY DEF CreateTest, Working
<1>2. PICK i \in job.missing, t \in Names :
        /\ \A k \in job.missing : i <= k
        /\ Tests[t].phase = "Unborn" /\ PublishTest(t, NewTest(i))
        /\ job' = [job EXCEPT !.missing = @ \ {i}] \/ Return(TRUE)
  BY DEF CreateTest
<1>3. NewTest(i) \in TestRecs
  BY <1>1, TypeFacts, NewTestShape
<1>4. Tests' = [Tests EXCEPT ![t] = NewTest(i)] /\ Run' = Run
  BY <1>1, <1>2, <1>3, TypeFacts DEF Run
<1>5. \/ job' = Idle
      \/ /\ job'.step = "ensure" /\ job'.run = job.run /\ job'.tests = job.tests
         /\ job'.todo = job.todo /\ job'.missing = job.missing \ {i}
  <2>1. job \in Jobs
    BY <1>1, TypeFacts
  <2> QED
    BY <1>1, <1>2, <2>1 DEF Return, Jobs
<1> QED
  BY <1>1, <1>2, <1>4, <1>5

\* The status a reconcile ends with.
LEMMA Updates ==
  ASSUME TypeOK, Mapped, UpdateStatus
  PROVE  /\ Working /\ job.step = "ensure" /\ Tests' = Tests /\ job' = Idle
         /\ Run'.n = Run.n /\ Run'.del = Run.del /\ Run'.policy = Run.policy /\ Run'.fins = Run.fins
         /\ \/ Run' = Run
            \/ /\ Exists(Run) /\ ~OutOfRange
               /\ \E items \in Bijection(0..(Cardinality(Live(job.tests)) - 1), Live(job.tests)) :
                    /\ Run' = WithStatus(Run, job.run, PhaseOf(ResultsOf(items)), ResultsOf(items))
                    /\ PhaseOf(ResultsOf(items)) \in {"Running", "Passed", "Failed"}
<1>b. Run \in Runs
  BY TypeFacts
<1>1. job.step = "ensure" /\ UNCHANGED testFeed /\ ~OutOfRange /\ Working /\ job' = Idle
  BY DEF UpdateStatus, Mapped, Working, Return
<1>2. PICK items \in Bijection(0..(Cardinality(Live(job.tests)) - 1), Live(job.tests)) :
        \E out \in Answers(Patch(Run, WithStatus(Run, job.run, PhaseOf(ResultsOf(items)), ResultsOf(items)))) :
          runFeed' = Publish(runFeed, out.obj)
  BY DEF UpdateStatus
<1> DEFINE results == ResultsOf(items)
           phase   == PhaseOf(results)
           new     == WithStatus(Run, job.run, phase, results)
<1>3. results \in SUBSET ResultRecs /\ phase \in RunPhases /\ phase \in {"Running", "Passed", "Failed"}
  BY <1>1, StatusType, Phases
<1>4. PICK out \in Answers(Patch(Run, new)) : runFeed' = Publish(runFeed, out.obj)
  BY <1>2
<1>5. out.obj \in Runs
  <2> HIDE DEF phase, results
  <2> QED
    BY <1>1, <1>3, <1>4, AnswersAre, RunCalls
<1>6. Run' = out.obj /\ Tests' = Tests
  <2> HIDE DEF new
  <2> QED
    BY <1>1, <1>4, <1>5, TypeFacts DEF Tests
<1>7. out.obj \in {Run, new}
  <2> HIDE DEF new
  <2> QED
    BY AnswersAre, PatchOutcomes
<1>8. new.n = Run.n /\ new.del = Run.del /\ new.policy = Run.policy /\ new.fins = Run.fins
  <2> HIDE DEF phase, results
  <2> QED
    BY <1>b, Shapes DEF WithStatus
<1>9. ~Exists(Run) => new = Run
  BY DEF WithStatus
<1> QED
  BY <1>1, <1>3, <1>6, <1>7, <1>8, <1>9

\* What others do to the Tests and to the run.
LEMMA Elsewhere ==
  ASSUME TypeOK, Cluster
  PROVE  /\ job' = job
         /\ \/ /\ Run' = Run
               /\ \E t \in Names, test \in TestRecs :
                    /\ Exists(Tests[t]) /\ Tests' = [Tests EXCEPT ![t] = test]
                    /\ test.idx = Tests[t].idx /\ test.phase # "Unborn"
                    /\ Tests[t].del => test.del
                    /\ Tests[t].del \/ (Exists(test) /\ ~test.del) \/ deletions < MaxDeletions \/ ~Exists(Run)
            \/ /\ Tests' = Tests /\ Exists(Run)
               /\ Run'.n <= Run.n /\ (Run'.n = Run.n \/ edits < MaxEdits)
               /\ Run'.policy = Run.policy /\ Run'.results = Run.results
               /\ Run.del => Run'.del
               /\ SuiteFin \in Run'.fins => SuiteFin \in Run.fins
               /\ (RunFin \in Run'.fins <=> RunFin \in Run.fins) \/ (Run.del /\ SuiteFin \in Run.fins)
               /\ \/ Run'.phase = Run.phase
                  \/ Run'.phase = "Gone" /\ Run'.del /\ (RunFin \notin Run.fins \/ SuiteFin \in Run.fins)
<1>b. Run \in Runs /\ \A t \in Names : Tests[t] \in TestRecs
  BY TypeFacts
<1>c. job' = job
  BY ClusterWrites DEF Others
<1>1. CASE \E t \in Names : TestDecided(t, "Passed") \/ TestDecided(t, "Failed")
  <2>1. PICK t \in Names, phase \in {"Passed", "Failed"} : TestDecided(t, phase)
    BY <1>1
  <2> DEFINE test == [Tests[t] EXCEPT !.phase = phase]
  <2>2. PublishTest(t, test) /\ UNCHANGED runFeed /\ Exists(Tests[t])
    BY <2>1, Zenon DEF TestDecided
  <2>3. test \in TestRecs
    BY <1>b, TestTypes
  <2>4. test.idx = Tests[t].idx /\ test.phase # "Unborn" /\ test.del = Tests[t].del /\ Exists(test)
    BY <1>b DEF TestRecs, Exists
  <2> HIDE DEF test
  <2>5. Tests' = [Tests EXCEPT ![t] = test] /\ Run' = Run
    BY <2>2, <2>3, TypeFacts DEF Run
  <2> QED
    BY <1>c, <2>2, <2>3, <2>4, <2>5
<1>2. CASE \E t \in Names : TestReleased(t) \/ TestDeleted(t) \/ TestOrphaned(t)
  <2>1. PICK t \in Names : TestReleased(t) \/ TestDeleted(t) \/ TestOrphaned(t)
    BY <1>2
  <2>2. PICK test \in {Reaped(WithFins(Tests[t], Tests[t].fins \ {TestFin})), Reaped(Deleted(Tests[t]))} :
          PublishTest(t, test) /\ UNCHANGED runFeed
    BY <2>1 DEF TestReleased, TestDeleted, TestOrphaned
  <2>3. test \in TestRecs
    BY <1>b, <2>2, TestTypes
  <2>4. test.idx = Tests[t].idx /\ (Tests[t].phase # "Unborn" => test.phase # "Unborn") /\ (Tests[t].del => test.del)
    BY <1>b, <2>2 DEF TestRecs, Reaped, WithFins, Deleted
  <2>5. Exists(Tests[t]) /\ (Tests[t].del \/ deletions < MaxDeletions \/ ~Exists(Run))
    BY <2>1 DEF TestReleased, TestDeleted, TestOrphaned, Live, Listed
  <2>6. Tests' = [Tests EXCEPT ![t] = test] /\ Run' = Run
    BY <2>2, <2>3, TypeFacts DEF Run
  <2>7. test.phase # "Unborn"
    BY <2>4, <2>5 DEF Exists
  <2> QED
    BY <1>c, <2>3, <2>4, <2>5, <2>6, <2>7
<1>3. CASE RunDeleted \/ SuiteReleases \/ RunEdited
  <2>1. PICK run \in Runs : runFeed' = Publish(runFeed, run) /\ UNCHANGED testFeed /\ Exists(Run) /\
            \/ run = Reaped(Deleted(Run))
            \/ Run.del /\ SuiteFin \in Run.fins
                 /\ \E fins \in SUBSET Run.fins : run = Reaped(WithFins(Run, fins \ {SuiteFin}))
            \/ run = [Run EXCEPT !.n = @ - 1] /\ edits < MaxEdits
    <3>1. \A fins \in SUBSET Run.fins : fins \ {SuiteFin} \in RunFins
      BY <1>b, Shapes DEF RunFins
    <3>2. /\ Reaped(Deleted(Run)) \in Runs
          /\ \A fins \in SUBSET Run.fins : Reaped(WithFins(Run, fins \ {SuiteFin})) \in Runs
      BY <1>b, <3>1, RunTypes
    <3>3. RunEdited => [Run EXCEPT !.n = @ - 1] \in Runs
      BY <1>b, RunTypes DEF RunEdited
    <3>4. CASE RunDeleted
      BY <3>2, <3>4 DEF RunDeleted
    <3>5. CASE SuiteReleases
      BY <3>2, <3>5 DEF SuiteReleases
    <3>6. CASE RunEdited
      BY <3>3, <3>6, Zenon DEF RunEdited
    <3> QED
      BY <1>3, <3>4, <3>5, <3>6
  <2>2. Run' = run /\ Tests' = Tests
    BY <2>1, TypeFacts DEF Tests
  <2>3. CASE run = Reaped(Deleted(Run))
    <3>1. /\ run.n = Run.n /\ run.policy = Run.policy /\ run.results = Run.results /\ run.del
          /\ run.fins = Run.fins /\ (run.phase = Run.phase \/ (run.phase = "Gone" /\ Run.fins = {}))
      BY <1>b, <2>1, <2>3, Shapes DEF Reaped, Deleted
    <3>2. Run.n \in Nat
      BY <1>b, Shapes, ConstantsAssumption
    <3> QED
      BY <1>c, <2>1, <2>2, <3>1, <3>2
  <2>4. CASE /\ Run.del /\ SuiteFin \in Run.fins
             /\ \E fins \in SUBSET Run.fins : run = Reaped(WithFins(Run, fins \ {SuiteFin}))
    <3>1. /\ run.n = Run.n /\ run.policy = Run.policy /\ run.results = Run.results /\ run.del
          /\ run.phase = Run.phase \/ run.phase = "Gone"
      BY <1>b, <2>1, <2>4, FinsWritten
    <3>2. Run.n \in Nat
      BY <1>b, Shapes, ConstantsAssumption
    <3> QED
      BY <1>c, <2>1, <2>2, <2>4, <3>1, <3>2
  <2>5. CASE run = [Run EXCEPT !.n = @ - 1] /\ edits < MaxEdits
    <3>1. /\ run.n = Run.n - 1 /\ run.policy = Run.policy /\ run.results = Run.results /\ run.del = Run.del
          /\ run.fins = Run.fins /\ run.phase = Run.phase
      BY <1>b, <2>5, Shapes
    <3>2. Run.n \in Nat
      BY <1>b, Shapes, ConstantsAssumption
    <3> QED
      BY <1>c, <2>1, <2>2, <2>5, <3>1, <3>2
  <2> QED
    BY <2>1, <2>3, <2>4, <2>5
<1> QED
  BY <1>1, <1>2, <1>3 DEF Cluster

\* No action but CreateTest adds a Test, and none makes a Test of another template.
Lasting ==
  \A t \in Names : /\ Tests'[t].idx = Tests[t].idx
                   /\ Tests[t].phase # "Unborn" => Tests'[t].phase # "Unborn"
                   /\ Exists(Tests'[t]) => Exists(Tests[t])
                   /\ Tests[t].del => Tests'[t].del

\* Every step but the creation of a Test leaves a Test its index and its deletion.
LEMMA NoneAdded ==
  ASSUME TypeOK, Mapped, MaxLag = 0, [Next]_vars, Cluster \/ ~CreateTest
  PROVE  Lasting
<1>b. Tests \in TestSets /\ \A t \in Names : Tests[t] \in TestRecs
  BY TypeFacts
<1>1. ASSUME NEW t \in Names, NEW test, Tests' = [Tests EXCEPT ![t] = test],
             /\ test.idx = Tests[t].idx
             /\ Tests[t].phase # "Unborn" => test.phase # "Unborn"
             /\ Exists(test) => Exists(Tests[t])
             /\ Tests[t].del => test.del
      PROVE  Lasting
  BY <1>b, <1>1, Shapes DEF Lasting
<1>2. CASE Tests' = Tests
  BY <1>2 DEF Lasting
<1>3. CASE \E t \in Names : CleanUpTest(t) \/ CleanUpMisnamed(t)
  <2>1. PICK t \in Names : CleanUpTest(t) \/ CleanUpMisnamed(t)
    BY <1>3
  <2>2. PICK test \in {Tests[t], Reaped(Deleted(Tests[t]))} : Tests' = [Tests EXCEPT ![t] = test]
    BY <2>1, Cleans
  <2>3. /\ test.idx = Tests[t].idx
        /\ Tests[t].phase # "Unborn" => test.phase # "Unborn"
        /\ Exists(test) => Exists(Tests[t])
        /\ Tests[t].del => test.del
    BY <1>b, <2>2 DEF Reaped, Deleted, TestRecs, Exists
  <2> QED
    BY <1>1, <2>2, <2>3
<1>4. CASE Cluster
  BY <1>1, <1>2, <1>4, Elsewhere
<1> QED
  BY <1>2, <1>3, <1>4, Reads, Prepares, Rests, Releases, Maps, Updates DEF Next, Controller

\* What is listed, and what is live, is listed or live before.
LEMMA StillListed ==
  ASSUME Lasting
  PROVE  Listed(Tests)' \subseteq Listed(Tests) /\ Live(Tests)' \subseteq Live(Tests)
  BY DEF Lasting, Listed, Live

-----------------------------------------------------------------------------
(***************************************************************************)
(* What the controller promises when every reconcile starts with current   *)
(* caches (MaxLag = 0).  Nobody else writes a run's status, so its copy    *)
(* stays right: a reconcile that collects results works for a run that is  *)
(* not finished, and that keeps this controller's finalizer unless it is   *)
(* deleted, when the suite's patch may take it away.                       *)
(***************************************************************************)
OwnRun ==
  Working =>
    /\ Run.n <= job.run.n
    /\ job.run.del => Run.del
    /\ Exists(Run) => /\ job.run.phase = Run.phase /\ job.run.results = Run.results
                      /\ job.run.policy = Run.policy
    /\ job.step \in {"finalizer", "starting", "map", "ensure"} => ~IsFinal(job.run.phase)
    /\ job.step \in {"starting", "map", "ensure"} => Run.del \/ RunFin \in Run.fins
    /\ job.step \in {"delete", "release"} => job.run.del
    /\ job.step = "retain" => IsFinal(job.run.phase) /\ (job.todo # {} => Drops(job.run))

\* Until it creates Tests itself it knows of all there are.
OwnTests ==
  Working =>
    /\ job.step # "ensure" => Listed(Tests) \subseteq Listed(job.tests) /\ Live(Tests) \subseteq Live(job.tests)
    /\ job.step = "release" => Listed(job.tests) = {}
    /\ job.step = "map" => job.todo \subseteq Misnamed(job.run, job.tests)
    /\ \A t \in Listed(job.tests) : Tests[t].phase # "Unborn" /\ Tests[t].idx = job.tests[t].idx

\* A run that disappeared was deleted.
Held == ~Exists(Run) => Run.del

Owned == OwnRun /\ OwnTests /\ Held

\* What a reconcile is set to do for a run and a list of Tests.
LEMMA Handed ==
  ASSUME NEW run, NEW tests
  PROVE  /\ Handle(run, tests).run = run /\ Handle(run, tests).tests = tests
         /\ \/ Handle(run, tests).step = "starting" /\ Blank(run) /\ ~IsFinal(run.phase)
            \/ Handle(run, tests).step = "release" /\ run.del /\ Listed(tests) = {}
            \/ Handle(run, tests).step = "delete" /\ run.del
            \/ /\ Handle(run, tests).step = "retain" /\ IsFinal(run.phase) /\ ~run.del
               /\ Handle(run, tests).todo # {} => Drops(run)
            \/ /\ Handle(run, tests).step = "map" /\ ~run.del /\ ~IsFinal(run.phase)
               /\ Handle(run, tests).todo = Misnamed(run, tests)
<1>1. Blank(run) => ~IsFinal(run.phase)
  BY Zenon DEF Blank, IsFinal
<1> QED
  BY <1>1, HandleCases, HandleTests, AtShape

\* A reconcile with the server's run and a list that has all Tests.
LEMMA HandedOwned ==
  ASSUME Run' \in Runs, NEW tests, job' = Handle(Run', tests), Exists(Run'),
         IsFinal(Run'.phase) \/ Run'.del \/ RunFin \in Run'.fins,
         Listed(Tests') \subseteq Listed(tests) /\ Live(Tests') \subseteq Live(tests),
         \A t \in Listed(tests) : Tests'[t].phase # "Unborn" /\ Tests'[t].idx = tests[t].idx
  PROVE  OwnRun' /\ OwnTests'
<1>1. job'.run = Run' /\ job'.tests = tests /\ Run'.n <= Run'.n
  BY Handed, Shapes, ConstantsAssumption
<1>2. OwnRun'
  BY <1>1, Handed DEF OwnRun
<1>3. OwnTests'
  BY <1>1, Handed DEF OwnTests
<1> QED
  BY <1>2, <1>3

\* Between reconciles there are no copies to be right about.
LEMMA IdleOwned ==
  ASSUME job' = Idle
  PROVE  OwnRun' /\ OwnTests'
  BY DEF OwnRun, OwnTests, Working, Idle

\* The run and the Tests are as they were, as far as the reconcile cares.
LEMMA KeptOwned ==
  ASSUME TypeOK, Owned, Working, Run' = Run, Lasting,
         job'.step = job.step, job'.run = job.run, job'.tests = job.tests, job'.todo \subseteq job.todo
  PROVE  OwnRun' /\ OwnTests'
<1>1. OwnRun /\ OwnTests
  BY DEF Owned
<1>2. OwnRun'
  BY <1>1 DEF OwnRun, Working
<1>3. OwnTests'
  <2>1. Listed(Tests') \subseteq Listed(Tests) /\ Live(Tests') \subseteq Live(Tests)
    BY StillListed
  <2>2. \A t \in Listed(job.tests) : Tests'[t].phase # "Unborn" /\ Tests'[t].idx = job.tests[t].idx
    BY <1>1, ListedTypes DEF Lasting, OwnTests
  <2> QED
    BY <1>1, <2>1, <2>2 DEF OwnTests, Working
<1> QED
  BY <1>2, <1>3

\* Every step keeps the reconcile's copies right.
LEMMA NextOwned ==
  ASSUME TypeOK, Mapped, MaxLag = 0, Owned, [Next]_vars
  PROVE  Owned'
<1>b. Run \in Runs /\ Tests \in TestSets /\ \A t \in Names : Tests[t] \in TestRecs
  BY TypeFacts
<1>c. Run' \in Runs
  <2>1. runFeed' \in Seq(Runs) /\ runFeed' # <<>>
    BY NextTypeOK DEF TypeOK
  <2> QED
    BY <2>1, FeedStates DEF Run
<1>d. OwnRun /\ OwnTests /\ Held
  BY DEF Owned
<1>e. Run' = Run /\ Tests' = Tests => Held'
  BY <1>d DEF Held
<1>f. Lasting => (Run' = Run => Held')
  BY <1>d, StillListed DEF Held
<1>1. CASE Reconcile
  <2>1. /\ Run' = Run /\ Tests' = Tests
        /\ \/ job' = Idle
           \/ /\ job' = At("finalizer", Run, Tests, {}) /\ Exists(Run)
              /\ ~IsFinal(Run.phase) /\ ~Run.del
           \/ /\ job' = Handle(Run, Tests) /\ Exists(Run)
              /\ IsFinal(Run.phase) \/ Run.del \/ RunFin \in Run.fins
    BY <1>1, Reads
  <2>2. \A t \in Listed(Tests) : Tests[t].phase # "Unborn"
    BY DEF Listed, Exists
  <2>3. CASE job' = At("finalizer", Run, Tests, {}) /\ ~IsFinal(Run.phase)
    <3>1. job'.step = "finalizer" /\ job'.run = Run /\ job'.tests = Tests /\ Run.n <= Run.n
      BY <1>b, <2>3, AtShape, Shapes, ConstantsAssumption
    <3> QED
      BY <1>e, <2>1, <2>2, <2>3, <3>1 DEF OwnRun, OwnTests, Owned
  <2>4. CASE job' = Handle(Run, Tests) /\ Exists(Run) /\ (IsFinal(Run.phase) \/ Run.del \/ RunFin \in Run.fins)
    <3>1. OwnRun' /\ OwnTests'
      BY <1>c, <2>1, <2>2, <2>4, HandedOwned
    <3> QED
      BY <1>e, <2>1, <3>1 DEF Owned
  <2> QED
    BY <1>e, <2>1, <2>3, <2>4, IdleOwned DEF Owned
<1>2. CASE EnsureFinalizer \/ SetStarting
  <2>1. /\ Working /\ job.step \in {"finalizer", "starting"} /\ Tests' = Tests
        /\ Run'.n = Run.n /\ Run'.del = Run.del /\ Run'.policy = Run.policy /\ Run'.results = Run.results
        /\ Run'.phase = Run.phase \/ (Exists(Run) /\ job.step = "starting" /\ Run'.phase = "Starting")
        /\ RunFin \in Run.fins => RunFin \in Run'.fins
        /\ \/ job' = Idle
           \/ /\ job' = Handle(Run', job.tests) /\ Exists(Run)
              /\ job.step = "finalizer" => RunFin \in Run'.fins
    BY <1>2, Prepares
  <2>2. Exists(Run') <=> Exists(Run)
    BY <2>1 DEF Exists
  <2>3. Held'
    BY <1>d, <2>1, <2>2 DEF Held
  <2>4. CASE job' = Handle(Run', job.tests) /\ Exists(Run) /\ (job.step = "finalizer" => RunFin \in Run'.fins)
    <3>1. Run'.del \/ RunFin \in Run'.fins
      BY <1>d, <2>1, <2>4 DEF OwnRun
    <3>2. OwnRun' /\ OwnTests'
      BY <1>c, <1>d, <2>1, <2>2, <2>4, <3>1, HandedOwned DEF OwnTests
    <3> QED
      BY <2>3, <3>2 DEF Owned
  <2> QED
    BY <2>1, <2>3, <2>4, IdleOwned DEF Owned
<1>3. CASE \E t \in Names : CleanUpTest(t) \/ CleanUpMisnamed(t)
  <2>1. /\ Run' = Run /\ Working
        /\ \/ job' = Idle
           \/ /\ job'.step = job.step /\ job'.run = job.run /\ job'.tests = job.tests /\ job'.todo \subseteq job.todo
    BY <1>3, Cleans
  <2>2. Lasting
    BY <1>3, NoneAdded DEF CleanUpTest, CleanUpMisnamed, CreateTest
  <2> QED
    BY <1>f, <2>1, <2>2, IdleOwned, KeptOwned DEF Owned
<1>4. CASE CleanedUp \/ CreateTestFails \/ Panic \/ RunEvent \/ TestEvent \/ Restart \/ UNCHANGED vars
  <2>1. Run' = Run /\ Tests' = Tests /\ (job' = Idle \/ job' = job)
    BY <1>4, Rests
  <2>2. CASE job' = job
    BY <1>d, <2>1, <2>2 DEF Owned, OwnRun, OwnTests, Held, Working
  <2> QED
    BY <1>e, <2>1, <2>2, IdleOwned DEF Owned
<1>5. CASE ReleaseRun
  <2>1. /\ Working /\ job.step = "release" /\ Tests' = Tests /\ job' = Idle
        /\ Run'.del = Run.del /\ (Run'.phase = Run.phase \/ (Exists(Run) /\ Run'.phase = "Gone" /\ Run.del))
    BY <1>5, Releases
  <2>2. Held'
    BY <1>d, <2>1 DEF Held, Exists
  <2> QED
    BY <2>1, <2>2, IdleOwned DEF Owned
<1>6. CASE MapTests
  <2>1. /\ Working /\ job.step = "map" /\ job.todo = {} /\ Run' = Run /\ Tests' = Tests
        /\ job'.step = "ensure" /\ job'.run = job.run /\ job'.tests = job.tests /\ job'.todo = job.todo
    BY <1>6, Maps
  <2>2. OwnRun' /\ OwnTests'
    BY <1>d, <2>1 DEF OwnRun, OwnTests
  <2> QED
    BY <1>e, <2>1, <2>2 DEF Owned
<1>7. CASE CreateTest
  <2>1. Working /\ job.step = "ensure" /\ Run' = Run
    BY <1>7, Creates
  <2>2. PICK i \in job.missing, t \in Names :
              /\ Tests[t].phase = "Unborn" /\ Tests' = [Tests EXCEPT ![t] = NewTest(i)]
              /\ \/ job' = Idle
                 \/ /\ job'.step = "ensure" /\ job'.run = job.run /\ job'.tests = job.tests
    BY <1>7, Creates
  <2>3. Held'
    BY <1>d, <2>1 DEF Held
  <2>4. CASE job'.step = "ensure" /\ job'.run = job.run /\ job'.tests = job.tests
    <3>1. OwnRun'
      BY <1>d, <2>1, <2>4 DEF OwnRun
    <3>2. \A u \in Listed(job.tests) : u \in Names /\ u # t /\ Tests'[u] = Tests[u]
      BY <1>b, <1>d, <2>1, <2>2, ListedTypes, Shapes DEF OwnTests
    <3>3. OwnTests'
      BY <1>d, <2>1, <2>4, <3>2 DEF OwnTests
    <3> QED
      BY <2>3, <3>1, <3>3 DEF Owned
  <2> QED
    BY <2>2, <2>3, <2>4, IdleOwned DEF Owned
<1>8. CASE UpdateStatus
  <2>1. /\ Working /\ job.step = "ensure" /\ Tests' = Tests /\ job' = Idle
        /\ Run'.del = Run.del /\ Run'.fins = Run.fins
        /\ \/ Run' = Run
           \/ /\ Exists(Run)
              /\ \E phase \in {"Running", "Passed", "Failed"} : \E results :
                   Run' = WithStatus(Run, job.run, phase, results)
    BY <1>8, Updates
  <2>2. Run' = Run \/ Exists(Run')
    BY <1>b, <2>1, Shapes DEF WithStatus, Exists
  <2>3. Held'
    BY <1>d, <2>1, <2>2 DEF Held
  <2> QED
    BY <2>1, <2>3, IdleOwned DEF Owned
<1>9. CASE Cluster
  <2>1. job' = job
    BY <1>9, Elsewhere
  <2>2. Lasting
    BY <1>9, NoneAdded
  <2>3. CASE Run' = Run
    <3>1. Working => OwnRun' /\ OwnTests'
      BY <2>1, <2>2, <2>3, KeptOwned
    <3>2. ~Working => OwnRun' /\ OwnTests'
      BY <2>1 DEF OwnRun, OwnTests, Working
    <3> QED
      BY <1>f, <2>2, <2>3, <3>1, <3>2 DEF Owned
  <2>4. CASE /\ Tests' = Tests /\ Exists(Run)
             /\ Run'.n <= Run.n
             /\ Run'.policy = Run.policy /\ Run'.results = Run.results
             /\ Run.del => Run'.del
             /\ (RunFin \in Run'.fins <=> RunFin \in Run.fins) \/ Run.del
             /\ Run'.phase = Run.phase \/ (Run'.phase = "Gone" /\ Run'.del)
    <3>1. Held'
      BY <1>d, <2>4 DEF Held, Exists
    <3>2. Working => Run'.n <= job.run.n
      <4>1. Working => job.run \in Runs
        BY TypeFacts
      <4> QED
        BY <1>b, <1>c, <1>d, <2>4, <4>1, Shapes, ConstantsAssumption DEF OwnRun
    <3>3. OwnRun'
      BY <1>d, <2>1, <2>4, <3>2 DEF OwnRun, Working, Exists
    <3>4. OwnTests'
      BY <1>d, <2>1, <2>4 DEF OwnTests, Working
    <3> QED
      BY <3>1, <3>3, <3>4 DEF Owned
  <2> QED
    BY <1>9, <2>3, <2>4, Elsewhere
<1> QED
  BY <1>1, <1>2, <1>3, <1>4, <1>5, <1>6, <1>7, <1>8, <1>9 DEF Next, Controller

\* In the beginning there are no copies and no Tests.
LEMMA InitOwned == Init => Owned
<1> SUFFICES ASSUME Init PROVE Owned
  OBVIOUS
<1>1. PICK policy \in Policies, fins \in InitialFins : runFeed = <<NewRun(policy, fins)>>
  BY DEF Init
<1>2. Run = NewRun(policy, fins) /\ Exists(Run)
  BY <1>1, NewRunShape, RestartStates DEF Run
<1> QED
  BY <1>2 DEF Init, Owned, OwnRun, OwnTests, Held, Working, Idle

\* With current caches a reconcile works for the run it read.
LEMMA OwnedInvariant ==
  ASSUME MaxLag = 0
  PROVE  Spec => [](TypeOK /\ Mapped /\ Owned)
<1>1. TypeOK /\ Mapped /\ Owned /\ [Next]_vars => (TypeOK /\ Mapped /\ Owned)'
  BY NextTypeOK, NextOwned
<1> QED
  BY InitTypeOK, InitOwned, <1>1, PTL DEF Spec

-----------------------------------------------------------------------------
(***************************************************************************)
(* A run a user created, without the suite's finalizer: nobody but this    *)
(* controller writes its list of finalizers, so the run keeps this one     *)
(* while it has Tests.                                                     *)
(***************************************************************************)
Outlives ==
  /\ SuiteFin \notin Run.fins /\ (Working => SuiteFin \notin job.run.fins)
  /\ ~Exists(Run) \/ RunFin \notin Run.fins => Listed(Tests) = {}
  /\ job.step \in {"map", "ensure"} => Exists(Run) /\ RunFin \in Run.fins

\* A step that neither creates a Test nor touches the run or the reconcile's copy.
LEMMA KeptOutlives ==
  ASSUME Outlives, Lasting, Run' = Run,
         job' = Idle \/ (Working /\ job'.step = job.step /\ job'.run = job.run)
  PROVE  Outlives'
<1>1. Listed(Tests)' \subseteq Listed(Tests)
  BY StillListed
<1>2. Idle.step = "idle"
  BY DEF Idle
<1> QED
  BY <1>1, <1>2 DEF Outlives, Working

\* Every step keeps such a run's finalizer until a list without Tests was seen.
LEMMA NextOutlives ==
  ASSUME TypeOK, Mapped, MaxLag = 0, Owned, Outlives, [Next]_vars
  PROVE  Outlives'
<1>a. Idle.step = "idle" /\ RunFin # SuiteFin
  BY DEF Idle, RunFin, SuiteFin
<1>b. ~CreateTest => Lasting /\ Listed(Tests)' \subseteq Listed(Tests)
  BY NoneAdded, StillListed
<1>1. CASE Reconcile
  <2>1. /\ Run' = Run /\ Tests' = Tests
        /\ \/ job' = Idle
           \/ job' = At("finalizer", Run, Tests, {})
           \/ /\ job' = Handle(Run, Tests) /\ Exists(Run)
              /\ IsFinal(Run.phase) \/ Run.del \/ RunFin \in Run.fins
    BY <1>1, Reads
  <2>2. Working' => job'.run = Run
    BY <1>a, <2>1, Handed, AtShape DEF Working
  <2>3. job'.step \in {"map", "ensure"} => Exists(Run) /\ RunFin \in Run.fins
    BY <1>a, <2>1, Handed, AtShape
  <2> QED
    BY <2>1, <2>2, <2>3 DEF Outlives
<1>2. CASE EnsureFinalizer \/ SetStarting
  <2>1. /\ Working /\ job.step \in {"finalizer", "starting"} /\ Tests' = Tests /\ Run'.del = Run.del
        /\ Run'.phase = Run.phase \/ (Exists(Run) /\ Run'.phase = "Starting")
        /\ RunFin \in Run.fins => RunFin \in Run'.fins
        /\ Run'.fins \subseteq Run.fins \cup job.run.fins \cup {RunFin}
        /\ \/ job' = Idle
           \/ /\ job' = Handle(Run', job.tests) /\ Exists(Run)
              /\ job.step = "finalizer" => RunFin \in Run'.fins
    BY <1>2, Prepares
  <2>2. SuiteFin \notin Run'.fins /\ (Exists(Run') <=> Exists(Run))
    BY <1>a, <2>1 DEF Outlives, Exists
  <2>3. Working' => job'.run = Run'
    BY <1>a, <2>1, Handed DEF Working
  <2>4. job.step = "starting" => Run.del \/ RunFin \in Run.fins
    BY <2>1 DEF Owned, OwnRun
  <2>5. job'.step \in {"map", "ensure"} => Exists(Run') /\ RunFin \in Run'.fins
    BY <1>a, <2>1, <2>2, <2>4, Handed
  <2> QED
    BY <2>1, <2>2, <2>3, <2>5 DEF Outlives
<1>3. CASE ReleaseRun
  <2>1. /\ Working /\ job.step = "release" /\ Tests' = Tests /\ job' = Idle
        /\ Run'.fins \subseteq Run.fins \cup job.run.fins
    BY <1>3, Releases
  <2>2. Listed(Tests) = {}
    BY <2>1 DEF Owned, OwnTests
  <2> QED
    BY <1>a, <2>1, <2>2 DEF Outlives, Working
<1>4. CASE MapTests
  <2>1. /\ Working /\ job.step = "map" /\ Run' = Run /\ Tests' = Tests
        /\ job'.step = "ensure" /\ job'.run = job.run
    BY <1>4, Maps
  <2> QED
    BY <2>1 DEF Outlives
<1>5. CASE CreateTest
  <2>1. /\ Working /\ job.step = "ensure" /\ Run' = Run
        /\ job' = Idle \/ (job'.step = "ensure" /\ job'.run = job.run)
    BY <1>5, Creates
  <2> QED
    BY <1>a, <2>1 DEF Outlives, Working
<1>6. CASE UpdateStatus
  <2>1. /\ Working /\ job.step = "ensure" /\ Tests' = Tests /\ job' = Idle /\ Run'.fins = Run.fins
        /\ \/ Run' = Run
           \/ \E phase \in {"Running", "Passed", "Failed"} : \E results : Run' = WithStatus(Run, job.run, phase, results)
    BY <1>6, Updates
  <2>2. Exists(Run) /\ RunFin \in Run.fins /\ Run \in Runs
    BY <2>1, TypeFacts DEF Outlives
  <2>3. Exists(Run')
    BY <2>1, <2>2, Shapes DEF WithStatus, Exists
  <2> QED
    BY <1>a, <2>1, <2>2, <2>3 DEF Outlives, Working
<1>7. CASE \E t \in Names : CleanUpTest(t) \/ CleanUpMisnamed(t)
  <2>1. /\ Run' = Run /\ Working
        /\ job' = Idle \/ (job'.step = job.step /\ job'.run = job.run)
    BY <1>7, Cleans
  <2>2. ~CreateTest
    BY <1>7 DEF CleanUpTest, CleanUpMisnamed, CreateTest
  <2> QED
    BY <1>b, <2>1, <2>2, KeptOutlives
<1>8. CASE CleanedUp \/ CreateTestFails \/ Panic \/ RunEvent \/ TestEvent \/ Restart \/ UNCHANGED vars
  <2>1. Run' = Run /\ Tests' = Tests /\ (job' = Idle \/ job' = job)
    BY <1>8, Rests
  <2> QED
    BY <1>a, <2>1 DEF Outlives, Working
<1>9. CASE Cluster
  <2>1. job' = job
    BY <1>9, Elsewhere
  <2>2. Listed(Tests)' \subseteq Listed(Tests)
    BY <1>9, NoneAdded, StillListed
  <2>3. \/ Run' = Run
        \/ /\ Exists(Run)
           /\ SuiteFin \in Run'.fins => SuiteFin \in Run.fins
           /\ (RunFin \in Run'.fins <=> RunFin \in Run.fins) \/ SuiteFin \in Run.fins
           /\ \/ Run'.phase = Run.phase
              \/ Run'.phase = "Gone" /\ (RunFin \notin Run.fins \/ SuiteFin \in Run.fins)
    BY <1>9, Elsewhere
  <2>4. /\ SuiteFin \notin Run'.fins
        /\ Exists(Run) /\ RunFin \in Run.fins => Exists(Run') /\ RunFin \in Run'.fins
    BY <2>3 DEF Outlives, Exists
  <2> QED
    BY <2>1, <2>2, <2>4 DEF Outlives, Working
<1> QED
  BY <1>1, <1>2, <1>3, <1>4, <1>5, <1>6, <1>7, <1>8, <1>9 DEF Next, Controller

\* While reconciles start with current caches, a run without the suite's
\* finalizer outlives its Tests, for its own finalizer stays until Reconcile has
\* seen a list without any.
THEOREM TestsAlwaysFirst ==
  ASSUME MaxLag = 0, InitialFins \subseteq {{}}
  PROVE  Spec => []TestsFirst
<1>1. Init => Outlives
  <2> SUFFICES ASSUME Init PROVE Outlives
    OBVIOUS
  <2>1. PICK policy \in Policies, fins \in InitialFins : runFeed = <<NewRun(policy, fins)>>
    BY DEF Init
  <2>2. Run = NewRun(policy, fins) /\ fins = {}
    BY <2>1, RestartStates DEF Run
  <2>3. Tests = [t \in Names |-> NoTest]
    BY RestartStates DEF Init, Tests
  <2>4. Listed(Tests) = {}
    BY <2>3 DEF Listed, NoTest, Exists
  <2>5. Run.fins = {}
    BY <2>2, Zenon DEF NewRun
  <2> QED
    BY <2>4, <2>5 DEF Init, Outlives, Working, Idle
<1>2. TypeOK /\ Mapped /\ Owned /\ Outlives /\ [Next]_vars => Outlives'
  BY NextOutlives
<1>3. Outlives => TestsFirst
  BY DEF Outlives, TestsFirst
<1> QED
  BY OwnedInvariant, <1>1, <1>2, <1>3, PTL DEF Spec

-----------------------------------------------------------------------------
(***************************************************************************)
(* The refinement: what a reader of the run's status sees is a behaviour   *)
(* of module Lifecycle.                                                    *)
(***************************************************************************)
Seen(run) == IF ~Exists(run) THEN "Gone" ELSE IF IsFinal(run.phase) THEN run.phase ELSE "Undecided"

\* How one step may change the stored run.
LifeStep ==
  \/ Seen(Run') = Seen(Run) /\ Run'.del = Run.del
  \/ Seen(Run) = "Undecided" /\ Seen(Run') \in {"Passed", "Failed"} /\ Run'.del = Run.del
  \/ Seen(Run) # "Gone" /\ ~Run.del /\ Run'.del /\ Seen(Run') \in {Seen(Run), "Gone"}
  \/ Seen(Run) # "Gone" /\ Run.del /\ Run'.del /\ Seen(Run') = "Gone"

\* Every step is one of the life of a run, or leaves it alone.
LEMMA NextLife ==
  ASSUME TypeOK, Mapped, Owned, MaxLag = 0, [Next]_vars
  PROVE  LifeStep
<1>b. Run \in Runs /\ OwnRun
  BY TypeFacts DEF Owned
<1>1. CASE Run' = Run
  BY <1>1 DEF LifeStep
<1>2. CASE EnsureFinalizer \/ SetStarting
  <2>1. /\ Working /\ job.step \in {"finalizer", "starting"} /\ Run'.del = Run.del
        /\ Run'.phase = Run.phase \/ (Exists(Run) /\ Run'.phase = "Starting")
    BY <1>2, Prepares
  <2>2. Exists(Run) => ~IsFinal(Run.phase)
    BY <1>b, <2>1 DEF OwnRun
  <2> QED
    BY <2>1, <2>2 DEF LifeStep, Seen, Exists, IsFinal
<1>3. CASE ReleaseRun
  <2>1. /\ Run'.del = Run.del
        /\ Run'.phase = Run.phase \/ (Exists(Run) /\ Run'.phase = "Gone" /\ Run.del)
    BY <1>3, Releases
  <2> QED
    BY <2>1 DEF LifeStep, Seen, Exists, IsFinal
<1>4. CASE UpdateStatus
  <2>1. /\ Working /\ job.step = "ensure" /\ Run'.del = Run.del
        /\ \/ Run' = Run
           \/ /\ Exists(Run)
              /\ \E phase \in {"Running", "Passed", "Failed"} : \E results :
                   Run' = WithStatus(Run, job.run, phase, results)
    BY <1>4, Updates
  <2>2. Run' = Run \/ (Exists(Run) /\ ~IsFinal(Run.phase))
    BY <1>b, <2>1 DEF OwnRun
  <2>3. Run'.phase = Run.phase \/ Run'.phase \in {"Running", "Passed", "Failed"}
    BY <1>b, <2>1, <2>2, Shapes DEF WithStatus
  <2> QED
    BY <2>1, <2>2, <2>3 DEF LifeStep, Seen, Exists, IsFinal
<1>5. CASE /\ Exists(Run)
           /\ Run.del => Run'.del
           /\ Run'.phase = Run.phase \/ (Run'.phase = "Gone" /\ Run'.del)
  <2>1. Run.del \in BOOLEAN /\ Run'.del \in BOOLEAN
    <3>1. runFeed' \in Seq(Runs) /\ runFeed' # <<>>
      BY NextTypeOK DEF TypeOK
    <3>2. Run' \in Runs
      BY <3>1, FeedStates DEF Run
    <3> QED
      BY <1>b, <3>2, Shapes
  <2> QED
    BY <1>5, <2>1 DEF LifeStep, Seen, Exists, IsFinal
<1>6. CASE Cluster
  BY <1>1, <1>5, <1>6, Elsewhere
<1> QED
  BY <1>1, <1>2, <1>3, <1>4, <1>6, Reads, Cleans, Rests, Maps, Creates DEF Next, Controller

\* The controller implements module Lifecycle: once a run shows a verdict it
\* shows that one until it is gone, whatever becomes of its Tests, it disappears
\* only after somebody deleted it, and no late patch brings it back.
THEOREM LifeRefined ==
  ASSUME MaxLag = 0
  PROVE  Spec => LifeOfRun
<1>1. Init => Life!Init
  <2> SUFFICES ASSUME Init PROVE Life!Init
    OBVIOUS
  <2>1. PICK policy \in Policies, fins \in InitialFins : runFeed = <<NewRun(policy, fins)>>
    BY DEF Init
  <2>2. Run = NewRun(policy, fins) /\ Run \in Runs
    BY <2>1, NewRunShape, RestartStates DEF Run
  <2>3. Run.del = FALSE /\ Exists(Run) /\ ~IsFinal(Run.phase)
    BY <2>2, NewRunShape, Shapes
  <2> QED
    BY <2>3 DEF Life!Init
<1>2. ASSUME TypeOK, TypeOK', Mapped, Owned, [Next]_vars
      PROVE  [Life!Next]_(<<Seen(Run), Run.del>>)
  <2>1. LifeStep
    BY <1>2, NextLife
  <2>2. Run \in Runs /\ Run' \in Runs
    BY <1>2, FeedStates DEF TypeOK, Run
  <2>3. Run.del \in BOOLEAN /\ Run'.del \in BOOLEAN
    BY <2>2, Shapes
  <2> QED
    BY <2>1, <2>3 DEF LifeStep, Seen, Life!Next, Life!Decide, Life!Doom, Life!Remove, Life!Create, Life!Verdicts
<1>3. Spec => Life!Init /\ [][Life!Next]_(<<Seen(Run), Run.del>>)
  BY <1>1, <1>2, OwnedInvariant, PTL DEF Spec
<1> QED
  BY <1>3 DEF LifeOfRun, Life!Spec, Seen

-----------------------------------------------------------------------------
(***************************************************************************)
(* While a name has room for every template (Radix >= NumTests) no two     *)
(* Tests are of one template, and the templates still to get a Test have   *)
(* none.                                                                   *)
(***************************************************************************)
Apart(tests) == \A t, u \in Live(tests) : tests[t].idx = tests[u].idx => t = u

Single ==
  /\ Apart(Tests)
  /\ Working => Apart(job.tests)
  /\ job.step = "ensure" => \A t \in Live(Tests) : Tests[t].idx \notin job.missing

\* A template's index is then read back from the name of its Test.
LEMMA Readable ==
  ASSUME NumTests <= Radix, NEW test \in TestRecs
  PROVE  Digit(test) = test.idx /\ test.idx \in 0..(NumTests - 1)
<1>1. test.idx \in 0..(NumTests - 1) /\ NumTests \in Nat /\ Radix \in Nat \ {0}
  BY ConstantsAssumption DEF TestRecs
<1>2. \A x \in Nat, r \in Nat \ {0} : x < r => x % r = x
  OBVIOUS
<1> QED
  BY <1>1, <1>2 DEF Digit

\* Between its reading and its mapping a reconcile keeps its list and its
\* templates.
LEMMA Carries ==
  ASSUME TypeOK, Mapped, MaxLag = 0, [Next]_vars, ~Reconcile, ~CreateTest, ~MapTests
  PROVE  \/ job' = Idle
         \/ /\ Working' => Working
            /\ Working => /\ job'.tests = job.tests
                          /\ job'.step = "ensure" => job.step = "ensure" /\ job'.missing = job.missing
<1>1. CASE job' = job
  BY <1>1 DEF Working
<1>2. CASE EnsureFinalizer \/ SetStarting
  <2>1. Working /\ (job' = Idle \/ job' = Handle(Run', job.tests))
    BY <1>2, Prepares
  <2>2. Handle(Run', job.tests).tests = job.tests /\ Handle(Run', job.tests).step # "ensure"
    BY Handed
  <2> QED
    BY <2>1, <2>2
<1>3. CASE \E t \in Names : CleanUpTest(t) \/ CleanUpMisnamed(t)
  BY <1>3, Cleans
<1> QED
  BY <1>1, <1>2, <1>3, Rests, Releases, Updates, Elsewhere DEF Next, Controller

\* Every step leaves at most one Test to a template.
LEMMA NextSingle ==
  ASSUME TypeOK, Mapped, MaxLag = 0, NumTests <= Radix, Owned, Single, [Next]_vars
  PROVE  Single'
<1>b. Tests \in TestSets /\ \A t \in Names : Tests[t] \in TestRecs
  BY TypeFacts
<1>c. Idle.step = "idle"
  BY DEF Idle
<1>1. CASE CreateTest
  <2>1. Working /\ job.step = "ensure"
    BY <1>1, Creates
  <2>2. PICK i \in job.missing, t \in Names :
              /\ Tests' = [Tests EXCEPT ![t] = NewTest(i)]
              /\ \/ job' = Idle
                 \/ /\ job'.step = "ensure" /\ job'.tests = job.tests /\ job'.missing = job.missing \ {i}
    BY <1>1, Creates
  <2>3. NewTest(i).idx = i
    BY <2>1, TypeFacts, NewTestShape
  <2>4. \A u \in Live(Tests') : u = t \/ (u \in Live(Tests) /\ Tests'[u] = Tests[u])
    BY <1>b, <2>2, Shapes DEF Live, Listed
  <2>5. Tests'[t].idx = i
    BY <1>b, <2>2, <2>3, Shapes
  <2>6. \A u \in Live(Tests) : Tests[u].idx \notin job.missing
    BY <2>1 DEF Single
  <2>7. Apart(Tests')
    BY <2>4, <2>5, <2>6 DEF Apart, Single
  <2>8. \A u \in Live(Tests') : Tests'[u].idx \notin job.missing \ {i}
    BY <2>4, <2>5, <2>6
  <2> QED
    BY <1>c, <2>1, <2>2, <2>7, <2>8 DEF Single, Working
<1>2. CASE ~CreateTest
  <2>1. Lasting
    BY <1>2, NoneAdded
  <2>2. \A u \in Live(Tests') : u \in Live(Tests) /\ Tests'[u].idx = Tests[u].idx
    BY <2>1, StillListed, ListedTypes DEF Lasting
  <2>3. Apart(Tests')
    BY <2>2 DEF Apart, Single
  <2>4. CASE Reconcile
    <3>1. ~Working /\ Tests' = Tests
          /\ (job' = Idle \/ job' = At("finalizer", Run, Tests, {}) \/ job' = Handle(Run, Tests))
      BY <2>4, Reads
    <3>2. job' = Idle \/ (job'.tests = Tests /\ job'.step # "ensure")
      BY <3>1, Handed, AtShape
    <3> QED
      BY <1>c, <2>3, <3>1, <3>2 DEF Single, Working
  <2>5. CASE MapTests
    <3>1. /\ Working /\ job.step = "map" /\ Tests' = Tests
          /\ job'.step = "ensure" /\ job'.tests = job.tests
          /\ job'.missing = 0..(job.run.n - 1) \ Digits
      BY <2>5, Maps
    <3>2. ASSUME NEW t \in Live(Tests) PROVE Tests[t].idx \notin job'.missing
      <4>1. t \in Live(job.tests) /\ t \in Listed(job.tests) /\ t \in Names
        BY <3>1, ListedTypes DEF Owned, OwnTests
      <4>2. Tests[t].idx = job.tests[t].idx
        BY <3>1, <4>1 DEF Owned, OwnTests
      <4>3. Digit(job.tests[t]) = job.tests[t].idx /\ job.tests[t].idx \in Nat
        BY <3>1, <4>1, TypeFacts, Readable, ConstantsAssumption
      <4>4. job.run.n \in Nat
        BY <3>1, TypeFacts, Shapes, ConstantsAssumption
      <4>5. CASE job.tests[t].idx >= job.run.n
        BY <3>1, <4>2, <4>3, <4>4, <4>5
      <4>6. CASE ~(job.tests[t].idx >= job.run.n)
        <5>1. t \notin Misnamed(job.run, job.tests)
          BY <4>3, <4>6 DEF Misnamed
        <5>2. Digit(job.tests[t]) \in Digits
          BY <4>1, <5>1 DEF Digits
        <5> QED
          BY <3>1, <4>2, <4>3, <5>2
      <4> QED
        BY <4>5, <4>6
    <3> QED
      BY <2>3, <3>1, <3>2 DEF Single, Working
  <2>6. CASE ~Reconcile /\ ~MapTests
    <3>1. \/ job' = Idle
          \/ /\ Working' => Working
             /\ Working => /\ job'.tests = job.tests
                           /\ job'.step = "ensure" => job.step = "ensure" /\ job'.missing = job.missing
      BY <1>2, <2>6, Carries
    <3>2. job'.step = "ensure" => Working'
      BY DEF Working
    <3> QED
      BY <1>c, <2>2, <2>3, <3>1, <3>2 DEF Single, Working
  <2> QED
    BY <2>4, <2>5, <2>6
<1> QED
  BY <1>1, <1>2

\* In the beginning there are no Tests.
LEMMA InitSingle == Init => Single
<1> SUFFICES ASSUME Init PROVE Single
  OBVIOUS
<1>1. Tests = [t \in Names |-> NoTest]
  BY RestartStates DEF Init, Tests
<1>2. Live(Tests) = {}
  BY <1>1 DEF Live, Listed, NoTest, Exists
<1> QED
  BY <1>2 DEF Init, Single, Apart, Working, Idle

\* With current caches no two live Tests have one index.
LEMMA SingleInvariant ==
  ASSUME MaxLag = 0, NumTests <= Radix
  PROVE  Spec => [](TypeOK /\ Mapped /\ Owned /\ Single)
<1>1. TypeOK /\ Mapped /\ Owned /\ Single /\ [Next]_vars => (TypeOK /\ Mapped /\ Owned /\ Single)'
  BY NextTypeOK, NextOwned, NextSingle
<1> QED
  BY InitTypeOK, InitOwned, InitSingle, <1>1, PTL DEF Spec

\* While reconciles start with current caches and one character tells the
\* templates apart, no template ever has two Tests: neither a creation whose
\* reply was lost nor a restart half way through the loop is repeated.
THEOREM AlwaysOneTestPerTemplate ==
  ASSUME MaxLag = 0, NumTests <= Radix
  PROVE  Spec => []OneTestPerTemplate
<1>1. Single => OneTestPerTemplate
  BY DEF Single, Apart, OneTestPerTemplate
<1> QED
  BY SingleInvariant, <1>1, PTL

-----------------------------------------------------------------------------
(***************************************************************************)
(* Tests are created in the order of the templates, so while nobody else   *)
(* deletes any (MaxDeletions = 0) a run that is going on has no gap among  *)
(* them, and the position a Test's name gives is one of the list.          *)
(***************************************************************************)
NoGap(tests, n) ==
  \A t \in Live(tests), i \in 0..(n - 1) : i <= tests[t].idx => \E u \in Live(tests) : tests[u].idx = i

Gapless ==
  /\ ~Run.del /\ ~IsFinal(Run.phase) => NoGap(Tests, Run.n)
  /\ job.step = "map" \/ (job.step \in {"finalizer", "starting"} /\ ~Run.del) => NoGap(job.tests, job.run.n)
  /\ ~Run.del =>
       /\ job.step \in {"finalizer", "starting"} => Live(job.tests) \subseteq Live(Tests)
       /\ job.step = "map" => Live(job.tests) \ Misnamed(job.run, job.tests) \subseteq Live(Tests)
       /\ job.step = "ensure" =>
            \A k \in 0..(job.run.n - 1) : k \in job.missing \/ \E u \in Live(Tests) : Tests[u].idx = k

\* Which Tests the controller deletes.  Others delete none while the run is
\* there: once it is gone those it left are orphans.
LEMMA Losses ==
  ASSUME TypeOK, Mapped, MaxLag = 0, MaxDeletions = 0, Owned, [Next]_vars, Exists(Run),
         NEW t \in Live(Tests), t \notin Live(Tests')
  PROVE  /\ Working /\ job.step \in {"delete", "retain", "map"}
         /\ job.step = "delete" => Run.del
         /\ job.step = "retain" => (Exists(Run) => IsFinal(Run.phase) /\ Drops(Run))
         /\ job.step = "map" => t \in Misnamed(job.run, job.tests)
<1>b. Tests \in TestSets /\ t \in Names /\ Exists(Tests[t]) /\ ~Tests[t].del
  BY TypeFacts DEF Live, Listed
<1>c. ~(deletions < MaxDeletions)
  BY DEF TypeOK
<1>1. CASE Tests' = Tests
  BY <1>1
<1>2. ASSUME NEW u \in Names, NEW test, Tests' = [Tests EXCEPT ![u] = test], (Exists(test) /\ ~test.del) \/ u # t
      PROVE  FALSE
  BY <1>b, <1>2, Shapes DEF Live, Listed
<1>3. CASE \E u \in Names : CleanUpTest(u) \/ CleanUpMisnamed(u)
  <2>1. PICK u \in Names : CleanUpTest(u) \/ CleanUpMisnamed(u)
    BY <1>3
  <2>2. /\ Working /\ job.step \in {"delete", "retain", "map"} /\ u \in job.todo
        /\ \E test : Tests' = [Tests EXCEPT ![u] = test]
    BY <2>1, Cleans
  <2>3. u = t
    BY <1>2, <2>2
  <2>4. job.step = "delete" => Run.del
    BY <2>2 DEF Owned, OwnRun
  <2>5. job.step = "retain" => (Exists(Run) => IsFinal(Run.phase) /\ Drops(Run))
    BY <2>2 DEF Owned, OwnRun, Drops
  <2> QED
    BY <2>2, <2>3, <2>4, <2>5 DEF Owned, OwnTests
<1>4. CASE Cluster
  <2>1. PICK u \in Names, test \in TestRecs :
             /\ Tests' = [Tests EXCEPT ![u] = test]
             /\ Tests[u].del \/ (Exists(test) /\ ~test.del) \/ deletions < MaxDeletions \/ ~Exists(Run)
    BY <1>1, <1>4, Elsewhere
  <2> QED
    BY <1>b, <1>c, <1>2, <2>1
<1>5. CASE CreateTest
  <2>1. \E u \in Names : \E i : Tests[u].phase = "Unborn" /\ Tests' = [Tests EXCEPT ![u] = NewTest(i)]
    BY <1>5, Creates
  <2> QED
    BY <1>b, <1>2, <2>1 DEF Exists
<1> QED
  BY <1>1, <1>3, <1>4, <1>5, Reads, Prepares, Rests, Releases, Maps, Updates DEF Next, Controller

\* A run's list of templates never grows, and a deleted run stays deleted.
LEMMA RunShrinks ==
  ASSUME TypeOK, Mapped, MaxLag = 0, [Next]_vars
  PROVE  /\ Run.n \in Nat /\ Run'.n \in Nat /\ Run'.n <= Run.n
         /\ Run.del => Run'.del
<1>1. Run \in Runs /\ Run' \in Runs
  <2>1. runFeed' \in Seq(Runs) /\ runFeed' # <<>>
    BY NextTypeOK DEF TypeOK
  <2> QED
    BY <2>1, FeedStates, TypeFacts DEF Run
<1>2. Run.n \in Nat /\ Run'.n \in Nat
  BY <1>1, Shapes, ConstantsAssumption
<1>3. \/ Run' = Run
      \/ Run'.n = Run.n /\ Run'.del = Run.del
      \/ Run'.n <= Run.n /\ (Run.del => Run'.del)
  BY Reads, Prepares, Cleans, Rests, Releases, Maps, Creates, Updates, Elsewhere DEF Next, Controller
<1> QED
  BY <1>2, <1>3

\* Apart from the steps that hand it on, a reconcile ends or goes on as it is.
LEMMA Persists ==
  ASSUME TypeOK, Mapped, MaxLag = 0, [Next]_vars,
         ~Reconcile, ~EnsureFinalizer, ~SetStarting, ~CreateTest, ~MapTests
  PROVE  \/ ~Working'
         \/ /\ Working /\ job'.step = job.step /\ job'.run = job.run /\ job'.tests = job.tests
            /\ job'.missing = job.missing
<1>1. CASE job' = job \/ job' = Idle
  BY <1>1 DEF Working, Idle
<1>2. CASE \E t \in Names : CleanUpTest(t) \/ CleanUpMisnamed(t)
  BY <1>2, Cleans DEF Working, Idle
<1> QED
  BY <1>1, <1>2, Rests, Releases, Updates, Elsewhere DEF Next, Controller

\* Fewer templates have no gap either.
LEMMA NoGapFewer ==
  ASSUME NEW tests, NEW n \in Nat, NEW m \in Nat, m <= n, NoGap(tests, n)
  PROVE  NoGap(tests, m)
  BY DEF NoGap

\* A run that goes on has its Tests in the order of the templates.
LEMMA NextNoGap ==
  ASSUME TypeOK, Mapped, MaxLag = 0, NumTests <= Radix, MaxDeletions = 0, Owned, Gapless, [Next]_vars,
         ~Run'.del, ~IsFinal(Run'.phase)
  PROVE  NoGap(Tests', Run'.n)
<1>b. Tests \in TestSets /\ \A t \in Names : Tests[t] \in TestRecs
  BY TypeFacts
<1>c. Run.n \in Nat /\ Run'.n \in Nat /\ Run'.n <= Run.n /\ ~Run.del
  BY RunShrinks
<1>1. ~IsFinal(Run.phase)
  BY NextLife DEF LifeStep, Seen, Exists, IsFinal
<1>2. NoGap(Tests, Run.n) /\ Exists(Run)
  BY <1>c, <1>1 DEF Gapless, Owned, Held
<1>3. SUFFICES ASSUME NEW t \in Live(Tests'), NEW i \in 0..(Run'.n - 1), i <= Tests'[t].idx
               PROVE  \E u \in Live(Tests') : Tests'[u].idx = i
  BY DEF NoGap
<1>4. i \in 0..(Run.n - 1) /\ i \in Nat
  BY <1>c
<1>5. CASE CreateTest
  <2>1. Working /\ job.step = "ensure"
    BY <1>5, Creates
  <2>2. PICK j \in job.missing, v \in Names :
              /\ \A k \in job.missing : j <= k
              /\ Tests[v].phase = "Unborn" /\ Tests' = [Tests EXCEPT ![v] = NewTest(j)]
    BY <1>5, Creates
  <2>3. NewTest(j).idx = j /\ Exists(NewTest(j)) /\ ~NewTest(j).del /\ j \in Nat
    BY <2>1, TypeFacts, NewTestShape, ConstantsAssumption
  <2>4. \A u \in Names : Tests'[u] = IF u = v THEN NewTest(j) ELSE Tests[u]
    BY <1>b, <2>2, Shapes
  <2>5. \A u \in Live(Tests) : u \in Names /\ u # v /\ u \in Live(Tests') /\ Tests'[u] = Tests[u]
    BY <2>2, <2>4 DEF Live, Listed, Exists
  <2>6. v \in Live(Tests') /\ Tests'[v].idx = j
    BY <2>3, <2>4 DEF Live, Listed
  <2>7. CASE t = v
    <3>1. CASE i = j
      BY <2>6, <3>1
    <3>2. CASE i # j
      <4>1. i \notin job.missing
        BY <1>3, <1>4, <2>2, <2>3, <2>6, <2>7, <3>2
      <4>2. i \in 0..(job.run.n - 1)
        <5>1. job.run.n \in Nat /\ Run.n <= job.run.n
          BY <2>1, TypeFacts, Shapes, ConstantsAssumption DEF Owned, OwnRun
        <5> QED
          BY <1>c, <1>4, <5>1
      <4>3. \E u \in Live(Tests) : Tests[u].idx = i
        BY <1>c, <2>1, <4>1, <4>2 DEF Gapless
      <4> QED
        BY <2>5, <4>3
    <3> QED
      BY <3>1, <3>2
  <2>8. CASE t # v
    <3>1. t \in Live(Tests) /\ Tests'[t] = Tests[t]
      BY <2>4, <2>8 DEF Live, Listed
    <3>2. \E u \in Live(Tests) : Tests[u].idx = i
      BY <1>2, <1>3, <1>4, <3>1 DEF NoGap
    <3> QED
      BY <2>5, <3>2
  <2> QED
    BY <2>7, <2>8
<1>6. CASE ~CreateTest
  <2>1. Lasting
    BY <1>6, NoneAdded
  <2>2. t \in Live(Tests) /\ Tests'[t].idx = Tests[t].idx
    BY <2>1, StillListed, ListedTypes DEF Lasting
  <2>3. PICK u \in Live(Tests) : Tests[u].idx = i
    BY <1>2, <1>3, <1>4, <2>2 DEF NoGap
  <2>4. u \in Names /\ Tests'[u].idx = i
    BY <2>1, <2>3 DEF Lasting, Live, Listed
  <2>5. CASE u \in Live(Tests')
    BY <2>4, <2>5
  <2>6. CASE u \notin Live(Tests')
    <3>1. Working /\ job.step = "map" /\ u \in Misnamed(job.run, job.tests)
      BY <1>c, <1>1, <1>2, <2>6, Losses
    <3>2. u \in Listed(job.tests) /\ Digit(job.tests[u]) >= job.run.n
      BY <3>1, ListedTypes DEF Misnamed
    <3>3. Digit(job.tests[u]) = i
      BY <2>3, <2>4, <3>1, <3>2, TypeFacts, Readable DEF Owned, OwnTests
    <3>4. job.run.n \in Nat /\ Run.n <= job.run.n
      BY <3>1, TypeFacts, Shapes, ConstantsAssumption DEF Owned, OwnRun
    <3> QED
      BY <1>c, <1>4, <3>2, <3>3, <3>4
  <2> QED
    BY <2>5, <2>6
<1> QED
  BY <1>5, <1>6

\* Every step leaves the indices, and the positions read from them, in order.
LEMMA NextGapless ==
  ASSUME TypeOK, Mapped, MaxLag = 0, NumTests <= Radix, MaxDeletions = 0, Owned, Gapless, [Next]_vars
  PROVE  Gapless'
<1>b. Tests \in TestSets /\ \A t \in Names : Tests[t] \in TestRecs
  BY TypeFacts
<1>c. Run.n \in Nat /\ Run'.n \in Nat /\ Run'.n <= Run.n /\ (Run.del => Run'.del)
  BY RunShrinks
<1>d. ~Run'.del /\ ~IsFinal(Run'.phase) => NoGap(Tests', Run'.n)
  BY NextNoGap
<1>e. ~Working' => Gapless'
  BY <1>d DEF Gapless, Working
<1>1. CASE Reconcile
  <2>1. /\ ~Working /\ Run' = Run /\ Tests' = Tests
        /\ \/ job' = Idle
           \/ job' = At("finalizer", Run, Tests, {}) /\ ~IsFinal(Run.phase) /\ ~Run.del
           \/ job' = Handle(Run, Tests)
    BY <1>1, Reads
  <2>2. job' = Idle => ~Working'
    BY DEF Working, Idle
  <2>3. \/ ~Working'
        \/ /\ job'.run = Run /\ job'.tests = Tests /\ job'.step # "ensure"
           /\ job'.step \in {"finalizer", "starting", "map"} => ~IsFinal(Run.phase)
           /\ job'.step \in {"finalizer", "map"} => ~Run.del
    BY <2>1, <2>2, Handed, AtShape
  <2> QED
    BY <1>d, <1>e, <2>1, <2>3 DEF Gapless
<1>2. CASE EnsureFinalizer \/ SetStarting
  <2>1. /\ Working /\ job.step \in {"finalizer", "starting"} /\ Tests' = Tests
        /\ Run'.n = Run.n /\ Run'.del = Run.del
        /\ job' = Idle \/ job' = Handle(Run', job.tests)
    BY <1>2, Prepares
  <2>2. job' = Idle => ~Working'
    BY DEF Working, Idle
  <2>3. \/ ~Working'
        \/ /\ job'.run = Run' /\ job'.tests = job.tests /\ job'.step \notin {"ensure", "finalizer"}
           /\ job'.step = "map" => ~Run'.del
    BY <2>1, <2>2, Handed
  <2>4. job.run.n \in Nat /\ Run.n <= job.run.n
    BY <2>1, TypeFacts, Shapes, ConstantsAssumption DEF Owned, OwnRun
  <2>5. ~Run'.del => NoGap(job.tests, Run'.n)
    <3>1. ~Run'.del => NoGap(job.tests, job.run.n)
      BY <2>1 DEF Gapless
    <3> QED
      BY <1>c, <2>1, <2>4, <3>1, NoGapFewer
  <2>6. ~Run'.del => Live(job.tests) \subseteq Live(Tests)
    BY <2>1 DEF Gapless
  <2> QED
    BY <1>d, <1>e, <2>1, <2>3, <2>5, <2>6 DEF Gapless
<1>3. CASE MapTests
  <2>1. /\ Working /\ job.step = "map" /\ Tests' = Tests /\ Run' = Run
        /\ job'.step = "ensure" /\ job'.run = job.run /\ job'.tests = job.tests
        /\ job'.missing = 0..(job.run.n - 1) \ Digits
    BY <1>3, Maps
  <2>2. ASSUME ~Run.del, NEW k \in 0..(job.run.n - 1), k \notin job'.missing
        PROVE  \E u \in Live(Tests) : Tests[u].idx = k
    <3>1. PICK u \in Live(job.tests) \ Misnamed(job.run, job.tests) : Digit(job.tests[u]) = k
      BY <2>1, <2>2 DEF Digits
    <3>2. u \in Live(Tests) /\ u \in Listed(job.tests) /\ u \in Names
      BY <2>1, <2>2, <3>1, ListedTypes DEF Gapless
    <3>3. Digit(job.tests[u]) = job.tests[u].idx /\ Tests[u].idx = job.tests[u].idx
      BY <2>1, <3>2, TypeFacts, Readable DEF Owned, OwnTests
    <3> QED
      BY <3>1, <3>2, <3>3
  <2> QED
    BY <1>d, <2>1, <2>2 DEF Gapless
<1>4. CASE CreateTest
  <2>1. Working /\ job.step = "ensure" /\ Run' = Run
    BY <1>4, Creates
  <2>2. PICK j \in job.missing, v \in Names :
              /\ Tests[v].phase = "Unborn" /\ Tests' = [Tests EXCEPT ![v] = NewTest(j)]
              /\ \/ job' = Idle
                 \/ job'.step = "ensure" /\ job'.run = job.run /\ job'.missing = job.missing \ {j}
    BY <1>4, Creates
  <2>3. NewTest(j).idx = j /\ Exists(NewTest(j)) /\ ~NewTest(j).del
    BY <2>1, TypeFacts, NewTestShape
  <2>4. \A u \in Names : Tests'[u] = IF u = v THEN NewTest(j) ELSE Tests[u]
    BY <1>b, <2>2, Shapes
  <2>5. \A u \in Live(Tests) : u \in Names /\ u # v /\ u \in Live(Tests') /\ Tests'[u] = Tests[u]
    BY <2>2, <2>4 DEF Live, Listed, Exists
  <2>6. v \in Live(Tests') /\ Tests'[v].idx = j
    BY <2>3, <2>4 DEF Live, Listed
  <2>7. ~Run.del =>
          \A k \in 0..(job.run.n - 1) : k \in job.missing \ {j} \/ \E u \in Live(Tests') : Tests'[u].idx = k
    <3>1. ~Run.del =>
            \A k \in 0..(job.run.n - 1) : k \in job.missing \/ \E u \in Live(Tests) : Tests[u].idx = k
      BY <2>1 DEF Gapless
    <3> QED
      BY <2>5, <2>6, <3>1
  <2>8. job' = Idle => ~Working'
    BY DEF Working, Idle
  <2> QED
    BY <1>d, <1>e, <2>1, <2>2, <2>7, <2>8 DEF Gapless
<1>5. CASE ~Reconcile /\ ~EnsureFinalizer /\ ~SetStarting /\ ~CreateTest /\ ~MapTests
  <2>1. \/ ~Working'
        \/ /\ Working /\ job'.step = job.step /\ job'.run = job.run /\ job'.tests = job.tests
           /\ job'.missing = job.missing
    BY <1>5, Persists
  <2>2. ASSUME Working, job'.step = job.step, job'.run = job.run, job'.tests = job.tests, job'.missing = job.missing
        PROVE  Gapless'
    <3>1. ~Run'.del =>
            \A t \in Live(Tests) : t \in Live(Tests') \/ job.step \in {"delete", "retain"}
                                 \/ (job.step = "map" /\ t \in Misnamed(job.run, job.tests))
      BY <1>c, Losses DEF Owned, Held
    <3>2. Lasting
      BY <1>5, NoneAdded
    <3>3. \A t \in Live(Tests) : Tests'[t].idx = Tests[t].idx
      BY <3>2 DEF Lasting, Live, Listed
    <3>4. ~Run'.del /\ job.step = "ensure" =>
            \A k \in 0..(job.run.n - 1) : k \in job.missing \/ \E u \in Live(Tests') : Tests'[u].idx = k
      BY <1>c, <3>1, <3>3 DEF Gapless
    <3>5. ~Run'.del /\ job.step \in {"finalizer", "starting"} => Live(job.tests) \subseteq Live(Tests')
      BY <1>c, <3>1 DEF Gapless
    <3>6. ~Run'.del /\ job.step = "map" => Live(job.tests) \ Misnamed(job.run, job.tests) \subseteq Live(Tests')
      BY <1>c, <3>1 DEF Gapless
    <3>7. job.step = "map" \/ (job.step \in {"finalizer", "starting"} /\ ~Run'.del) => NoGap(job.tests, job.run.n)
      BY <1>c DEF Gapless
    <3> QED
      BY <1>d, <2>2, <3>4, <3>5, <3>6, <3>7 DEF Gapless
  <2> QED
    BY <1>e, <2>1, <2>2
<1> QED
  BY <1>1, <1>2, <1>3, <1>4, <1>5

\* In the beginning there are no Tests.
LEMMA InitGapless == Init => Gapless
<1> SUFFICES ASSUME Init PROVE Gapless
  OBVIOUS
<1>1. Tests = [t \in Names |-> NoTest]
  BY RestartStates DEF Init, Tests
<1>2. Live(Tests) = {}
  BY <1>1 DEF Live, Listed, NoTest, Exists
<1> QED
  BY <1>2 DEF Init, Gapless, NoGap, Idle

\* How many indices there are up to n.
LEMMA Interval ==
  ASSUME NEW n \in Nat
  PROVE  IsFiniteSet(0..n) /\ Cardinality(0..n) = n + 1
<1>1. 0 \in Int /\ n \in Int /\ ~(0 > n) /\ n - 0 + 1 = n + 1
  OBVIOUS
<1>2. IsFiniteSet(0..n) /\ Cardinality(0..n) = IF 0 > n THEN 0 ELSE n - 0 + 1
  BY <1>1, FS_Interval
<1> QED
  BY <1>1, <1>2

\* Without a gap the digit of every Test is a position of the list.
LEMMA InRange ==
  ASSUME TypeOK, NumTests <= Radix, Working, NoGap(job.tests, job.run.n)
  PROVE  ~OutOfRange
<1> DEFINE L == Live(job.tests)
<1>1. SUFFICES ASSUME NEW d \in Digits, d >= Cardinality(L) PROVE FALSE
  BY DEF OutOfRange
<1>2. d \in 0..(job.run.n - 1) /\ job.run.n \in Nat
  BY DigitsRange, TypeFacts, Shapes, ConstantsAssumption
<1>3. PICK t \in L : Digit(job.tests[t]) = d
  BY DEF Digits
<1>4. \A u \in L : u \in Names /\ Digit(job.tests[u]) = job.tests[u].idx
  BY TypeFacts, Readable, ListedTypes
<1>5. \A i \in 0..d : \E u \in L : job.tests[u].idx = i
  BY <1>2, <1>3, <1>4 DEF NoGap
<1> DEFINE S == {u \in L : job.tests[u].idx \in 0..d}
           f == [u \in S |-> job.tests[u].idx]
<1>6. f \in Surjection(S, 0..d)
  <2>1. f \in [S -> 0..d] /\ \A u \in S : f[u] = job.tests[u].idx
    OBVIOUS
  <2>2. \A i \in 0..d : \E u \in S : f[u] = i
    BY <1>5
  <2> HIDE DEF f, S
  <2> QED
    BY <2>1, <2>2 DEF Surjection
<1>7. IsFiniteSet(S) /\ Cardinality(S) \in Nat /\ Cardinality(S) <= Cardinality(L) /\ Cardinality(L) \in Nat
  BY LiveFinite
<1>8. Cardinality(0..d) <= Cardinality(S)
  <2> HIDE DEF f, S, L
  <2> QED
    BY <1>6, <1>7, FS_Surjection
<1>9. Cardinality(0..d) = d + 1 /\ d \in Nat
  BY <1>2, Interval
<1> QED
  BY <1>1, <1>7, <1>8, <1>9

\* While reconciles start with current caches, one character tells the
\* templates apart and nobody else deletes Tests, isRunning never indexes the
\* list of Tests past its end.
THEOREM PanicsNever ==
  ASSUME MaxLag = 0, NumTests <= Radix, MaxDeletions = 0
  PROVE  Spec => []NeverPanics
<1> DEFINE Inv == TypeOK /\ Mapped /\ Owned /\ Gapless /\ NeverPanics
<1>1. Init => Inv
  BY InitTypeOK, InitOwned, InitGapless DEF Init, NeverPanics
<1>2. Inv /\ [Next]_vars => Inv'
  <2> SUFFICES ASSUME Inv, [Next]_vars PROVE Inv'
    OBVIOUS
  <2>1. ~Panic
    <3>1. SUFFICES ASSUME Panic PROVE FALSE
      OBVIOUS
    <3>2. job.step = "map" /\ OutOfRange /\ Working
      BY <3>1 DEF Panic, Working
    <3> QED
      BY <3>2, InRange DEF Gapless
  <2>2. UNCHANGED panics
    <3>1. \A t \in Names : \A phase : TestDecided(t, phase) => UNCHANGED panics
      BY Zenon DEF TestDecided, Others
    <3> QED
      BY <2>1, <3>1 DEF Next, Controller, Reconcile, EnsureFinalizer, SetStarting, CleanUpTest, CleanUpMisnamed,
                  CleanedUp, ReleaseRun, MapTests, CreateTest, CreateTestFails, UpdateStatus, RunEvent, TestEvent,
                  Restart, Cluster, TestReleased, TestDeleted, TestOrphaned, RunDeleted, SuiteReleases,
                  RunEdited, Others, vars
  <2>3. NeverPanics'
    BY <2>2 DEF NeverPanics
  <2> QED
    BY <2>3, NextTypeOK, NextOwned, NextGapless
<1>3. Inv => NeverPanics
  OBVIOUS
<1> QED
  BY <1>1, <1>2, <1>3, PTL DEF Spec

-----------------------------------------------------------------------------
(***************************************************************************)
(* While, besides, nobody edits the run (MaxEdits = 0), no Test is         *)
(* misnamed and a list never has more Tests than the run has templates.    *)
(***************************************************************************)
Unedited == Run.n = NumTests /\ (Working => job.run.n = NumTests)

\* Without edits a run keeps its templates.
LEMMA NextUnedited ==
  ASSUME TypeOK, Mapped, MaxLag = 0, MaxEdits = 0, Unedited, [Next]_vars
  PROVE  Unedited'
<1>1. ~(edits < MaxEdits)
  BY DEF TypeOK
<1>2. Run'.n = Run.n
  BY <1>1, Reads, Prepares, Cleans, Rests, Releases, Maps, Creates, Updates, Elsewhere DEF Next, Controller
<1>3. Working' => (Working /\ job'.run = job.run) \/ job'.run = Run \/ job'.run = Run'
  <2>1. job' = Idle => ~Working'
    BY DEF Working, Idle
  <2>2. CASE Reconcile
    BY <2>1, <2>2, Reads, Handed, AtShape
  <2>3. CASE EnsureFinalizer \/ SetStarting
    BY <2>1, <2>3, Prepares, Handed
  <2>4. CASE CreateTest \/ MapTests
    BY <2>1, <2>4, Creates, Maps
  <2>5. CASE ~Reconcile /\ ~EnsureFinalizer /\ ~SetStarting /\ ~CreateTest /\ ~MapTests
    BY <2>5, Persists
  <2> QED
    BY <2>2, <2>3, <2>4, <2>5
<1> QED
  BY <1>2, <1>3 DEF Unedited

\* A run is created with all its templates.
LEMMA InitUnedited == Init => Unedited
<1> SUFFICES ASSUME Init PROVE Unedited
  OBVIOUS
<1>1. PICK policy \in Policies, fins \in InitialFins : runFeed = <<NewRun(policy, fins)>>
  BY DEF Init
<1>2. Run.n = NumTests
  BY <1>1, NewRunShape, RestartStates DEF Run
<1> QED
  BY <1>2 DEF Init, Unedited, Working, Idle

\* Every Test's name fits then.
LEMMA NoneMisnamed ==
  ASSUME TypeOK, Working, Unedited
  PROVE  Misnamed(job.run, job.tests) = {}
<1>1. SUFFICES ASSUME NEW t \in Names PROVE ~(Digit(job.tests[t]) >= job.run.n)
  BY DEF Misnamed, Live, Listed
<1>2. job.tests[t].idx \in 0..(NumTests - 1) /\ NumTests \in Nat /\ Radix \in Nat \ {0} /\ job.run.n = NumTests
  BY TypeFacts, ConstantsAssumption DEF TestRecs, Unedited
<1>3. \A x \in Nat, r \in Nat \ {0} : x % r \in Nat /\ x % r <= x
  OBVIOUS
<1> QED
  BY <1>2, <1>3 DEF Digit

\* While reconciles start with current caches, nobody else deletes Tests and
\* nobody edits the run, a Test of a run that is not deleted is deleted only
\* when the run is finished and its policy says so: what isComplete keeps,
\* and every Test of a run that is going on, stays for the user to look at.
THEOREM AlwaysTestsRetained ==
  ASSUME MaxLag = 0, MaxDeletions = 0, MaxEdits = 0
  PROVE  Spec => TestsRetained
<1> DEFINE Inv == TypeOK /\ Mapped /\ Owned /\ Unedited
           Retained == Live(Tests) \ Live(Tests') # {} /\ Exists(Run) /\ ~Run.del => IsFinal(Run.phase) /\ Drops(Run)
<1>1. Init => Inv
  BY InitTypeOK, InitOwned, InitUnedited
<1>2. Inv /\ [Next]_vars => Inv'
  BY NextTypeOK, NextOwned, NextUnedited
<1>3. Inv /\ [Next]_vars => [Retained]_vars
  <2> SUFFICES ASSUME Inv, [Next]_vars, NEW t \in Live(Tests), t \notin Live(Tests'), Exists(Run), ~Run.del
               PROVE  IsFinal(Run.phase) /\ Drops(Run)
    OBVIOUS
  <2>1. /\ Working /\ job.step \in {"delete", "retain", "map"}
        /\ job.step = "delete" => Run.del
        /\ job.step = "retain" => IsFinal(Run.phase) /\ Drops(Run)
        /\ job.step = "map" => t \in Misnamed(job.run, job.tests)
    BY Losses
  <2> QED
    BY <2>1, NoneMisnamed
<1>4. Spec => [][Retained]_vars
  BY <1>1, <1>2, <1>3, PTL DEF Spec
<1> QED
  BY <1>4 DEF TestsRetained

-----------------------------------------------------------------------------
(***************************************************************************)
(* The verdict of a run.  It has as many results as templates only if      *)
(* every position of the list holds a decided Test, so although the        *)
(* shadowed index mixes them up none of them is left out.                  *)
(***************************************************************************)
LEMMA AllPassed ==
  ASSUME TypeOK, Evidence, Owned, Single, Unedited, NumTests <= Radix, Working, ~OutOfRange,
         NEW items \in Bijection(0..(Cardinality(Live(job.tests)) - 1), Live(job.tests)),
         PhaseOf(ResultsOf(items)) = "Passed"
  PROVE  \A i \in 0..(NumTests - 1) : \E t \in Names : Tests[t].idx = i /\ verdict[t] = "Passed"
<1> DEFINE n == NumTests
           L == Live(job.tests)
           D == {e \in Digits : IsFinal(job.tests[items[e]].phase)}
           F(d) == [template |-> d, test |-> items[d], passed |-> job.tests[items[d]].phase = "Passed"]
           results == ResultsOf(items)
           f == [d \in D |-> F(d)]
           g == [t \in L |-> job.tests[t].idx]
<1>1. n \in Nat \ {0} /\ job.run.n = n
  BY ConstantsAssumption DEF Unedited
<1>2. IsFiniteSet(0..(n - 1)) /\ Cardinality(0..(n - 1)) = n
  <2>1. n - 1 \in Nat /\ (n - 1) + 1 = n
    BY <1>1
  <2> HIDE DEF n
  <2> QED
    BY <2>1, Interval
<1>3. Cardinality(results) = n /\ \A r \in results : r.passed
  BY <1>1 DEF PhaseOf
<1>4. D \subseteq 0..(n - 1) /\ IsFiniteSet(D) /\ Cardinality(D) \in Nat /\ Cardinality(D) <= n
  <2>1. D \subseteq 0..(n - 1)
    BY <1>1, DigitsRange
  <2> HIDE DEF D, n
  <2> QED
    BY <1>2, <2>1, FS_Subset, FS_CardinalityType
<1>5. results = {F(d) : d \in D}
  BY DEF ResultsOf
<1>6. f \in Surjection(D, results)
  <2>1. f \in [D -> results] /\ \A d \in D : f[d] = F(d)
    BY <1>5
  <2>2. \A r \in results : \E d \in D : f[d] = r
    BY <1>5, <2>1
  <2> HIDE DEF f, D, results
  <2> QED
    BY <2>1, <2>2 DEF Surjection
<1>7. n <= Cardinality(D)
  <2> HIDE DEF f, D, results
  <2> QED
    BY <1>3, <1>4, <1>6, FS_Surjection
<1>8. D = 0..(n - 1)
  <2> HIDE DEF D
  <2>1. Cardinality(0..(n - 1)) = Cardinality(D)
    BY <1>1, <1>2, <1>4, <1>7
  <2> QED
    BY <1>2, <1>4, <2>1, FS_Subset
<1>9. \A d \in 0..(n - 1) : d \in Digits /\ job.tests[items[d]].phase = "Passed"
  <2> SUFFICES ASSUME NEW d \in D PROVE d \in Digits /\ job.tests[items[d]].phase = "Passed"
    BY <1>8
  <2>1. F(d) \in results
    BY <1>5
  <2>2. F(d).passed
    <3> HIDE DEF F, results
    <3> QED
      BY <1>3, <2>1
  <2> QED
    BY <2>2
<1>10. \A t \in L : /\ t \in Names /\ t \in Listed(job.tests)
                    /\ Digit(job.tests[t]) = job.tests[t].idx /\ job.tests[t].idx \in 0..(n - 1)
  BY TypeFacts, Readable, ListedTypes
<1>11. Cardinality(L) <= n /\ Cardinality(L) \in Nat
  <2>1. g \in [L -> 0..(n - 1)] /\ \A t, u \in L : g[t] = g[u] => t = u
    BY <1>10 DEF Single, Apart
  <2> HIDE DEF g, L
  <2>2. g \in Injection(L, 0..(n - 1))
    BY <2>1 DEF Injection, IsInjective
  <2>3. Cardinality(L) <= Cardinality(0..(n - 1))
    BY <1>2, <2>2, FS_Injection
  <2> QED
    BY <1>2, <2>3, LiveFinite DEF L
<1>12. SUFFICES ASSUME NEW i \in 0..(n - 1) PROVE \E t \in Names : Tests[t].idx = i /\ verdict[t] = "Passed"
  OBVIOUS
<1>13. PICK t \in L : Digit(job.tests[t]) = i
  BY <1>9 DEF Digits
<1>14. PICK d \in 0..(Cardinality(L) - 1) : items[d] = t
  <2>1. items \in Surjection(0..(Cardinality(L) - 1), L)
    BY DEF Bijection
  <2> HIDE DEF L
  <2> QED
    BY <2>1 DEF Surjection
<1>15. d \in 0..(n - 1)
  BY <1>1, <1>11
<1>16. job.tests[t].phase = "Passed"
  BY <1>9, <1>14, <1>15
<1>17. verdict[t] = "Passed"
  BY <1>10, <1>16 DEF Evidence, JobAgrees, Agrees, IsFinal
<1>18. Tests[t].idx = i
  BY <1>10, <1>13 DEF Owned, OwnTests
<1> QED
  BY <1>10, <1>17, <1>18

\* No step changes a verdict that was given.
LEMMA VerdictsKept ==
  ASSUME TypeOK, Evidence, [Next]_vars
  PROVE  VerdictsStay
<1>1. CASE \E t \in Names, phase \in {"Passed", "Failed"} : TestDecided(t, phase)
  <2>1. PICK t \in Names, phase \in {"Passed", "Failed"} : TestDecided(t, phase)
    BY <1>1
  <2>2. verdict' = [verdict EXCEPT ![t] = phase] /\ Tests[t].phase \notin {"Passed", "Failed", "Gone"}
    <3>1. Tests[t].phase = ""
      BY <2>1, Zenon DEF TestDecided
    <3>2. "" \notin {"Passed", "Failed", "Gone"}
      BY Zenon
    <3> QED
      BY <2>1, <3>1, <3>2, Zenon DEF TestDecided
  <2> QED
    BY <2>2 DEF TypeOK, Evidence, Undecided, VerdictsStay
<1>2. CASE UNCHANGED verdict
  BY <1>2 DEF VerdictsStay
<1> QED
  BY <1>1, <1>2
  DEF Next, Controller, Reconcile, EnsureFinalizer, SetStarting, CleanUpTest, CleanUpMisnamed,
      CleanedUp, ReleaseRun, Panic, MapTests, CreateTest, CreateTestFails, UpdateStatus, RunEvent, TestEvent,
      Restart, Cluster, TestReleased, TestDeleted, TestOrphaned, RunDeleted, SuiteReleases,
      RunEdited, env, vars

\* Every verdict is backed by a Test for each template.
LEMMA NextVerdictSound ==
  ASSUME TypeOK, Mapped, Evidence, Owned, Single, Unedited, RunVerdictSound, MaxLag = 0, MaxEdits = 0,
         NumTests <= Radix, [Next]_vars
  PROVE  RunVerdictSound'
<1>b. Run \in Runs /\ Tests \in TestSets
  BY TypeFacts
<1>c. Run.n = NumTests /\ Run'.n = NumTests
  BY NextUnedited DEF Unedited
<1>1. \A t \in Names : verdict[t] = "Passed" => verdict'[t] = "Passed" /\ Tests'[t].idx = Tests[t].idx
  <2>1. VerdictsStay
    BY VerdictsKept
  <2>2. CASE CreateTest
    <3>1. PICK v \in Names : Tests[v].phase = "Unborn" /\ \E i : Tests' = [Tests EXCEPT ![v] = NewTest(i)]
      BY <2>2, Creates
    <3>2. verdict[v] = "None"
      BY <3>1 DEF Evidence, Undecided
    <3> QED
      BY <1>b, <2>1, <3>1, <3>2, Shapes DEF VerdictsStay
  <2>3. CASE ~CreateTest
    BY <2>1, <2>3, NoneAdded DEF VerdictsStay, Lasting
  <2> QED
    BY <2>2, <2>3
<1>2. ASSUME Run'.phase \in {Run.phase, "Starting", "Gone"}, Run'.results = Run.results
      PROVE  RunVerdictSound'
  BY <1>c, <1>1, <1>2 DEF RunVerdictSound
<1>3. CASE UpdateStatus
  <2>1. /\ Working /\ job.step = "ensure" /\ Tests' = Tests /\ UNCHANGED verdict
        /\ \/ Run' = Run
           \/ /\ Exists(Run) /\ ~OutOfRange
              /\ \E items \in Bijection(0..(Cardinality(Live(job.tests)) - 1), Live(job.tests)) :
                    Run' = WithStatus(Run, job.run, PhaseOf(ResultsOf(items)), ResultsOf(items))
    BY <1>3, Updates DEF UpdateStatus, env
  <2>2. CASE Run' = Run
    BY <1>2, <2>2
  <2>3. CASE Run' # Run
    <3>1. PICK items \in Bijection(0..(Cardinality(Live(job.tests)) - 1), Live(job.tests)) :
            Run' = WithStatus(Run, job.run, PhaseOf(ResultsOf(items)), ResultsOf(items))
      BY <2>1, <2>3
    <3> DEFINE results == ResultsOf(items)
               phase   == PhaseOf(results)
    <3>2. Exists(Run) /\ ~OutOfRange /\ ~IsFinal(Run.phase) /\ job.run.results = Run.results /\ job.run.phase = Run.phase
      BY <2>1, <2>3 DEF Owned, OwnRun
    <3>3. Run'.results = results /\ Run'.phase = phase
      <4> HIDE DEF results, phase
      <4>1. Run' = WithStatus(Run, job.run, phase, results)
        BY <3>1 DEF results, phase
      <4> QED
        BY <1>b, <3>2, <4>1, Shapes DEF WithStatus
    <3>4. phase = "Passed" =>
            \A i \in 0..(NumTests - 1) : \E t \in Names : Tests[t].idx = i /\ verdict[t] = "Passed"
      BY <2>1, <3>2, AllPassed
    <3>5. phase = "Failed" => \E r \in results : ~r.passed
      BY DEF PhaseOf
    <3> QED
      BY <1>c, <2>1, <3>3, <3>4, <3>5 DEF RunVerdictSound
  <2> QED
    BY <2>2, <2>3
<1>4. CASE ~UpdateStatus
  <2>1. Run' = Run \/ (Run'.phase \in {Run.phase, "Starting", "Gone"} /\ Run'.results = Run.results)
    BY <1>4, Reads, Prepares, Cleans, Rests, Releases, Maps, Creates, Elsewhere DEF Next, Controller
  <2> QED
    BY <1>2, <2>1
<1> QED
  BY <1>3, <1>4

\* While reconciles start with current caches, one character tells the
\* templates apart and nobody edits the run: it passes only if a Test of each of
\* its templates passed, and fails only if its results name a Test that failed.
THEOREM RunVerdictsAlwaysSound ==
  ASSUME MaxLag = 0, NumTests <= Radix, MaxEdits = 0
  PROVE  Spec => []RunVerdictSound
<1>1. Init => RunVerdictSound /\ Unedited
  <2> SUFFICES ASSUME Init PROVE RunVerdictSound
    BY InitUnedited
  <2>1. PICK policy \in Policies, fins \in InitialFins : runFeed = <<NewRun(policy, fins)>>
    BY DEF Init
  <2>2. ~IsFinal(Run.phase)
    BY <2>1, NewRunShape, RestartStates DEF Run
  <2> QED
    BY <2>2 DEF RunVerdictSound, IsFinal
<1>2. TypeOK /\ Mapped /\ Evidence /\ Owned /\ Single /\ Unedited /\ RunVerdictSound /\ [Next]_vars
        => Unedited' /\ RunVerdictSound'
  BY NextUnedited, NextVerdictSound
<1> QED
  BY EvidenceInvariant, SingleInvariant, <1>1, <1>2, PTL DEF Spec

-----------------------------------------------------------------------------
(***************************************************************************)
(* What the Test controller, which shares the Tests with this one, can     *)
(* rely on: how a reconcile changes the Tests, and that nothing is done to *)
(* them without a reason.                                                  *)
(***************************************************************************)
\* A reconcile creates Tests and deletes Tests, and leaves them alone otherwise.
LEMMA TestSteps ==
  ASSUME TypeOK, Mapped, MaxLag = 0, Controller, NEW t \in Names
  PROVE  \/ Tests'[t] = Tests[t]
         \/ Tests[t].phase = "Unborn" /\ \E i \in 0..(NumTests - 1) : Tests'[t] = NewTest(i)
         \/ Tests'[t] = Reaped(Deleted(Tests[t]))
<1>1. Tests \in TestSets
  BY TypeFacts
<1>2. ASSUME NEW u \in Names, NEW test, Tests' = [Tests EXCEPT ![u] = test]
      PROVE  Tests'[t] = IF t = u THEN test ELSE Tests[t]
  BY <1>1, <1>2, Shapes
<1>3. CASE Tests' = Tests
  BY <1>3
<1>4. CASE \E u \in Names : CleanUpTest(u) \/ CleanUpMisnamed(u)
  BY <1>2, <1>4, Cleans
<1>5. CASE CreateTest
  <2>1. PICK u \in Names, i \in job.missing : Tests[u].phase = "Unborn" /\ Tests' = [Tests EXCEPT ![u] = NewTest(i)]
    BY <1>5, Creates
  <2>2. i \in 0..(NumTests - 1)
    BY <1>5, <2>1, Creates, TypeFacts
  <2> QED
    BY <1>2, <2>1, <2>2
<1> QED
  BY <1>3, <1>4, <1>5, Reads, Prepares, Rests, Releases, Maps, Updates DEF Controller

\* A step makes the Tests' feed at most one state longer, and only if it changes
\* a Test.
LEMMA Grows ==
  ASSUME TypeOK, Mapped, [Next]_vars
  PROVE  /\ Len(testFeed) \in Nat /\ Len(testFeed') \in Nat
         /\ Len(testFeed') <= Len(testFeed) + (IF Tests' = Tests THEN 0 ELSE 1)
<1>1. testFeed \in Seq(TestSets) /\ testFeed # <<>> /\ Len(testFeed) \in Nat /\ Len(testFeed) >= 1
  BY FeedStates DEF TypeOK
<1>2. ASSUME testFeed' = Publish(testFeed, Tests')
      PROVE  /\ Len(testFeed') \in Nat
             /\ Len(testFeed') <= Len(testFeed) + (IF Tests' = Tests THEN 0 ELSE 1)
  BY <1>1, <1>2, PublishLength DEF Tests
<1>3. CASE UNCHANGED testFeed
  BY <1>1, <1>3 DEF Tests
<1>4. CASE \E t \in Names, test \in TestRecs : PublishTest(t, test)
  <2>1. PICK t \in Names, test \in TestRecs : PublishTest(t, test)
    BY <1>4
  <2>2. Tests' = [Tests EXCEPT ![t] = test]
    BY <2>1, TypeFacts
  <2> QED
    <3>1. testFeed' = Publish(testFeed, Tests')
      BY <2>1, <2>2, Zenon DEF PublishTest
    <3> QED
      BY <1>2, <3>1
<1>5. CASE \E t \in Names : CleanUpTest(t) \/ CleanUpMisnamed(t)
  <2>1. PICK t \in Names : CleanUpTest(t) \/ CleanUpMisnamed(t)
    BY <1>5
  <2>2. PICK out \in Answers(cleanUp(job.tests[t], Tests[t], RunFin, "Resource")) : PublishTest(t, out.obj)
    BY <2>1 DEF CleanUpTest, CleanUpMisnamed
  <2>3. Working
    BY <2>1 DEF CleanUpTest, CleanUpMisnamed, Working
  <2> QED
    BY <1>4, <2>2, <2>3, AnswersAre, TestCalls
<1>6. CASE CreateTest
  <2>1. PICK t \in Names, i \in job.missing : PublishTest(t, NewTest(i))
    BY <1>6 DEF CreateTest
  <2>2. NewTest(i) \in TestRecs
    BY <1>6, <2>1, TypeFacts, NewTestShape DEF CreateTest, Working
  <2> QED
    BY <1>4, <2>1, <2>2
<1>7. CASE Panic \/ Restart
  <2>1. testFeed' = <<Tests>>
    BY <1>7 DEF Panic, Restart
  <2>2. Len(testFeed') = 1 /\ Tests' = Tests
    BY <2>1 DEF Tests, Stored
  <2> QED
    BY <1>1, <2>2
<1>8. CASE TestEvent
  BY <1>1, <1>8, EventStates, EventDrops DEF TestEvent, Tests
<1>9. CASE Cluster
  BY <1>3, <1>4, <1>9, ClusterWrites
<1> QED
  BY <1>3, <1>5, <1>6, <1>7, <1>8, <1>9
  DEF Next, Controller, Reconcile, EnsureFinalizer, SetStarting, CleanedUp, ReleaseRun, MapTests,
      CreateTestFails, UpdateStatus, RunEvent, vars

\* Nobody changes the policy of a run.
LEMMA PolicyStays ==
  ASSUME TypeOK, Mapped, MaxLag = 0, [Next]_vars
  PROVE  Run'.policy = Run.policy
<1>1. CASE UpdateStatus
  BY <1>1, TypeFacts, Shapes, Updates DEF WithStatus
<1>2. CASE ~UpdateStatus
  BY <1>2, Reads, Prepares, Cleans, Rests, Releases, Maps, Creates, Elsewhere DEF Next, Controller
<1> QED
  BY <1>1, <1>2

\* Every Test that was created is there, and is not being deleted, until the
\* run is deleted or is finished with a policy that drops it.
Retained ==
  Exists(Run) /\ ~Run.del /\ ~(IsFinal(Run.phase) /\ Drops(Run)) =>
    \A t \in Names : Tests[t].phase # "Unborn" => t \in Live(Tests)

\* Without deletions by others a run that drops nothing keeps its Tests.
LEMMA NextRetained ==
  ASSUME TypeOK, Mapped, Owned, Unedited, Retained, MaxLag = 0, MaxDeletions = 0, [Next]_vars
  PROVE  Retained'
<1> SUFFICES ASSUME Exists(Run'), ~Run'.del, ~(IsFinal(Run'.phase) /\ Drops(Run')),
                    NEW t \in Names, Tests'[t].phase # "Unborn"
             PROVE  t \in Live(Tests')
  BY DEF Retained, Run, Drops
<1>1. Exists(Run) /\ ~Run.del
  BY NextLife DEF LifeStep, Seen, Exists, IsFinal
<1>2. ~(IsFinal(Run.phase) /\ Drops(Run))
  <2>1. Run'.policy = Run.policy
    BY PolicyStays
  <2>2. IsFinal(Run.phase) => Run'.phase = Run.phase
    BY <1>1, NextLife DEF LifeStep, Seen, Exists, IsFinal
  <2> QED
    BY <2>1, <2>2 DEF Drops
<1>3. CASE Tests[t].phase # "Unborn"
  <2>1. t \in Live(Tests)
    BY <1>1, <1>2, <1>3 DEF Retained
  <2> QED
    BY <1>1, <1>2, <2>1, Losses, NoneMisnamed
<1>4. CASE Tests[t].phase = "Unborn"
  <2>1. CASE Controller
    <3>1. Tests'[t] # Reaped(Deleted(Tests[t]))
      BY <1>4 DEF Reaped, Deleted, Exists
    <3>2. PICK i \in 0..(NumTests - 1) : Tests'[t] = NewTest(i)
      BY <1>4, <2>1, <3>1, TestSteps
    <3> QED
      BY <3>2, NewTestShape DEF Live, Listed
  <2>2. CASE Cluster
    <3>1. Tests' = Tests \/ \E u \in Names : \E test : Exists(Tests[u]) /\ Tests' = [Tests EXCEPT ![u] = test]
      BY <2>2, Elsewhere
    <3>2. Tests \in TestSets
      BY TypeFacts
    <3> QED
      BY <1>4, <3>1, <3>2, Shapes DEF Exists
  <2> QED
    BY <1>4, <2>1, <2>2, Rests DEF Next
<1> QED
  BY <1>3, <1>4

\* In the beginning there are no Tests to keep.
LEMMA InitRetained == Init => Retained
<1> SUFFICES ASSUME Init PROVE Retained
  OBVIOUS
<1>1. Tests = [t \in Names |-> NoTest]
  BY RestartStates DEF Init, Tests
<1> QED
  BY <1>1 DEF Retained, NoTest
=============================================================================

-------------------------- MODULE RunAndTestProofs --------------------------
(***************************************************************************)
(* The two controllers together, for every number of Pods, faults,         *)
(* restarts and evictions and for every retention policy.  A step of the   *)
(* composition is a step of TestRunController and a step of TestController *)
(* as long as their two views of the Test agree; that they do is invariant *)
(* by what was shown of each of them alone.  So the run's controller is    *)
(* implemented, whatever was shown of it holds here, and the verdict of a  *)
(* run and the evidence for it reach down to the Pod.                      *)
(***************************************************************************)
EXTENDS RunAndTest, KubeApiProofs

\* The theorems about the run's controller and about the Test's, of R and of T.
RP == INSTANCE TestRunLifeProofs WITH
  Names <- {Name}, NumTests <- 1, Radix <- 10, InitialFins <- RunFins,
  MaxLag <- 0, MaxBehind <- AnyBehind, MaxDeletions <- 0, MaxEdits <- 0,
  testFeed <- ownFeed, queued <- runQueued, job <- runJob, faults <- runFaults,
  deletions <- 0, edits <- 0

TP == INSTANCE TestControllerProofs WITH
  InitialFins <- {"konfirm.goraft.tech/test-controller"},
  MaxLag <- 0, MaxBehind <- AnyBehind, MaxUid <- 2, queued <- testQueued, job <- testJob, faults <- testFaults

-----------------------------------------------------------------------------
(***************************************************************************)
(* R and RP, and T and TP, are instances of the same modules: a definition *)
(* is the same formula in both, which the provers see once all it is made  *)
(* of is expanded.                                                         *)
(***************************************************************************)
\* The actions of the run's controller, and of those around it.
LEMMA SameRun ==
  /\ R!Init <=> RP!Init
  /\ R!Next <=> RP!Next
  /\ R!Controller <=> RP!Controller
  /\ R!RunEvent <=> RP!RunEvent
  /\ R!TestEvent <=> RP!TestEvent
  /\ R!Restart <=> RP!Restart
  /\ R!RunDeleted <=> RP!RunDeleted
  /\ R!SuiteReleases <=> RP!SuiteReleases
  /\ R!TestOrphaned(Name) <=> RP!TestOrphaned(Name)
  /\ R!vars = RP!vars
  /\ R!Run = RP!Run
  BY
  DEF R!Cardinality, RP!Cardinality, R!IsInjective, RP!IsInjective, R!Injection, RP!Injection,
      R!Surjection, RP!Surjection, R!Bijection, RP!Bijection, R!Cached, RP!Cached, R!Stored, RP!Stored,
      R!Fresh, RP!Fresh, R!Publish, RP!Publish, R!Exists, RP!Exists, R!Reaped, RP!Reaped, R!Settled,
      RP!Settled, R!Deleted, RP!Deleted, R!WithFins, RP!WithFins, R!Patch, RP!Patch, R!PatchFins,
      RP!PatchFins, R!addFinalizer, RP!addFinalizer, R!removeFinalizer, RP!removeFinalizer, R!cleanUp,
      RP!cleanUp, R!RunFin, RP!RunFin, R!SuiteFin, RP!SuiteFin, R!TestFin, RP!TestFin, R!vars, RP!vars,
      R!env, RP!env, R!IsFinal, RP!IsFinal, R!Digit, RP!Digit, R!Listed, RP!Listed, R!Live, RP!Live,
      R!NewRun, RP!NewRun, R!NoTest, RP!NoTest, R!NewTest, RP!NewTest, R!Run, RP!Run, R!Tests, RP!Tests,
      R!PublishTest, RP!PublishTest, R!WithStatus, RP!WithStatus, R!Idle, RP!Idle, R!Working,
      RP!Working, R!At, RP!At, R!Return, RP!Return, R!Answer, RP!Answer, R!Answers, RP!Answers, R!Drops,
      RP!Drops, R!Misnamed, RP!Misnamed, R!Handle, RP!Handle, R!Reconcile, RP!Reconcile,
      R!EnsureFinalizer, RP!EnsureFinalizer, R!SetStarting, RP!SetStarting, R!CleanUpTest,
      RP!CleanUpTest, R!CleanedUp, RP!CleanedUp, R!ReleaseRun, RP!ReleaseRun, R!Digits, RP!Digits,
      R!OutOfRange, RP!OutOfRange, R!Panic, RP!Panic, R!CleanUpMisnamed, RP!CleanUpMisnamed, R!MapTests,
      RP!MapTests, R!CreateTest, RP!CreateTest, R!CreateTestFails, RP!CreateTestFails, R!ResultsOf,
      RP!ResultsOf, R!PhaseOf, RP!PhaseOf, R!UpdateStatus, RP!UpdateStatus, R!Controller, RP!Controller,
      R!RunEvent, RP!RunEvent, R!TestEvent, RP!TestEvent, R!Restart, RP!Restart, R!Others, RP!Others,
      R!TestDecided, RP!TestDecided, R!TestReleased, RP!TestReleased, R!TestDeleted, RP!TestDeleted,
      R!TestOrphaned, RP!TestOrphaned, R!RunDeleted, RP!RunDeleted, R!SuiteReleases, RP!SuiteReleases,
      R!RunEdited, RP!RunEdited, R!Cluster, RP!Cluster, R!Init, RP!Init, R!Next, RP!Next

\* The actions of the Test's controller, and of the nodes.
LEMMA SameTest ==
  /\ T!Controller <=> TP!Controller
  /\ T!TestEvent <=> TP!TestEvent
  /\ T!PodEvent <=> TP!PodEvent
  /\ T!Restart <=> TP!Restart
  BY
  DEF T!Cached, TP!Cached, T!Stored, TP!Stored, T!Fresh, TP!Fresh, T!Publish, TP!Publish, T!Exists,
      TP!Exists, T!Reaped, TP!Reaped, T!Settled, TP!Settled, T!Deleted, TP!Deleted, T!WithFins,
      TP!WithFins, T!Patch, TP!Patch, T!PatchFins, TP!PatchFins, T!addFinalizer, TP!addFinalizer,
      T!removeFinalizer, TP!removeFinalizer, T!cleanUp, TP!cleanUp, T!Fin, TP!Fin, T!env, TP!env,
      T!IsFinal, TP!IsFinal, T!Completed, TP!Completed, T!TestPhaseFor, TP!TestPhaseFor, T!Listed,
      TP!Listed, T!Live, TP!Live, T!WithPhase, TP!WithPhase, T!NewPod, TP!NewPod, T!Test, TP!Test,
      T!Pod, TP!Pod, T!PublishPod, TP!PublishPod, T!Idle, TP!Idle, T!Working, TP!Working, T!At, TP!At,
      T!Return, TP!Return, T!Answer, TP!Answer, T!Answers, TP!Answers, T!ToRelease, TP!ToRelease,
      T!Handle, TP!Handle, T!Reconcile, TP!Reconcile, T!EnsureFinalizer, TP!EnsureFinalizer,
      T!SetPending, TP!SetPending, T!Released, TP!Released, T!ReleasePod, TP!ReleasePod, T!CleanUpPod,
      TP!CleanUpPod, T!LoopFailed, TP!LoopFailed, T!LoopDone, TP!LoopDone, T!Usable, TP!Usable,
      T!Choices, TP!Choices, T!ChoosePod, TP!ChoosePod, T!CreatePod, TP!CreatePod, T!CreatePodFails,
      TP!CreatePodFails, T!UpdateStatus, TP!UpdateStatus, T!Drops, TP!Drops, T!ApplyRetention,
      TP!ApplyRetention, T!RetentionDone, TP!RetentionDone, T!ReleaseTest, TP!ReleaseTest, T!Controller,
      TP!Controller, T!TestEvent, TP!TestEvent, T!PodEvent, TP!PodEvent, T!Restart, TP!Restart

\* What nodes, users and the garbage collector do to a Pod is the same, too.
LEMMA SameNodes ==
  ASSUME NEW p
  PROVE  /\ T!PodStarts(p) <=> TP!PodStarts(p)
         /\ T!PodEnds(p, "Succeeded") <=> TP!PodEnds(p, "Succeeded")
         /\ T!PodEnds(p, "Failed") <=> TP!PodEnds(p, "Failed")
         /\ T!PodRemoved(p) <=> TP!PodRemoved(p)
         /\ T!PodEvicted(p) <=> TP!PodEvicted(p)
         /\ T!PodOrphaned(p) <=> TP!PodOrphaned(p)
  BY
  DEF T!Stored, TP!Stored, T!Publish, TP!Publish, T!Exists, TP!Exists, T!Deleted, TP!Deleted, T!Listed,
      TP!Listed, T!Live, TP!Live, T!Test, TP!Test, T!Pod, TP!Pod, T!PublishPod, TP!PublishPod, T!Others,
      TP!Others, T!PodStarts, TP!PodStarts, T!PodEnds, TP!PodEnds, T!PodRemoved, TP!PodRemoved,
      T!PodEvicted, TP!PodEvicted, T!PodOrphaned, TP!PodOrphaned

\* The Test, its Pods, and what is said of them.
LEMMA SameObjects ==
  /\ T!Test = TP!Test /\ T!Test' = TP!Test' /\ T!Pod = TP!Pod /\ T!Live(T!Pod) = TP!Live(TP!Pod)
  /\ T!Idle = TP!Idle /\ T!NoPod = TP!NoPod /\ R!NoTest = RP!NoTest
  /\ \A policy : T!NewTest(2, policy) = TP!NewTest(2, policy)
  /\ \A phase : /\ T!Reported(phase) <=> TP!Reported(phase)
                /\ R!IsFinal(phase) <=> RP!IsFinal(phase)
                /\ TP!IsFinal(phase) <=> RP!IsFinal(phase)
  /\ \A obj : /\ Exists(obj) <=> TP!Exists(obj)
              /\ RP!Exists(obj) <=> TP!Exists(obj)
              /\ Reaped(obj) = TP!Reaped(obj) /\ RP!Reaped(obj) = TP!Reaped(obj)
              /\ Deleted(obj) = TP!Deleted(obj) /\ RP!Deleted(obj) = TP!Deleted(obj)
              /\ \A fins : RP!WithFins(obj, fins) = TP!WithFins(obj, fins)
  /\ \A feed : /\ Stored(feed) = TP!Stored(feed) /\ Stored(feed) = RP!Stored(feed)
               /\ \A state : /\ Publish(feed, state) = TP!Publish(feed, state)
                             /\ Publish(feed, state) = RP!Publish(feed, state)
  /\ TP!Fin = RP!TestFin
  BY Zenon DEF T!Test, TP!Test, T!Pod, TP!Pod, T!Live, TP!Live, T!Listed, TP!Listed, T!Idle, TP!Idle,
      T!NoPod, TP!NoPod, R!NoTest, RP!NoTest, T!NewTest, TP!NewTest, T!Reported, TP!Reported,
      R!IsFinal, RP!IsFinal, TP!IsFinal, Exists, T!Exists, TP!Exists, RP!Exists, Reaped, TP!Reaped, RP!Reaped,
      Deleted, TP!Deleted, RP!Deleted, RP!WithFins, TP!WithFins, Stored, T!Stored, TP!Stored, RP!Stored,
      Publish, TP!Publish, RP!Publish, TP!Fin, RP!TestFin

\* What the two sets of theorems assume of their constants.
LEMMA TestConstants ==
  /\ Policies \subseteq {"Always", "Never", "OnFailure"}
  /\ {"konfirm.goraft.tech/test-controller"} \subseteq {TP!Fin}
  /\ 0 \in Nat /\ AnyBehind \in Nat /\ MaxFaults \in Nat /\ MaxEvictions \in Nat /\ MaxRestarts \in Nat
  /\ 2 \in Nat \ {0}
  BY ConstantsAssumption DEF AnyBehind, TP!Fin

\* The caches are never as far behind as the two sides may let them be.
LEMMA FarBehind == AnyBehind \in Nat /\ AnyBehind >= 10 /\ MaxBehind \in Nat /\ MaxBehind <= AnyBehind
  BY ConstantsAssumption DEF AnyBehind

\* The constants the run's side is given are those its theorems ask for.
LEMMA RunConstants ==
  /\ RP!IsFiniteSet({Name})
  /\ Policies \subseteq {"Always", "Never", "OnFailure"}
  /\ RunFins \subseteq {{}, {RP!SuiteFin}}
  /\ {1, 10} \subseteq Nat \ {0}
  /\ {0, AnyBehind, MaxFaults, MaxRestarts} \subseteq Nat
<1>1. RP!IsFiniteSet({Name})
  <2>1. <<Name>> \in Seq({Name})
    OBVIOUS
  <2>2. \A e \in {Name} : \E n \in 1..Len(<<Name>>) : <<Name>>[n] = e
    OBVIOUS
  <2> QED
    BY <2>1, <2>2 DEF RP!IsFiniteSet
<1> QED
  BY <1>1, ConstantsAssumption DEF AnyBehind, R!SuiteFin, RP!SuiteFin

-----------------------------------------------------------------------------
(***************************************************************************)
(* Who acts: the steps of the composition in the words of the two sets of  *)
(* theorems.                                                               *)
(***************************************************************************)
RunActs ==
  /\ RP!Controller \/ RP!TestOrphaned(Name)
  /\ \/ Owned' = Owned /\ UNCHANGED testVars
     \/ /\ Owned' # Owned
        /\ testFeed' = TP!Publish(testFeed, IF Owned.phase = "Unborn" THEN TP!NewTest(2, TP!Test.policy)
                                            ELSE TP!Reaped(TP!Deleted(TP!Test)))
        /\ UNCHANGED <<podFeed, testQueued, testJob, outcome, counted, testFaults, evictions>>

TestActs ==
  /\ TP!Controller
  /\ ownFeed' = RP!Publish(ownFeed, [t \in {Name} |-> View(TP!Test')])
  /\ verdict' = IF RP!IsFinal(View(TP!Test').phase) THEN [t \in {Name} |-> View(TP!Test').phase] ELSE verdict
  /\ UNCHANGED <<runFeed, runQueued, runJob, panics, runFaults>>

\* Steps that leave the Test and all the other side knows alone.
RunAlone  == (RP!RunEvent \/ RP!TestEvent \/ (RP!Cluster /\ UNCHANGED <<ownFeed, verdict>>)) /\ UNCHANGED testVars
TestAlone == (TP!TestEvent \/ TP!PodEvent \/ (TP!Cluster /\ UNCHANGED testFeed)) /\ UNCHANGED runVars

\* Every step is one side's, followed by the other, or a bystander's.
LEMMA Acts ==
  ASSUME RP!TypeOK, TP!TypeOK, [Next]_vars
  PROVE  RunActs \/ TestActs \/ RunAlone \/ TestAlone \/ (RP!Restart /\ TP!Restart) \/ UNCHANGED vars
<1>1. CASE RunStep \/ Orphaned
  <2>1. RP!Controller \/ RP!TestOrphaned(Name)
    BY <1>1, SameRun DEF RunStep, Orphaned
  <2>2. testFeed' = Publish(testFeed, IF Owned.phase = "Unborn" THEN T!NewTest(2, T!Test.policy)
                                      ELSE Reaped(Deleted(T!Test)))
        => testFeed' = TP!Publish(testFeed, IF Owned.phase = "Unborn" THEN TP!NewTest(2, TP!Test.policy)
                                            ELSE TP!Reaped(TP!Deleted(TP!Test)))
    BY SameObjects
  <2> QED
    BY <1>1, <2>1, <2>2 DEF RunStep, Orphaned, TestFollows, RunActs
<1>2. CASE TestStep
  <2>1. TP!Controller
    BY <1>2, SameTest DEF TestStep
  <2>2. View(T!Test') = View(TP!Test')
    BY SameObjects
  <2>3. Publish(ownFeed, [t \in {Name} |-> View(T!Test')]) = RP!Publish(ownFeed, [t \in {Name} |-> View(TP!Test')])
    BY <2>2, SameObjects
  <2>4. R!IsFinal(View(T!Test').phase) <=> RP!IsFinal(View(TP!Test').phase)
    BY <2>2, SameObjects
  <2> QED
    BY <1>2, <2>1, <2>2, <2>3, <2>4 DEF TestStep, RunFollows, TestActs
<1>3. CASE Watches
  BY <1>3, SameRun, SameTest DEF Watches, RunAlone, TestAlone
<1>4. CASE Restart
  BY <1>4, SameRun, SameTest DEF Restart
<1>6. CASE Len(podFeed) <= MaxBehind /\ UNCHANGED runVars
           /\ \E p \in Pods : \/ T!PodStarts(p) \/ T!PodEnds(p, "Succeeded") \/ T!PodEnds(p, "Failed")
                              \/ T!PodRemoved(p) \/ T!PodEvicted(p) \/ T!PodOrphaned(p)
  <2>1. Len(podFeed) <= AnyBehind
    BY <1>6, FarBehind DEF TP!TypeOK
  <2>2. PICK p \in Pods : \/ TP!PodStarts(p) \/ TP!PodEnds(p, "Succeeded") \/ TP!PodEnds(p, "Failed")
                          \/ TP!PodRemoved(p) \/ TP!PodEvicted(p) \/ TP!PodOrphaned(p)
    BY <1>6, SameNodes
  <2>3. UNCHANGED testFeed
    BY <2>2 DEF TP!PodStarts, TP!PodEnds, TP!PodRemoved, TP!PodEvicted, TP!PodOrphaned
  <2> QED
    BY <1>6, <2>1, <2>2, <2>3 DEF TP!Cluster, TestAlone
<1>7. CASE Len(runFeed) <= MaxBehind /\ (R!RunDeleted \/ R!SuiteReleases) /\ UNCHANGED testVars
  <2>1. Len(runFeed) <= AnyBehind
    BY <1>7, FarBehind DEF RP!TypeOK
  <2>2. RP!RunDeleted \/ RP!SuiteReleases
    BY <1>7, SameRun
  <2>3. UNCHANGED <<ownFeed, verdict>>
    BY <2>2 DEF RP!RunDeleted, RP!SuiteReleases
  <2> QED
    BY <1>7, <2>1, <2>2, <2>3 DEF RP!Cluster, RunAlone
<1> QED
  BY <1>1, <1>2, <1>3, <1>4, <1>6, <1>7 DEF Next, Cluster, Nodes

-----------------------------------------------------------------------------
(***************************************************************************)
(* The inductive invariant: what was shown of each controller alone, that  *)
(* the two views of the Test agree, and how far its feeds can be behind.   *)
(***************************************************************************)
RunInv  == RP!TypeOK /\ RP!Mapped /\ RP!Evidence /\ RP!Owned /\ RP!Unedited /\ RP!Retained
TestInv == TP!TypeOK /\ TP!Evidence /\ TP!Current /\ TP!Held /\ TP!Short

\* The run's controller sees the Test its controller has, with the policy of the
\* run.  Until it is created nothing has happened to it, and every Pod is its own.
Linked ==
  /\ Owned = View(TP!Test)
  /\ TP!Test.policy = RP!Run.policy
  /\ TP!Test.uid = 1 => /\ ~TP!Exists(TP!Test) /\ Len(testFeed) = 1
                        /\ \A p \in Pods : TP!Pod[p].phase = "Unborn"
  /\ \A p \in Pods : TP!Pod[p].phase # "Unborn" => TP!Pod[p].owner = 2

\* A Test is created, decided, deleted and removed once each, so the run's feed
\* of it is short however long its events take.
Rank(test) ==
  IF test.phase = "Unborn" THEN 1 ELSE IF test.phase = "Gone" THEN 5
  ELSE 2 + (IF RP!IsFinal(test.phase) THEN 1 ELSE 0) + (IF test.del THEN 1 ELSE 0)

Brief == Len(ownFeed) <= Rank(Owned)

\* The run's controller takes a Test for decided only if a node reported so.
Judged == \A phase \in {"Passed", "Failed"} :
  verdict[Name] = phase => TP!Reported(IF phase = "Passed" THEN "Succeeded" ELSE "Failed")

\* Every Pod that was created is there, and is not being deleted, until somebody
\* evicts it, deletes its Test or the decided Test's policy drops it.
Untouched ==
  evictions = 0 /\ TP!Exists(TP!Test) /\ ~TP!Test.del /\ ~(TP!IsFinal(TP!Test.phase) /\ TP!Drops(TP!Test)) =>
    \A p \in Pods : TP!Pod[p].phase # "Unborn" => p \in TP!Live(TP!Pod)

-----------------------------------------------------------------------------
\* The phase of a Test that shows none.
NoPhase == ""

\* The Test in both views, with no literal the provers cannot handle.
LEMMA Views ==
  /\ NoPhase \notin {"Passed", "Failed", "Gone", "Unborn"}
  /\ \A test : View(test) =
       IF test.uid = 1 THEN RP!NoTest
       ELSE [idx |-> 0, phase |-> IF test.phase \in {"Passed", "Failed", "Gone"} THEN test.phase ELSE NoPhase,
             del |-> test.del, fins |-> test.fins]
  /\ RP!NoTest = [idx |-> 0, phase |-> "Unborn", del |-> FALSE, fins |-> {}]
  /\ RP!NewTest(0) = [idx |-> 0, phase |-> NoPhase, del |-> FALSE, fins |-> {TP!Fin}]
  /\ \A uid, policy : TP!NewTest(uid, policy) =
       [uid |-> uid, policy |-> policy, phase |-> NoPhase, del |-> FALSE, fins |-> {TP!Fin}]
<1>1. NoPhase \notin {"Passed", "Failed", "Gone", "Unborn"}
  BY Zenon DEF NoPhase
<1>2. \A test : View(test) =
        IF test.uid = 1 THEN RP!NoTest
        ELSE [idx |-> 0, phase |-> IF test.phase \in {"Passed", "Failed", "Gone"} THEN test.phase ELSE NoPhase,
              del |-> test.del, fins |-> test.fins]
  BY SameObjects, Zenon DEF View, NoPhase
<1>3. RP!NewTest(0) = [idx |-> 0, phase |-> NoPhase, del |-> FALSE, fins |-> {TP!Fin}]
  BY Zenon DEF RP!NewTest, NoPhase, RP!TestFin, TP!Fin
<1>4. \A uid, policy : TP!NewTest(uid, policy) =
        [uid |-> uid, policy |-> policy, phase |-> NoPhase, del |-> FALSE, fins |-> {TP!Fin}]
  BY Zenon DEF TP!NewTest, NoPhase, TP!Fin
<1>5. RP!NoTest = [idx |-> 0, phase |-> "Unborn", del |-> FALSE, fins |-> {}]
  BY DEF RP!NoTest
<1> QED
  BY <1>1, <1>2, <1>3, <1>4, <1>5

\* A Test that was created, as the run's controller sees it.
LEMMA ViewOf ==
  ASSUME NEW test, test.uid = 2
  PROVE  View(test) = [idx |-> 0,
                       phase |-> IF test.phase \in {"Passed", "Failed", "Gone"} THEN test.phase ELSE NoPhase,
                       del |-> test.del, fins |-> test.fins]
  BY Views

\* A Test without a phase may be decided.
LEMMA Decides ==
  ASSUME NEW phase, TP!Exists(Owned), Owned.phase = NoPhase,
         RP!PublishTest(Name, [Owned EXCEPT !.phase = phase]), verdict' = [verdict EXCEPT ![Name] = phase],
         UNCHANGED <<runFeed, runQueued, runJob, panics, runFaults, restarts>>
  PROVE  RP!TestDecided(Name, phase)
<1>1. RP!Tests[Name] = Owned
  BY SameObjects DEF RP!Tests, Owned
<1>2. RP!Exists(Owned)
  BY SameObjects
<1> QED
  BY <1>1, <1>2, Zenon DEF RP!TestDecided, RP!Others, NoPhase

\* The two views of the Test, and of its feed.
LEMMA Shared ==
  ASSUME TestInv, RunInv, Linked
  PROVE  /\ TP!Test \in [uid : 1..2, policy : Policies, phase : TP!TestPhases \cup {"Gone"},
                         del : BOOLEAN, fins : SUBSET {TP!Fin}]
         /\ RP!Tests[Name] = Owned /\ RP!Tests = [t \in {Name} |-> Owned]
         /\ ownFeed \in Seq(RP!TestSets) /\ ownFeed # <<>>
         /\ verdict = [t \in {Name} |-> verdict[Name]]
         /\ TP!Exists(TP!Test) => TP!Test.uid = 2 /\ TP!Test.fins = {TP!Fin}
         /\ TP!Test.uid = 2 =>
              /\ Owned.idx = 0 /\ Owned.del = TP!Test.del /\ Owned.fins = TP!Test.fins
              /\ Owned.phase = IF TP!Test.phase \in {"Passed", "Failed", "Gone"} THEN TP!Test.phase ELSE NoPhase
         /\ TP!Exists(Owned) <=> TP!Exists(TP!Test)
         /\ Owned.phase = "Unborn" <=> TP!Test.uid = 1
         /\ RP!IsFinal(Owned.phase) <=> TP!Test.uid = 2 /\ TP!IsFinal(TP!Test.phase)
<1>1. TP!Test \in [uid : 1..2, policy : Policies, phase : TP!TestPhases \cup {"Gone"},
                   del : BOOLEAN, fins : SUBSET {TP!Fin}]
  BY TestConstants, TP!TypeFacts DEF TestInv, TP!Tests
<1>2. RP!Tests[Name] = Owned
  BY SameObjects DEF RP!Tests, Owned
<1>3. RP!Tests = [t \in {Name} |-> Owned]
  <2>1. RP!Tests \in [{Name} -> RP!TestRecs]
    BY RunConstants, RP!TypeFacts, RP!Shapes DEF RunInv
  <2> QED
    BY <1>2, <2>1
<1>4. ownFeed \in Seq(RP!TestSets) /\ ownFeed # <<>> /\ verdict = [t \in {Name} |-> verdict[Name]]
  BY DEF RunInv, RP!TypeOK
<1>5. TP!Exists(TP!Test) => TP!Test.uid = 2 /\ TP!Test.fins = {TP!Fin}
  BY <1>1 DEF TestInv, Linked, TP!Held
<1>6. TP!Test.uid = 2 =>
        /\ Owned.idx = 0 /\ Owned.del = TP!Test.del /\ Owned.fins = TP!Test.fins
        /\ Owned.phase = IF TP!Test.phase \in {"Passed", "Failed", "Gone"} THEN TP!Test.phase ELSE NoPhase
  BY Views DEF Linked
<1>7. TP!Test.uid = 1 => Owned.phase = "Unborn" /\ ~TP!Exists(TP!Test)
  BY Views DEF Linked
<1>8. TP!Test.phase # "Unborn"
  <2>1. "Unborn" \notin TP!TestPhases \cup {"Gone"}
    BY Zenon DEF TP!TestPhases
  <2> QED
    BY <1>1, <2>1
<1> QED
  BY <1>1, <1>2, <1>3, <1>4, <1>5, <1>6, <1>7, <1>8, Views DEF TP!Exists, RP!IsFinal, TP!IsFinal

-----------------------------------------------------------------------------
(***************************************************************************)
(* A step of one is a step of the other, or nothing at all to it.          *)
(***************************************************************************)
\* What a step does to both.
Joint ==
  /\ [RP!Next]_RP!vars /\ [TP!Next]_TP!vars
  /\ Owned' = View(TP!Test')
  /\ Owned' = Owned \/ Rank(Owned') > Rank(Owned)
  /\ \/ UNCHANGED verdict
     \/ TP!IsFinal(TP!Test'.phase) /\ verdict' = [t \in {Name} |-> TP!Test'.phase]

\* Only the restart of the manager counts restarts.
LEMMA RestartsStay ==
  /\ RP!Controller \/ RP!RunEvent \/ RP!TestEvent \/ RP!Cluster => UNCHANGED restarts
  /\ TP!Controller \/ TP!TestEvent \/ TP!PodEvent \/ TP!Cluster => UNCHANGED restarts
<1>1. RP!Controller \/ RP!RunEvent \/ RP!TestEvent \/ RP!Cluster => UNCHANGED restarts
  BY DEF RP!Controller, RP!Reconcile, RP!EnsureFinalizer, RP!SetStarting, RP!CleanUpTest, RP!CleanUpMisnamed,
      RP!CleanedUp, RP!ReleaseRun, RP!Panic, RP!MapTests, RP!CreateTest, RP!CreateTestFails, RP!UpdateStatus,
      RP!RunEvent, RP!TestEvent, RP!Cluster, RP!TestDecided, RP!TestReleased, RP!TestDeleted, RP!TestOrphaned,
      RP!RunDeleted, RP!SuiteReleases, RP!RunEdited, RP!Others, RP!env
<1>2. TP!Controller \/ TP!TestEvent \/ TP!PodEvent \/ TP!Cluster => UNCHANGED restarts
  BY DEF TP!Controller, TP!Reconcile, TP!EnsureFinalizer, TP!SetPending, TP!ReleasePod, TP!CleanUpPod,
      TP!LoopFailed, TP!ChoosePod, TP!CreatePod, TP!CreatePodFails, TP!UpdateStatus, TP!ApplyRetention,
      TP!RetentionDone, TP!ReleaseTest, TP!TestEvent, TP!PodEvent, TP!Cluster, TP!PodStarts, TP!PodEnds,
      TP!PodRemoved, TP!PodEvicted, TP!PodOrphaned, TP!TestDeleted, TP!TestCreatedAgain, TP!Others, TP!env
<1> QED
  BY <1>1, <1>2

\* The run's controller, and the garbage collector, leave the verdicts to the
\* Tests' controller.
LEMMA RunLeavesVerdict ==
  RP!Controller \/ RP!RunEvent \/ RP!TestEvent \/ RP!TestOrphaned(Name) => UNCHANGED verdict
  BY DEF RP!Controller, RP!Reconcile, RP!EnsureFinalizer, RP!SetStarting, RP!CleanUpTest, RP!CleanUpMisnamed,
      RP!CleanedUp, RP!ReleaseRun, RP!Panic, RP!MapTests, RP!CreateTest, RP!CreateTestFails, RP!UpdateStatus,
      RP!RunEvent, RP!TestEvent, RP!TestOrphaned, RP!env

\* The run's feed of its Test is never long enough to hold the cluster up.
LEMMA FeedShort ==
  ASSUME TestInv, RunInv, Linked, Brief
  PROVE  Len(ownFeed) <= AnyBehind
<1>1. Rank(Owned) \in 1..5
  BY DEF Rank
<1>2. Len(ownFeed) \in Nat
  BY Shared
<1> QED
  BY <1>1, <1>2, FarBehind DEF Brief

\* What the run's controller does to its Test is what its owner may do: it
\* creates it once, and it or the garbage collector deletes it once.
LEMMA RunActsJoint ==
  ASSUME TestInv, RunInv, Linked, Brief, RunActs
  PROVE  Joint
<1>1. UNCHANGED <<restarts, verdict>> /\ RP!Next
  <2>1. RP!Controller \/ (RP!TestOrphaned(Name) /\ RP!Cluster)
    BY FeedShort DEF RunActs, RP!Cluster
  <2> QED
    BY <2>1, RestartsStay, RunLeavesVerdict DEF RP!Next
<1>2. CASE Owned' = Owned
  <2>1. UNCHANGED testVars
    BY <1>2 DEF RunActs
  <2>2. TP!Test' = TP!Test
    BY <2>1 DEF testVars, TP!Test
  <2>3. UNCHANGED TP!vars
    BY <1>1, <2>1 DEF testVars, TP!vars
  <2> QED
    BY <1>1, <1>2, <2>2, <2>3 DEF Joint, Linked, View
<1>3. CASE Owned' # Owned
  <2>1. /\ testFeed' = TP!Publish(testFeed, IF Owned.phase = "Unborn" THEN TP!NewTest(2, TP!Test.policy)
                                            ELSE TP!Reaped(TP!Deleted(TP!Test)))
        /\ UNCHANGED <<podFeed, testQueued, testJob, outcome, counted, testFaults, evictions>>
    BY <1>3 DEF RunActs
  <2>2. TP!Others
    BY <1>1, <2>1 DEF TP!Others
  <2>3. RP!Tests'[Name] = Owned'
    BY SameObjects DEF RP!Tests, Owned
  <2>4. \/ Owned.phase = "Unborn" /\ Owned' = RP!NewTest(0)
        \/ Owned' = TP!Reaped(TP!Deleted(Owned))
    <3>1. \/ RP!Tests[Name].phase = "Unborn" /\ \E i \in 0..(1 - 1) : RP!Tests'[Name] = RP!NewTest(i)
          \/ RP!Tests'[Name] = RP!Reaped(RP!Deleted(RP!Tests[Name]))
      <4>1. CASE RP!Controller
        BY <1>3, <2>3, <4>1, Shared, RunConstants, RP!TestSteps DEF RunInv
      <4>2. CASE RP!TestOrphaned(Name)
        <5> DEFINE test == RP!Reaped(RP!Deleted(RP!Tests[Name]))
        <5>1. RP!PublishTest(Name, test)
          BY <4>2 DEF RP!TestOrphaned
        <5>2. RP!Tests \in RP!TestSets /\ test \in RP!TestRecs
          BY RunConstants, RP!TypeFacts, RP!TestTypes DEF RunInv
        <5> HIDE DEF test
        <5>3. RP!Tests' = [RP!Tests EXCEPT ![Name] = test]
          BY <5>1, <5>2, RunConstants, RP!TypeFacts DEF RunInv
        <5> QED
          BY <5>2, <5>3, RunConstants, RP!Shapes DEF test
      <4> QED
        BY <4>1, <4>2 DEF RunActs
    <3>2. RP!Tests[Name] = Owned
      BY Shared
    <3>3. \A i \in 0..(1 - 1) : i = 0
      OBVIOUS
    <3> QED
      BY <2>3, <3>1, <3>2, <3>3, SameObjects
  <2>5. CASE Owned.phase = "Unborn"
    <3>1. TP!Test.uid = 1 /\ ~TP!Exists(TP!Test)
      BY <2>5, Shared DEF Linked
    <3>2. Owned' = RP!NewTest(0)
      BY <1>3, <2>4, <2>5 DEF TP!Reaped, TP!Deleted, TP!Exists
    <3>3. TP!TestCreatedAgain
      BY <2>1, <2>2, <2>5, <3>1 DEF TP!TestCreatedAgain
    <3>4. Len(testFeed) <= AnyBehind
      <4>1. Len(testFeed) = 1
        BY <3>1 DEF Linked
      <4> QED
        BY <4>1, FarBehind
    <3>5. TP!Test' = TP!NewTest(2, TP!Test.policy)
      BY <2>1, <2>5, <3>1, <3>3, TestConstants, TP!UserTypes, TP!Stores DEF TestInv
    <3>6. Owned' = View(TP!Test')
      <4> DEFINE test == TP!NewTest(2, TP!Test.policy)
      <4>1. test.uid = 2 /\ test.phase = NoPhase /\ test.del = FALSE /\ test.fins = {TP!Fin}
        BY Views
      <4> HIDE DEF test
      <4>2. View(test) = RP!NewTest(0)
        BY <4>1, ViewOf, Views
      <4> QED
        BY <3>2, <3>5, <4>2 DEF test
    <3>7. Rank(Owned') > Rank(Owned)
      BY <2>5, <3>2, Views DEF Rank, RP!IsFinal
    <3> QED
      BY <1>1, <3>3, <3>4, <3>6, <3>7 DEF Joint, TP!Next, TP!Cluster
  <2>6. CASE Owned.phase # "Unborn"
    <3>1. Owned' = TP!Reaped(TP!Deleted(Owned))
      BY <2>4, <2>6
    <3>2. TP!Exists(Owned) /\ Owned.del # TRUE
      <4>1. TP!Exists(Owned)
        BY <1>3, <3>1 DEF TP!Reaped, TP!Deleted
      <4>2. Owned.del = TP!Test.del /\ Owned.del \in BOOLEAN /\ Owned.fins = {TP!Fin}
        BY <4>1, Shared
      <4>3. Owned.del => TP!Deleted(Owned) = Owned
        BY <4>1, <4>2, Views DEF Linked, TP!Deleted, TP!Exists
      <4> QED
        BY <1>3, <3>1, <4>1, <4>2, <4>3 DEF TP!Reaped
    <3>3. TP!Exists(TP!Test) /\ TP!Test.uid = 2 /\ TP!Test.fins = {TP!Fin} /\ ~TP!Test.del
          /\ Owned.fins = {TP!Fin} /\ ~Owned.del
      BY <3>2, Shared
    <3>4. TP!TestDeleted
      BY <2>1, <2>2, <2>6, <3>3 DEF TP!TestDeleted
    <3>5. Len(testFeed) <= AnyBehind
      <4>1. Len(testFeed) <= TP!Depth(testJob.step) /\ Len(testFeed) \in Nat
        <5>1. Len(testFeed) \in Nat
          BY DEF TestInv, TP!TypeOK
        <5>2. TP!Depth(testJob.step) \in 2..4
          BY TestConstants, TP!Depths
        <5> QED
          BY <3>3, <5>1, <5>2 DEF TestInv, TP!Short
      <4>2. TP!Depth(testJob.step) \in 2..4
        BY TestConstants, TP!Depths
      <4> QED
        BY <4>1, <4>2, FarBehind
    <3>6. TP!Test' = [TP!Test EXCEPT !.del = TRUE]
      <4>1. TP!Test' = TP!Reaped(TP!Deleted(TP!Test))
        BY <2>1, <2>6, TestConstants, TP!UserTypes, TP!Stores DEF TestInv
      <4> QED
        BY <3>3, <4>1, Shared DEF TP!Reaped, TP!Deleted, TP!Exists
    <3>7. Owned' = [Owned EXCEPT !.del = TRUE]
      BY <3>1, <3>3, Views DEF Linked, TP!Reaped, TP!Deleted, TP!Exists
    <3>8. Owned' = View(TP!Test')
      <4> DEFINE test == TP!Test
      <4>1. test.uid = 2 /\ test \in [uid : 1..2, policy : Policies, phase : TP!TestPhases \cup {"Gone"},
                                     del : BOOLEAN, fins : SUBSET {TP!Fin}]
        BY <3>3, Shared
      <4> HIDE DEF test
      <4> DEFINE new == [test EXCEPT !.del = TRUE]
      <4>2. new.uid = 2 /\ new.phase = test.phase /\ new.del = TRUE /\ new.fins = test.fins
        BY <4>1
      <4> HIDE DEF new
      <4>3. View(new) = [View(test) EXCEPT !.del = TRUE]
        BY <4>1, <4>2, ViewOf
      <4> QED
        BY <3>6, <3>7, <4>3 DEF test, new, Linked
    <3>9. Rank(Owned') > Rank(Owned)
      BY <3>2, <3>3, <3>7, Views DEF Linked, Rank, TP!Exists
    <3> QED
      BY <1>1, <3>4, <3>5, <3>8, <3>9 DEF Joint, TP!Next, TP!Cluster
  <2> QED
    BY <2>5, <2>6
<1> QED
  BY <1>2, <1>3

\* What the Test's controller does to it is what the run's owner lets the
\* cluster do: it decides the Test and lets go of it.
LEMMA TestActsJoint ==
  ASSUME TestInv, RunInv, Linked, Brief, TestActs
  PROVE  Joint
<1> DEFINE view == View(TP!Test')
<1>1. TP!Next /\ UNCHANGED <<restarts, runFeed, runQueued, runJob, panics, runFaults>>
  BY RestartsStay DEF TestActs, TP!Next
<1>2. /\ ownFeed' = RP!Publish(ownFeed, [t \in {Name} |-> view])
      /\ verdict' = IF RP!IsFinal(view.phase) THEN [t \in {Name} |-> view.phase] ELSE verdict
  BY DEF TestActs
<1>3. RP!Others
  BY <1>1 DEF RP!Others
<1>4. \/ TP!Test' = TP!Test
      \/ /\ TP!Exists(TP!Test) /\ ~TP!IsFinal(TP!Test.phase)
         /\ \E phase \in TP!TestPhases : TP!Test' = [TP!Test EXCEPT !.phase = phase]
      \/ TP!Exists(TP!Test) /\ TP!Test.del /\ TP!Test' = [TP!Test EXCEPT !.phase = "Gone", !.fins = {}]
  <2>1. TP!TypeOK /\ TP!Current /\ testJob.step # "finalizer" /\ TP!Controller
    BY DEF TestInv, TP!Held, TestActs
  <2> QED
    BY <2>1, TestConstants, TP!ControllerSteps
<1>5. RP!Tests = [t \in {Name} |-> Owned] /\ RP!Stored(ownFeed) = RP!Tests
  BY Shared DEF RP!Tests
<1>6. [t \in {Name} |-> view] \in RP!TestSets => Owned' = view
  <2>1. ownFeed \in Seq(RP!TestSets) /\ ownFeed # <<>>
    BY Shared
  <2> HIDE DEF view
  <2> SUFFICES ASSUME [t \in {Name} |-> view] \in RP!TestSets PROVE Owned' = view
    OBVIOUS
  <2>2. RP!Stored(ownFeed') = [t \in {Name} |-> view]
    BY <1>2, <2>1, RunConstants, RP!PublishStates
  <2>3. Stored(ownFeed') = [t \in {Name} |-> view]
    BY <2>2, SameObjects
  <2> QED
    BY <2>3 DEF Owned
<1>7. ASSUME view = Owned
      PROVE  UNCHANGED RP!vars /\ Owned' = view /\ UNCHANGED verdict
  <2>1. ownFeed' = ownFeed
    BY <1>2, <1>5, <1>7 DEF RP!Publish
  <2>2. RP!IsFinal(Owned.phase) => verdict[Name] = Owned.phase
    <3>1. Len(ownFeed) \in 1..Len(ownFeed) /\ ownFeed[Len(ownFeed)] = RP!Tests
      <4>1. ownFeed \in Seq(RP!TestSets) /\ ownFeed # <<>>
        BY Shared
      <4>2. Len(ownFeed) \in Nat \ {0} /\ RP!Stored(ownFeed) = ownFeed[Len(ownFeed)]
        BY <4>1, RunConstants, RP!FeedStates
      <4> QED
        BY <4>2 DEF RP!Tests
    <3>2. RP!Agrees(RP!Tests)
      BY <3>1 DEF RunInv, RP!Evidence, RP!FeedAgrees
    <3> QED
      BY <3>2, Shared DEF RP!Agrees
  <2>3. verdict' = verdict
    BY <1>2, <1>7, <2>2, Shared
  <2>4. Owned' = Owned
    BY <2>1 DEF Owned
  <2> QED
    BY <1>1, <1>7, <2>1, <2>3, <2>4 DEF RP!vars
<1>8. ASSUME view = Owned PROVE Joint
  BY <1>1, <1>7, <1>8 DEF Joint
<1>9. Len(ownFeed) <= AnyBehind
  BY FeedShort
<1>10. CASE TP!Test' = TP!Test
  <2>1. view = View(TP!Test)
    BY <1>10
  <2> QED
    BY <1>8, <2>1 DEF Linked
<1>11. ASSUME TP!Exists(TP!Test), ~TP!IsFinal(TP!Test.phase),
              NEW phase \in TP!TestPhases, TP!Test' = [TP!Test EXCEPT !.phase = phase]
       PROVE  Joint
  <2> DEFINE test == TP!Test
             new  == [test EXCEPT !.phase = phase]
  <2>1. test \in [uid : 1..2, policy : Policies, phase : TP!TestPhases \cup {"Gone"},
                  del : BOOLEAN, fins : SUBSET {TP!Fin}]
        /\ test.uid = 2 /\ test.phase \notin {"Passed", "Failed", "Gone"}
    BY <1>11, Shared DEF TP!IsFinal, TP!Exists
  <2>2. phase # "Gone" /\ phase # "Unborn"
    BY <1>11, Zenon DEF TP!TestPhases
  <2> HIDE DEF test
  <2>3. new.uid = 2 /\ new.phase = phase /\ new.del = test.del /\ new.fins = test.fins
    BY <2>1
  <2>4. View(test) = [idx |-> 0, phase |-> NoPhase, del |-> test.del, fins |-> test.fins]
    BY <2>1, ViewOf
  <2> HIDE DEF new
  <2>5. View(new) = [idx |-> 0, phase |-> IF phase \in {"Passed", "Failed", "Gone"} THEN phase ELSE NoPhase,
                     del |-> test.del, fins |-> test.fins]
    BY <2>3, ViewOf
  <2>6. Owned = View(test) /\ view = View(new)
    BY <1>11 DEF Linked, test, new
  <2>7. CASE phase \notin {"Passed", "Failed"}
    BY <1>8, <2>2, <2>4, <2>5, <2>6, <2>7
  <2>8. CASE phase \in {"Passed", "Failed"}
    <3>1. view = [Owned EXCEPT !.phase = phase] /\ view.phase = phase /\ Owned.phase = NoPhase
      BY <2>4, <2>5, <2>6, <2>8
    <3> HIDE DEF view
    <3>2. RP!PublishTest(Name, [Owned EXCEPT !.phase = phase])
      <4>1. [RP!Tests EXCEPT ![Name] = view] = [t \in {Name} |-> view]
        BY <1>5
      <4> QED
        BY <1>2, <3>1, <4>1 DEF RP!PublishTest
    <3>3. verdict' = [t \in {Name} |-> phase] /\ verdict' = [verdict EXCEPT ![Name] = phase]
      <4>1. RP!IsFinal(phase)
        BY <2>8 DEF RP!IsFinal
      <4> QED
        BY <1>2, <3>1, <4>1, Shared
    <3>4. RP!TestDecided(Name, phase)
      <4>1. TP!Exists(Owned)
        BY <1>11, Shared
      <4> QED
        BY <1>1, <3>1, <3>2, <3>3, <4>1, Decides
    <3>5. RP!Next
      BY <1>9, <2>8, <3>4 DEF RP!Next, RP!Cluster
    <3>6. [t \in {Name} |-> view] \in RP!TestSets
      <4>1. Owned \in RP!TestRecs
        BY Shared, RunConstants, RP!TypeFacts DEF RunInv
      <4>2. view \in RP!TestRecs
        BY <2>8, <3>1, <4>1, RunConstants, RP!Phases DEF RP!TestRecs
      <4> QED
        BY <4>2, RunConstants, RP!Shapes
    <3>7. Owned' = view
      BY <1>6, <3>6
    <3>8. Rank(Owned') > Rank(Owned)
      BY <2>4, <2>6, <2>8, <3>1, <3>7, Views DEF Rank, RP!IsFinal
    <3>9. TP!Test'.phase = phase /\ TP!IsFinal(phase)
      BY <1>11, <2>3, <2>8 DEF new, test, TP!IsFinal
    <3> QED
      BY <1>1, <3>3, <3>5, <3>7, <3>8, <3>9 DEF Joint, view
  <2> QED
    BY <2>7, <2>8
<1>12. CASE TP!Exists(TP!Test) /\ TP!Test.del /\ TP!Test' = [TP!Test EXCEPT !.phase = "Gone", !.fins = {}]
  <2> DEFINE test == TP!Test
             new  == [test EXCEPT !.phase = "Gone", !.fins = {}]
  <2>1. test \in [uid : 1..2, policy : Policies, phase : TP!TestPhases \cup {"Gone"},
                  del : BOOLEAN, fins : SUBSET {TP!Fin}]
        /\ test.uid = 2 /\ test.del = TRUE /\ test.fins = {TP!Fin}
    BY <1>12, Shared
  <2>2. TP!Exists(Owned) /\ Owned.del = TRUE /\ Owned.fins = {TP!Fin} /\ Owned.idx = 0
    BY <1>12, <2>1, Shared DEF test
  <2>3. view = View(new)
    BY <1>12
  <2> HIDE DEF test
  <2>4. new.uid = 2 /\ new.phase = "Gone" /\ new.del = TRUE /\ new.fins = {}
    BY <2>1
  <2> HIDE DEF new
  <2>5. View(new) = [idx |-> 0, phase |-> "Gone", del |-> TRUE, fins |-> {}]
    BY <2>4, ViewOf
  <2>6. view = [idx |-> 0, phase |-> "Gone", del |-> TRUE, fins |-> {}]
    BY <2>3, <2>5
  <2> HIDE DEF view
  <2>7. Owned \in RP!TestRecs
    BY Shared, RunConstants, RP!TypeFacts DEF RunInv
  <2>8. RP!Reaped(RP!WithFins(Owned, Owned.fins \ {RP!TestFin})) = view
    <3>1. Owned.fins \ {TP!Fin} = {}
      BY <2>2
    <3>2. TP!Reaped(TP!WithFins(Owned, {})) = view
      <4> DEFINE free == [Owned EXCEPT !.fins = {}]
      <4>1. TP!WithFins(Owned, {}) = free
        BY <2>2 DEF TP!WithFins
      <4>2. free = [idx |-> 0, phase |-> Owned.phase, del |-> TRUE, fins |-> {}]
        <5>1. PICK phase : Owned = [idx |-> 0, phase |-> phase, del |-> TRUE, fins |-> {TP!Fin}]
          BY <2>2, <2>7 DEF RP!TestRecs
        <5>2. \A del, old, fins : [[idx |-> 0, phase |-> phase, del |-> del, fins |-> old] EXCEPT !.fins = fins]
                                 = [idx |-> 0, phase |-> phase, del |-> del, fins |-> fins]
          OBVIOUS
        <5>3. Owned.phase = phase
          BY <5>1
        <5> QED
          BY <5>1, <5>2, <5>3
      <4>3. TP!Reaped(free) = [free EXCEPT !.phase = "Gone"]
        BY <2>2, <4>2 DEF TP!Reaped, TP!Exists
      <4> QED
        BY <2>6, <4>1, <4>2, <4>3
    <3> QED
      BY <3>1, <3>2, SameObjects
  <2>9. RP!TestReleased(Name)
    <3>1. [RP!Tests EXCEPT ![Name] = view] = [t \in {Name} |-> view]
      BY <1>5
    <3>2. RP!Tests[Name] = Owned
      BY Shared
    <3>3. verdict' = verdict
      BY <1>2, <2>6 DEF RP!IsFinal
    <3>4. RP!Exists(Owned)
      BY <2>2, SameObjects
    <3> QED
      BY <1>1, <1>2, <1>3, <2>2, <2>8, <3>1, <3>2, <3>3, <3>4 DEF RP!TestReleased, RP!PublishTest
  <2>10. RP!Next
    BY <1>9, <2>9 DEF RP!Next, RP!Cluster
  <2>11. [t \in {Name} |-> view] \in RP!TestSets
    <3>1. view \in RP!TestRecs
      BY <2>6, RunConstants, RP!Phases DEF RP!TestRecs
    <3> QED
      BY <3>1, RunConstants, RP!Shapes
  <2>12. Owned' = view
    BY <1>6, <2>11
  <2>13. Rank(Owned') > Rank(Owned)
    BY <2>2, <2>6, <2>12 DEF Rank, TP!Exists
  <2>14. verdict' = verdict
    BY <1>2, <2>6 DEF RP!IsFinal
  <2> QED
    BY <1>1, <2>10, <2>12, <2>13, <2>14 DEF Joint, view
<1> QED
  BY <1>4, <1>10, <1>11, <1>12

\* The watches, the nodes, whoever deletes the run, and the restart of the
\* manager leave the Test as it is.
LEMMA BystandersJoint ==
  ASSUME TestInv, RunInv, Linked, RunAlone \/ TestAlone \/ (RP!Restart /\ TP!Restart) \/ UNCHANGED vars
  PROVE  Joint
<1>1. ASSUME ownFeed' = ownFeed \/ RP!TestEvent \/ RP!Restart
      PROVE  Owned' = Owned
  <2>1. ownFeed \in Seq(RP!TestSets) /\ ownFeed # <<>> /\ Stored(ownFeed) = RP!Tests /\ RP!Tests \in RP!TestSets
    BY Shared, RunConstants, RP!TypeFacts, SameObjects DEF RP!Tests, RunInv
  <2>2. CASE RP!TestEvent
    <3>1. ownFeed' = Tail(ownFeed) /\ ~Fresh(ownFeed)
      BY <2>2, SameObjects DEF RP!TestEvent, RP!Fresh, Fresh
    <3> QED
      BY <2>1, <3>1, EventStates DEF Owned
  <2>3. CASE RP!Restart
    <3>1. ownFeed' = <<RP!Tests>>
      BY <2>3 DEF RP!Restart
    <3> QED
      BY <2>1, <3>1, RestartStates DEF Owned
  <2> QED
    BY <1>1, <2>2, <2>3 DEF Owned
<1>2. ASSUME testFeed' = testFeed \/ TP!TestEvent \/ TP!Restart
      PROVE  TP!Test' = TP!Test
  <2>1. testFeed \in Seq(TP!Tests) /\ testFeed # <<>> /\ TP!Test \in TP!Tests
    BY TestConstants, TP!TypeFacts DEF TestInv, TP!TypeOK
  <2>2. Stored(testFeed) = TP!Test /\ Stored(testFeed') = TP!Test'
    BY SameObjects DEF TP!Test
  <2>3. CASE TP!TestEvent
    <3>1. testFeed' = Tail(testFeed) /\ ~Fresh(testFeed)
      BY <2>3 DEF TP!TestEvent, TP!Fresh, Fresh
    <3>2. Stored(testFeed') = Stored(testFeed)
      BY <2>1, <3>1, EventStates
    <3> QED
      BY <2>2, <3>2
  <2>4. CASE TP!Restart
    <3>1. testFeed' = <<TP!Test>>
      BY <2>4 DEF TP!Restart
    <3>2. Stored(testFeed') = TP!Test
      BY <2>1, <3>1, RestartStates
    <3> QED
      BY <2>2, <3>2
  <2> QED
    BY <1>2, <2>3, <2>4 DEF TP!Test
<1>3. ASSUME Owned' = Owned, TP!Test' = TP!Test, UNCHANGED verdict, [RP!Next]_RP!vars, [TP!Next]_TP!vars
      PROVE  Joint
  <2>1. View(TP!Test') = View(TP!Test)
    BY <1>3
  <2> QED
    BY <1>3, <2>1 DEF Joint, Linked
<1>4. CASE RunAlone
  <2>1. RP!Next /\ UNCHANGED <<restarts, verdict>> /\ UNCHANGED testVars
    BY <1>4, RestartsStay, RunLeavesVerdict DEF RunAlone, RP!Next
  <2>2. UNCHANGED TP!vars /\ UNCHANGED testFeed
    BY <2>1 DEF testVars, TP!vars
  <2>3. ownFeed' = ownFeed \/ RP!TestEvent
    BY <1>4 DEF RunAlone, RP!RunEvent
  <2> QED
    BY <1>1, <1>2, <1>3, <2>1, <2>2, <2>3
<1>5. CASE TestAlone
  <2>1. TP!Next /\ UNCHANGED restarts /\ UNCHANGED runVars
    BY <1>5, RestartsStay DEF TestAlone, TP!Next
  <2>2. UNCHANGED RP!vars /\ UNCHANGED <<ownFeed, verdict>>
    BY <2>1 DEF runVars, RP!vars
  <2>3. testFeed' = testFeed \/ TP!TestEvent
    BY <1>5 DEF TestAlone, TP!PodEvent
  <2> QED
    BY <1>1, <1>2, <1>3, <2>1, <2>2, <2>3
<1>6. CASE RP!Restart /\ TP!Restart
  <2>1. RP!Next /\ TP!Next /\ UNCHANGED verdict
    BY <1>6 DEF RP!Next, TP!Next, RP!Restart
  <2> QED
    BY <1>1, <1>2, <1>3, <1>6, <2>1
<1>7. CASE UNCHANGED vars
  <2>1. UNCHANGED RP!vars /\ UNCHANGED TP!vars /\ UNCHANGED <<ownFeed, testFeed, verdict>>
    BY <1>7 DEF vars, runVars, testVars, RP!vars, TP!vars
  <2> QED
    BY <1>1, <1>2, <1>3, <2>1
<1> QED
  BY <1>4, <1>5, <1>6, <1>7

\* So every step of the composition is a step of each of the two.
LEMMA NextJoint ==
  ASSUME TestInv, RunInv, Linked, Brief, [Next]_vars
  PROVE  Joint
<1>1. RP!TypeOK /\ TP!TypeOK
  BY DEF RunInv, TestInv
<1> QED
  BY <1>1, Acts, RunActsJoint, TestActsJoint, BystandersJoint

-----------------------------------------------------------------------------
(***************************************************************************)
(* The invariant is inductive.                                             *)
(***************************************************************************)
LEMMA NextRunInv ==
  ASSUME RunInv, [RP!Next]_RP!vars
  PROVE  RunInv'
<1>1. RP!TypeOK' /\ RP!Mapped'
  BY RunConstants, RP!NextTypeOK DEF RunInv
<1>2. RP!Evidence'
  BY RunConstants, RP!NextEvidence DEF RunInv
<1>3. RP!Owned'
  BY RunConstants, RP!NextOwned DEF RunInv
<1>4. RP!Unedited'
  BY RunConstants, RP!NextUnedited DEF RunInv
<1>5. RP!Retained'
  BY RunConstants, RP!NextRetained DEF RunInv
<1> QED
  BY <1>1, <1>2, <1>3, <1>4, <1>5 DEF RunInv

\* How the Test changes, once its controller cannot lack the finalizer.
LEMMA TestMoves ==
  ASSUME TestInv, Linked, [TP!Next]_TP!vars
  PROVE  \/ TP!Test' = TP!Test
         \/ /\ TP!Exists(TP!Test) /\ ~TP!IsFinal(TP!Test.phase)
            /\ \E phase \in TP!TestPhases : TP!Test' = [TP!Test EXCEPT !.phase = phase]
         \/ TP!Exists(TP!Test) /\ TP!Test.del /\ TP!Test' = [TP!Test EXCEPT !.phase = "Gone", !.fins = {}]
         \/ TP!Exists(TP!Test) /\ ~TP!Test.del /\ TP!Test' = [TP!Test EXCEPT !.del = TRUE]
         \/ TP!TestCreatedAgain /\ TP!Test.uid = 1 /\ TP!Test' = TP!NewTest(2, TP!Test.policy)
<1>1. TP!TypeOK /\ TP!Current /\ testJob.step # "finalizer" /\ (TP!Exists(TP!Test) => TP!Test.fins = {TP!Fin})
  BY DEF TestInv, TP!Held
<1>2. TP!Test.uid \in 1..2 /\ TP!Test \in TP!Tests
  BY <1>1, TestConstants, TP!TypeFacts DEF TP!Tests
<1>3. TP!TestDeleted /\ TP!Test' = TP!Reaped(TP!Deleted(TP!Test))
        => TP!Exists(TP!Test) /\ ~TP!Test.del /\ TP!Test' = [TP!Test EXCEPT !.del = TRUE]
  BY <1>1, <1>2 DEF TP!TestDeleted, TP!Reaped, TP!Deleted, TP!Exists, TP!Tests
<1>4. TP!TestCreatedAgain /\ TP!Test' = TP!NewTest(TP!Test.uid + 1, TP!Test.policy)
        => TP!Test.uid = 1 /\ TP!Test' = TP!NewTest(2, TP!Test.policy)
  <2>1. TP!TestCreatedAgain => TP!Test.uid = 1
    BY <1>2 DEF TP!TestCreatedAgain
  <2>2. 1 + 1 = 2
    OBVIOUS
  <2> QED
    BY <2>1, <2>2
<1> QED
  BY <1>1, <1>3, <1>4, TestConstants, TP!TestSteps

\* The Test's invariant, likewise; its feed stays as short as it has to be.
LEMMA NextTestInv ==
  ASSUME TestInv, Linked, [TP!Next]_TP!vars
  PROVE  TestInv'
<1>1. TP!TypeOK /\ TP!Evidence /\ TP!Current /\ TP!Held /\ TP!Short
  BY DEF TestInv
<1>2. TP!TypeOK'
  BY <1>1, TestConstants, TP!NextTypeOK
<1>3. TP!Evidence'
  BY <1>1, TestConstants, TP!ControllerEvidence, TP!WatchEvidence, TP!ClusterEvidence, TP!StutterEvidence DEF TP!Next
<1>4. TP!Current'
  BY <1>1, TestConstants, TP!ControllerCurrent, TP!WatchCurrent, TP!ClusterCurrent, TP!StutterCurrent DEF TP!Next
<1>5. TP!Held'
  BY <1>1, TestConstants, TP!NextHeld DEF TP!Fin
<1>6. TP!Short'
  <2>1. CASE ~TP!TestCreatedAgain
    BY <1>1, <2>1, TestConstants, TP!NextShort
  <2>2. CASE TP!TestCreatedAgain
    <3>1. TP!Test.uid = 1
      <4>1. TP!Test.uid \in 1..2
        BY <1>1, TestConstants, TP!TypeFacts DEF TP!Tests
      <4> QED
        BY <2>2, <4>1 DEF TP!TestCreatedAgain
    <3>2. Len(testFeed) = 1
      BY <3>1 DEF Linked
    <3>3. Len(testFeed') \in Nat /\ Len(testFeed') <= Len(testFeed) + (IF TP!Test' = TP!Test THEN 0 ELSE 1)
      BY <1>1, TestConstants, TP!Grows
    <3>4. TP!Depth(testJob'.step) \in 2..4
      BY TestConstants, TP!Depths
    <3> QED
      BY <3>2, <3>3, <3>4 DEF TP!Short
  <2> QED
    BY <2>1, <2>2
<1> QED
  BY <1>2, <1>3, <1>4, <1>5, <1>6 DEF TestInv

\* After every step the two sides still describe the same Test.
LEMMA NextLinked ==
  ASSUME TestInv, RunInv, Linked, Joint
  PROVE  Linked'
<1>1. TP!TypeOK /\ TP!Current /\ [TP!Next]_TP!vars /\ RP!TypeOK /\ RP!Mapped /\ [RP!Next]_RP!vars
  BY DEF TestInv, RunInv, Joint
<1>2. TP!Test \in [uid : 1..2, policy : Policies, phase : TP!TestPhases \cup {"Gone"},
                   del : BOOLEAN, fins : SUBSET {TP!Fin}]
  BY Shared
<1>3. \/ TP!Test' = TP!Test
      \/ TP!Exists(TP!Test) /\ TP!Test'.uid = TP!Test.uid /\ TP!Test'.policy = TP!Test.policy
      \/ TP!Test'.uid = 2 /\ TP!Test'.policy = TP!Test.policy
  <2>1. TP!NewTest(2, TP!Test.policy).uid = 2 /\ TP!NewTest(2, TP!Test.policy).policy = TP!Test.policy
    BY Views
  <2> QED
    BY <1>1, <1>2, <2>1, TestMoves
<1>4. TP!Test'.policy = RP!Run'.policy
  <2>1. RP!Run'.policy = RP!Run.policy
    BY <1>1, RunConstants, RP!PolicyStays
  <2> QED
    BY <1>3, <2>1 DEF Linked
<1>5. \A p \in Pods : \/ TP!Pod'[p].owner = TP!Pod[p].owner
                         /\ (TP!Pod'[p].phase = "Unborn" <=> TP!Pod[p].phase = "Unborn")
                      \/ TP!Exists(TP!Test) /\ TP!Pod'[p].owner = 2
  <2> SUFFICES ASSUME NEW p \in Pods
               PROVE  \/ TP!Pod'[p].owner = TP!Pod[p].owner
                         /\ (TP!Pod'[p].phase = "Unborn" <=> TP!Pod[p].phase = "Unborn")
                      \/ TP!Exists(TP!Test) /\ TP!Pod'[p].owner = 2
    OBVIOUS
  <2>1. TP!Exists(TP!Test) => TP!Test.uid = 2
    BY Shared
  <2>2. TP!NewPod(TP!Test.uid).owner = TP!Test.uid
    BY DEF TP!NewPod
  <2> QED
    BY <1>1, <2>1, <2>2, TestConstants, TP!PodSteps
<1>6. ASSUME TP!Test'.uid = 1
      PROVE  ~TP!Exists(TP!Test') /\ Len(testFeed') = 1 /\ \A p \in Pods : TP!Pod'[p].phase = "Unborn"
  <2>1. TP!Test' = TP!Test /\ ~TP!Exists(TP!Test)
    BY <1>2, <1>3, <1>6, Shared
  <2>2. TP!Test.uid = 1 /\ Len(testFeed) = 1 /\ \A p \in Pods : TP!Pod[p].phase = "Unborn"
    BY <1>6, <2>1 DEF Linked
  <2>3. Len(testFeed') \in Nat /\ Len(testFeed') <= 1
    <3>1. Len(testFeed') \in Nat /\ Len(testFeed') <= Len(testFeed) + (IF TP!Test' = TP!Test THEN 0 ELSE 1)
      BY <1>1, TestConstants, TP!Grows
    <3>2. (IF TP!Test' = TP!Test THEN 0 ELSE 1) = 0
      BY <2>1
    <3> QED
      BY <2>2, <3>1, <3>2
  <2>4. Len(testFeed') \in Nat \ {0}
    <3>1. testFeed' \in Seq(TP!Tests) /\ testFeed' # <<>>
      BY <1>1, TestConstants, TP!NextTypeOK DEF TP!TypeOK
    <3> QED
      BY <3>1, FeedStates
  <2>5. Len(testFeed') = 1
    <3>1. \A n \in Nat \ {0} : n <= 1 => n = 1
      OBVIOUS
    <3> QED
      BY <2>3, <2>4, <3>1
  <2>6. TP!Exists(TP!Test') = TP!Exists(TP!Test)
    BY <2>1
  <2> QED
    BY <1>5, <2>1, <2>2, <2>5, <2>6
<1>7. Owned' = View(TP!Test')
  BY DEF Joint
<1>8. \A p \in Pods : TP!Pod'[p].phase # "Unborn" => TP!Pod'[p].owner = 2
  BY <1>5 DEF Linked
<1> QED
  BY <1>4, <1>6, <1>7, <1>8 DEF Linked

\* The run's feed of the Test has no more states than the Test's life so far.
LEMMA NextBrief ==
  ASSUME TestInv, RunInv, Linked, Brief, Joint
  PROVE  Brief'
<1>1. /\ Len(ownFeed) \in Nat /\ Len(ownFeed') \in Nat
      /\ Len(ownFeed') <= Len(ownFeed) + (IF RP!Tests' = RP!Tests THEN 0 ELSE 1)
  BY RunConstants, RP!Grows DEF RunInv, Joint
<1>2. Owned' = Owned => RP!Tests' = RP!Tests
  <2>1. RP!TypeOK'
    BY RunConstants, RP!NextTypeOK DEF RunInv, Joint
  <2>2. RP!Tests \in RP!TestSets /\ RP!Tests' \in RP!TestSets
    <3>1. RP!Tests \in RP!TestSets
      BY RunConstants, RP!TypeFacts DEF RunInv
    <3>2. ownFeed' \in Seq(RP!TestSets) /\ ownFeed' # <<>>
      BY <2>1 DEF RP!TypeOK
    <3>3. Stored(ownFeed') \in RP!TestSets
      BY <3>2, FeedStates
    <3> QED
      BY <3>1, <3>3, SameObjects DEF RP!Tests
  <2>3. RP!Tests \in [{Name} -> RP!TestRecs] /\ RP!Tests' \in [{Name} -> RP!TestRecs]
    BY <2>2, RunConstants, RP!Shapes
  <2>4. RP!Tests[Name] = Owned /\ RP!Tests'[Name] = Owned'
    BY SameObjects DEF RP!Tests, Owned
  <2> QED
    BY <2>3, <2>4
<1>3. Rank(Owned) \in Nat /\ Rank(Owned') \in Nat
  BY DEF Rank
<1>4. Owned' = Owned \/ Rank(Owned') > Rank(Owned)
  BY DEF Joint
<1>5. CASE Owned' = Owned
  <2>1. Rank(Owned') = Rank(Owned)
    BY <1>5
  <2> QED
    BY <1>1, <1>2, <1>3, <1>5, <2>1 DEF Brief
<1>6. CASE Rank(Owned') > Rank(Owned)
  BY <1>1, <1>3, <1>6 DEF Brief
<1> QED
  BY <1>4, <1>5, <1>6

\* A verdict is the one a node's report led to, and reports stay.
LEMMA NextJudged ==
  ASSUME TestInv, TestInv', RunInv, Judged, Joint
  PROVE  Judged'
<1> SUFFICES ASSUME NEW phase \in {"Passed", "Failed"}, verdict'[Name] = phase
             PROVE  TP!Reported(IF phase = "Passed" THEN "Succeeded" ELSE "Failed")'
  BY DEF Judged
<1>1. CASE UNCHANGED verdict
  <2>1. PICK p \in Pods : outcome[p].phase = IF phase = "Passed" THEN "Succeeded" ELSE "Failed"
    BY <1>1 DEF Judged, TP!Reported
  <2>2. outcome[p].phase # "None"
    BY <2>1
  <2>3. outcome'[p] = outcome[p]
    BY <2>2, TestConstants, TP!ReportsStay DEF TestInv, Joint
  <2> QED
    BY <2>1, <2>3 DEF TP!Reported
<1>2. CASE TP!IsFinal(TP!Test'.phase) /\ verdict' = [t \in {Name} |-> TP!Test'.phase]
  <2>1. TP!Test'.phase = phase
    BY <1>2
  <2>2. TP!VerdictSound'
    BY DEF TestInv, TP!Evidence
  <2> QED
    BY <2>1, <2>2 DEF TP!VerdictSound
<1> QED
  BY <1>1, <1>2 DEF Joint

\* A step before which a Pod may not be dropped drops none.
LEMMA NextUntouched ==
  ASSUME TestInv, RunInv, Linked, Untouched, Joint
  PROVE  Untouched'
<1>1. TP!TypeOK /\ TP!Evidence /\ TP!Current /\ [TP!Next]_TP!vars
  BY DEF TestInv, Joint
<1>2. TP!Test \in [uid : 1..2, policy : Policies, phase : TP!TestPhases \cup {"Gone"},
                   del : BOOLEAN, fins : SUBSET {TP!Fin}]
  BY Shared
<1> SUFFICES ASSUME evictions' = 0, TP!Exists(TP!Test'), ~TP!Test'.del,
                    ~(TP!IsFinal(TP!Test'.phase) /\ TP!Drops(TP!Test')),
                    NEW p \in Pods, TP!Pod'[p].phase # "Unborn"
             PROVE  p \in TP!Live(TP!Pod')
  BY DEF Untouched
<1>3. evictions = 0
  <2>1. evictions \in Nat /\ (evictions' = evictions \/ evictions' = evictions + 1)
    <3>1. evictions \in Nat
      BY <1>1 DEF TP!TypeOK
    <3>2. evictions' = evictions \/ evictions' = evictions + 1
      BY <1>1 DEF TP!Next, TP!vars, TP!env, TP!Controller, TP!Reconcile, TP!EnsureFinalizer, TP!SetPending,
        TP!ReleasePod, TP!CleanUpPod, TP!LoopFailed, TP!ChoosePod, TP!CreatePod, TP!CreatePodFails,
        TP!UpdateStatus, TP!ApplyRetention, TP!RetentionDone, TP!ReleaseTest, TP!TestEvent, TP!PodEvent,
        TP!Restart, TP!Cluster, TP!PodStarts, TP!PodEnds, TP!PodRemoved, TP!PodEvicted, TP!PodOrphaned,
        TP!TestDeleted, TP!TestCreatedAgain
    <3> QED
      BY <3>1, <3>2
  <2> QED
    BY <2>1
<1>4. \/ TP!Pod'[p].owner = TP!Pod[p].owner /\ (TP!Pod'[p].phase = "Unborn" <=> TP!Pod[p].phase = "Unborn")
      \/ TP!Exists(TP!Test) /\ TP!Pod'[p] = TP!NewPod(TP!Test.uid)
  BY <1>1, TestConstants, TP!PodSteps
<1>5. CASE TP!Exists(TP!Test) /\ TP!Pod'[p] = TP!NewPod(TP!Test.uid)
  BY <1>5 DEF TP!Live, TP!Listed, TP!NewPod, TP!Exists
<1>6. CASE TP!Pod[p].phase # "Unborn" /\ TP!Test.uid # 1
  <2>1. ~(TP!Exists(TP!Test) /\ TP!Test.del /\ TP!Test' = [TP!Test EXCEPT !.phase = "Gone", !.fins = {}])
    BY <1>2 DEF TP!Exists
  <2>2. ~(TP!Test' = [TP!Test EXCEPT !.del = TRUE])
    BY <1>2
  <2>3. \/ TP!Test' = TP!Test
        \/ /\ TP!Exists(TP!Test) /\ ~TP!IsFinal(TP!Test.phase)
           /\ \E phase \in TP!TestPhases : TP!Test' = [TP!Test EXCEPT !.phase = phase]
    BY <1>1, <1>6, <2>1, <2>2, TestMoves
  <2>4. TP!Exists(TP!Test) /\ ~TP!Test.del /\ ~(TP!IsFinal(TP!Test.phase) /\ TP!Drops(TP!Test))
    <3>1. CASE TP!Test' = TP!Test
      BY <3>1
    <3>2. CASE TP!Test' # TP!Test
      <4>1. PICK phase \in TP!TestPhases : TP!Test' = [TP!Test EXCEPT !.phase = phase]
        BY <2>3, <3>2
      <4>2. TP!Test'.del = TP!Test.del
        BY <1>2, <4>1
      <4> QED
        BY <2>3, <3>2, <4>2
    <3> QED
      BY <3>1, <3>2
  <2>5. p \in TP!Live(TP!Pod)
    BY <1>3, <1>6, <2>4 DEF Untouched
  <2>6. TP!Pod[p].owner = TP!Test.uid
    BY <1>6, <2>4, Shared DEF Linked
  <2>7. SUFFICES ASSUME p \notin TP!Live(TP!Pod') PROVE FALSE
    OBVIOUS
  <2>8. p \in TP!Live(TP!Pod) \ TP!Live(TP!Pod') /\ evictions' = evictions
    BY <1>3, <2>5, <2>7
  <2> QED
    BY <1>1, <2>4, <2>6, <2>8, TestConstants, TP!EvidenceStep
<1>7. CASE TP!Test.uid = 1
  BY <1>4, <1>5, <1>7, Shared DEF Linked
<1> QED
  BY <1>4, <1>5, <1>6, <1>7

-----------------------------------------------------------------------------
Inv == RunInv /\ TestInv /\ Linked /\ Brief /\ Judged /\ Untouched

\* Before the Test is created the two sides agree that there is none.
LEMMA InitInv == Init => Inv
<1> SUFFICES ASSUME Init PROVE Inv
  OBVIOUS
<1>1. RP!Init /\ R!Run = RP!Run
  BY SameRun DEF Init
<1>2. RunInv
  BY <1>1, RunConstants, RP!InitTypeOK, RP!InitEvidence, RP!InitOwned, RP!InitUnedited, RP!InitRetained DEF RunInv
<1>3. /\ testFeed = <<Uncreated(RP!Run.policy)>> /\ podFeed = <<[p \in Pods |-> TP!NoPod]>>
      /\ testQueued = FALSE /\ testJob = TP!Idle
      /\ outcome = [p \in Pods |-> [phase |-> "None", stopped |-> FALSE]]
      /\ counted = 0 /\ testFaults = 0 /\ evictions = 0 /\ restarts = 0
  BY <1>1, SameObjects DEF Init, RP!Init
<1> DEFINE policy == RP!Run.policy
           test   == Uncreated(policy)
           pods   == [p \in Pods |-> TP!NoPod]
<1>4. policy \in Policies
  <2>1. RP!Run \in RP!Runs
    BY <1>2, RunConstants, RP!TypeFacts DEF RunInv
  <2>2. RP!Run \in [policy : Policies, n : 1..1, phase : RP!RunPhases, results : SUBSET RP!ResultRecs,
                     del : BOOLEAN, fins : RP!RunFins]
    BY <2>1, RunConstants, RP!Shapes
  <2> QED
    BY <2>2
<1>5. TP!Test = test /\ TP!Pod = pods
  BY <1>3, RestartStates, SameObjects DEF TP!Test, TP!Pod
<1>6. test.uid = 1 /\ test.phase = "Gone" /\ test.fins = {} /\ test.del = FALSE /\ test.policy = policy
  BY DEF Uncreated
<1>7. \A p \in Pods : pods[p] = TP!NoPod
  OBVIOUS
<1>8. TP!NoPod.phase = "Unborn" /\ TP!NoPod.owner = 0 /\ TP!NoPod.fins = {} /\ TP!NoPod.del = FALSE
  BY DEF TP!NoPod
<1>9. test \in TP!Tests /\ pods \in TP!PodSets
  <2>1. TP!NoPod \in TP!PodRecs
    BY TestConstants DEF TP!NoPod, TP!PodRecs
  <2>2. test \in TP!Tests
    BY <1>4, TestConstants DEF Uncreated, TP!Tests
  <2> QED
    BY <2>1, <2>2 DEF TP!PodSets
<1>10. TP!Listed(pods) = {} /\ TP!Live(pods) = {} /\ ~TP!Exists(test)
  BY <1>6, <1>7, <1>8 DEF TP!Listed, TP!Live, TP!Exists
<1> HIDE DEF test, pods, policy
<1>11. TP!TypeOK
  <2>1. testFeed \in Seq(TP!Tests) /\ testFeed # <<>> /\ podFeed \in Seq(TP!PodSets) /\ podFeed # <<>>
    BY <1>3, <1>9, RestartStates DEF test, pods, policy
  <2>2. outcome \in [Pods -> [phase : {"None", "Succeeded", "Failed"}, stopped : BOOLEAN]]
    BY <1>3
  <2>3. counted \in Nat /\ testFaults \in 0..MaxFaults
        /\ evictions \in 0..MaxEvictions /\ restarts \in 0..MaxRestarts
    <3>1. \A n \in Nat : 0 \in 0..n
      OBVIOUS
    <3> QED
      BY <1>3, <3>1, TestConstants
  <2>4. testQueued \in BOOLEAN
    BY <1>3
  <2> QED
    BY <1>3, <2>1, <2>2, <2>3, <2>4 DEF TP!TypeOK
<1>12. TP!Evidence
  <2>1. TP!FeedAgrees
    <3>1. Len(podFeed) = 1 /\ podFeed[1] = pods
      BY <1>3 DEF pods
    <3> QED
      BY <1>5, <1>7, <1>8, <3>1 DEF TP!FeedAgrees, TP!Agrees, TP!Completed
  <2>2. TP!JobAgrees
    BY <1>3 DEF TP!JobAgrees, TP!Working, TP!Idle
  <2>3. TP!Unfinished
    BY <1>3, <1>5, <1>7, <1>8 DEF TP!Unfinished
  <2>4. TP!PodProtected
    BY <1>5, <1>10 DEF TP!PodProtected
  <2>5. TP!VerdictSound
    BY <1>5, <1>6 DEF TP!VerdictSound
  <2> QED
    BY <2>1, <2>2, <2>3, <2>4, <2>5 DEF TP!Evidence
<1>13. TP!Current
  BY <1>3, <1>5, <1>6, <1>10 DEF TP!Current, TP!DeletedHeld, TP!OwnTest, TP!OwnPods, TP!HeldPods, TP!Unneeded,
    TP!SinglePod, TP!Counting, TP!Working, TP!Idle
<1>14. TP!Held
  BY <1>3, <1>5, <1>10 DEF TP!Held, TP!Idle
<1>15. TP!Short
  <2>1. Len(testFeed) = 1
    BY <1>3
  <2>2. TP!Depth(testJob.step) \in 2..4
    BY TestConstants, TP!Depths
  <2> QED
    BY <2>1, <2>2 DEF TP!Short
<1>16. Owned = RP!NoTest
  <2>1. ownFeed = <<[t \in {Name} |-> RP!NoTest]>>
    BY <1>1 DEF RP!Init
  <2> QED
    BY <2>1 DEF Owned, Stored
<1>17. Linked
  <2>1. View(test) = RP!NoTest
    BY <1>6, Views
  <2>2. Len(testFeed) = 1
    BY <1>3
  <2> QED
    BY <1>5, <1>6, <1>7, <1>8, <1>10, <1>16, <2>1, <2>2 DEF Linked, policy
<1>18. Brief
  <2>1. Len(ownFeed) = 1
    BY <1>1 DEF RP!Init
  <2> QED
    BY <1>16, <2>1, Views DEF Brief, Rank
<1>19. Judged
  BY <1>1 DEF RP!Init, Judged
<1>20. Untouched
  BY <1>5, <1>10 DEF Untouched
<1> QED
  BY <1>2, <1>11, <1>12, <1>13, <1>14, <1>15, <1>17, <1>18, <1>19, <1>20 DEF Inv, TestInv

\* Every step keeps the agreement, and is a step of the run's module.
LEMMA NextInv == Inv /\ [Next]_vars => Inv' /\ [R!Next]_R!vars
<1> SUFFICES ASSUME Inv, [Next]_vars PROVE Inv' /\ [R!Next]_R!vars
  OBVIOUS
<1>1. RunInv /\ TestInv /\ Linked /\ Brief /\ Judged /\ Untouched
  BY DEF Inv
<1>2. Joint
  BY <1>1, NextJoint
<1>3. RunInv' /\ TestInv'
  BY <1>1, <1>2, NextRunInv, NextTestInv DEF Joint
<1>4. Linked' /\ Brief' /\ Untouched'
  BY <1>1, <1>2, NextLinked, NextBrief, NextUntouched
<1>5. Judged'
  BY <1>1, <1>2, <1>3, NextJudged
<1>6. [R!Next]_R!vars
  <2>1. R!vars = RP!vars /\ R!vars' = RP!vars'
    BY DEF R!vars, RP!vars
  <2> QED
    BY <1>2, <2>1, SameRun DEF Joint
<1> QED
  BY <1>3, <1>4, <1>5, <1>6 DEF Inv

\* So both sides' invariants hold in the composition, and their agreement.
LEMMA Invariant == Spec => []Inv
  BY InitInv, NextInv, PTL DEF Spec

-----------------------------------------------------------------------------
\* Whatever the Test controller does, with its retries, restarts and Pods, is to
\* the run's controller the Test being decided or released: the composition
\* implements TestRunController with a single template.
THEOREM RunRefined == Spec => RunImplemented
<1>1. Init => R!Init
  BY DEF Init
<1> QED
  BY <1>1, InitInv, NextInv, PTL DEF Spec, RunImplemented, R!Spec

\* And whatever the run's controller does is to the Test's controller the owner
\* of the Test creating or deleting it.
THEOREM TestRefined == Spec => [][TP!Next]_TP!vars
<1>1. Inv /\ [Next]_vars => Inv' /\ [TP!Next]_TP!vars
  <2> SUFFICES ASSUME Inv, [Next]_vars PROVE Inv' /\ [TP!Next]_TP!vars
    OBVIOUS
  <2>1. Joint
    BY NextJoint DEF Inv
  <2> QED
    BY <2>1, NextInv DEF Joint
<1> QED
  BY <1>1, InitInv, PTL DEF Spec

\* What a phase of the run says has come up from a Pod: through the Test, whose
\* phase a node's report decided, and the result the run took over.
THEOREM AlwaysEndToEndSound == Spec => []EndToEndSound
<1>1. Inv => EndToEndSound
  <2> SUFFICES ASSUME Inv PROVE EndToEndSound
    OBVIOUS
  <2>1. Run = RP!Run
    BY SameRun DEF Run
  <2>2. ASSUME NEW phase \in {"Passed", "Failed"}, RP!Run.phase = phase
        PROVE  T!Reported(IF phase = "Passed" THEN "Succeeded" ELSE "Failed")
    <3>1. verdict[Name] = phase
      BY <2>2 DEF Inv, RunInv, RP!Evidence, RP!ResultsSound, RP!IsFinal
    <3>2. TP!Reported(IF phase = "Passed" THEN "Succeeded" ELSE "Failed")
      BY <3>1 DEF Inv, Judged
    <3> QED
      BY <3>2, SameObjects
  <2> QED
    BY <2>1, <2>2 DEF EndToEndSound
<1> QED
  BY <1>1, Invariant, PTL

\* The Pod that failed a run is still there while nobody deletes it or the run:
\* the run keeps the Test, for its policy says so, and the Test, which has the
\* run's policy, keeps the Pod.
THEOREM FailureEvidenceStays == Spec => []FailureEvidence
<1>1. Inv => FailureEvidence
  <2> SUFFICES ASSUME Inv, RP!Run.phase = "Failed", ~RP!Run.del, evictions = 0, RP!Run.policy # "Never"
               PROVE  \E p \in TP!Live(TP!Pod) : outcome[p].phase = "Failed"
    BY SameRun, SameObjects DEF FailureEvidence, Run, Pod
  <2>1. RunInv /\ TestInv /\ Linked
    BY DEF Inv
  <2>2. verdict[Name] = "Failed"
    BY <2>1 DEF RunInv, RP!Evidence, RP!ResultsSound, RP!IsFinal
  <2>3. RP!Tests[Name] = Owned
    BY <2>1, Shared
  <2>4. Owned.phase \in {"Passed", "Failed", "Gone"}
    BY <2>1, <2>2, <2>3 DEF RunInv, RP!Evidence, RP!Undecided
  <2>5. RP!Exists(Owned) /\ ~Owned.del
    <3>1. RP!Exists(RP!Run) /\ ~(RP!IsFinal(RP!Run.phase) /\ RP!Drops(RP!Run))
      BY DEF RP!Exists, RP!Drops
    <3>2. Name \in RP!Live(RP!Tests)
      BY <2>1, <2>3, <2>4, <3>1 DEF RunInv, RP!Retained
    <3> QED
      BY <2>3, <3>2 DEF RP!Live, RP!Listed
  <2>6. Owned.phase = "Failed"
    <3>1. Owned.phase \in {"Passed", "Failed"}
      BY <2>4, <2>5 DEF RP!Exists
    <3>2. RP!Agrees(RP!Tests)
      <4>1. ownFeed \in Seq(RP!TestSets) /\ ownFeed # <<>>
        BY <2>1, Shared
      <4>2. Len(ownFeed) \in Nat \ {0} /\ RP!Tests = ownFeed[Len(ownFeed)]
        BY <4>1, RunConstants, RP!FeedStates DEF RP!Tests
      <4>3. Len(ownFeed) \in 1..Len(ownFeed)
        BY <4>2
      <4> QED
        BY <2>1, <4>2, <4>3 DEF RunInv, RP!Evidence, RP!FeedAgrees
    <3> QED
      BY <2>2, <2>3, <3>1, <3>2 DEF RP!Agrees, RP!IsFinal
  <2>7. TP!Exists(TP!Test) /\ TP!Test.phase = "Failed" /\ ~TP!Test.del
    <3>1. TP!Exists(Owned)
      BY <2>5, SameObjects
    <3>2. TP!Exists(TP!Test) /\ TP!Test.uid = 2
      BY <2>1, <3>1, Shared
    <3>3. NoPhase # "Failed"
      BY Views
    <3> QED
      BY <2>1, <2>5, <2>6, <3>2, <3>3, Shared
  <2>8. PICK p \in Pods : outcome[p].phase = "Failed"
    BY <2>1, <2>7 DEF TestInv, TP!Evidence, TP!VerdictSound, TP!Reported
  <2>9. TP!Pod[p].phase # "Unborn"
    BY <2>1, <2>8 DEF TestInv, TP!Evidence, TP!Unfinished
  <2>10. ~TP!Drops(TP!Test)
    BY <2>1, <2>7 DEF Linked, TP!Drops
  <2>11. p \in TP!Live(TP!Pod)
    BY <2>7, <2>9, <2>10 DEF Inv, Untouched
  <2> QED
    BY <2>8, <2>11
<1> QED
  BY <1>1, Invariant, PTL
=============================================================================

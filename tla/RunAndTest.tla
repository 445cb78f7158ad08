----------------------------- MODULE RunAndTest -----------------------------
(***************************************************************************)
(* The TestRun controller and the Test controller on the same Test, from   *)
(* the run down to the Pod.  The run has one template, so it has one Test  *)
(* at a time; each controller has its own queue and its own view of the    *)
(* Test, and both live and die in one manager.                             *)
(*                                                                         *)
(* TestRunController takes the Test's own controller for a part of the     *)
(* cluster that may decide a Test in any way and at any time;              *)
(* TestController takes the owner of the Test for a user.  Here each plays *)
(* that part for the other: a step of one is a step of its own module,     *)
(* with the Test as the other sees it brought up to date.                  *)
(***************************************************************************)
EXTENDS KubeApi, FiniteSets

CONSTANTS
  Name,         \* the name the server generates for the Test
  Pods,         \* and those for its Pods
  Policies,     \* retention policies the run is created with
  RunFins,      \* finalizers the run is created with
  MaxBehind,    \* the cluster changes something only while a cache is less behind than this
  MaxFaults, MaxEvictions, MaxRestarts

VARIABLES
  runFeed, ownFeed, runQueued, runJob, verdict, panics,           \* the run's side
  testFeed, podFeed, testQueued, testJob, outcome, counted,       \* the Test's side
  runFaults, testFaults, evictions, restarts

runVars  == <<runFeed, ownFeed, runQueued, runJob, verdict, panics, runFaults>>
testVars == <<testFeed, podFeed, testQueued, testJob, outcome, counted, testFaults, evictions>>
vars     == <<runVars, testVars, restarts>>

\* The other side acts however far a cache is behind: further than it can be.
AnyBehind == MaxBehind + 10

\* Every reconcile starts with current caches; nobody else deletes Tests or
\* edits the run.
R == INSTANCE TestRunController WITH
  Names <- {Name}, NumTests <- 1, Radix <- 10, InitialFins <- RunFins,
  MaxLag <- 0, MaxBehind <- AnyBehind, MaxDeletions <- 0, MaxEdits <- 0,
  testFeed <- ownFeed, queued <- runQueued, job <- runJob, faults <- runFaults,
  deletions <- 0, edits <- 0

\* The run creates its Test with the Test controller's finalizer.
T == INSTANCE TestController WITH
  InitialFins <- {"konfirm.goraft.tech/test-controller"},
  MaxLag <- 0, MaxBehind <- AnyBehind, MaxUid <- 2, queued <- testQueued, job <- testJob, faults <- testFaults

ASSUME ConstantsAssumption ==
  /\ RunFins \subseteq {{}, {R!SuiteFin}}
  /\ Policies \subseteq {"Always", "Never", "OnFailure"}
  /\ {MaxBehind, MaxFaults, MaxEvictions, MaxRestarts} \subseteq Nat

-----------------------------------------------------------------------------
(***************************************************************************)
(* One Test, two views.  Before it is created it is, to its controller, an *)
(* earlier Test of its name that is gone, with the run's retention policy. *)
(***************************************************************************)
Uncreated(policy) == [uid |-> 1, policy |-> policy, phase |-> "Gone", del |-> FALSE, fins |-> {}]

\* The Test as the run's controller sees it: it knows no phase but the verdicts.
View(test) ==
  IF test.uid = 1 THEN R!NoTest
  ELSE [idx |-> 0, phase |-> IF test.phase \in {"Passed", "Failed", "Gone"} THEN test.phase ELSE "",
        del |-> test.del, fins |-> test.fins]

Owned == Stored(ownFeed)[Name]

\* The run's side created the Test, deleted it, or did not touch it.
TestFollows ==
  \/ Owned' = Owned /\ UNCHANGED testVars
  \/ /\ Owned' # Owned
     /\ testFeed' = Publish(testFeed, IF Owned.phase = "Unborn" THEN T!NewTest(2, T!Test.policy)
                                      ELSE Reaped(Deleted(T!Test)))
     /\ UNCHANGED <<podFeed, testQueued, testJob, outcome, counted, testFaults, evictions>>

\* The Test's controller may have decided it, or let go of it.
RunFollows ==
  LET view == View(T!Test')
  IN  /\ ownFeed' = Publish(ownFeed, [t \in {Name} |-> view])
      /\ verdict' = IF R!IsFinal(view.phase) THEN [t \in {Name} |-> view.phase] ELSE verdict
      /\ UNCHANGED <<runFeed, runQueued, runJob, panics, runFaults>>

RunStep  == R!Controller /\ TestFollows
TestStep == T!Controller /\ RunFollows

Watches ==
  \/ (R!RunEvent \/ R!TestEvent) /\ UNCHANGED testVars
  \/ (T!TestEvent \/ T!PodEvent) /\ UNCHANGED runVars

\* The nodes run and remove Pods.
Nodes ==
  /\ \E p \in Pods : T!PodEnds(p, "Succeeded") \/ T!PodEnds(p, "Failed") \/ T!PodRemoved(p)
  /\ UNCHANGED runVars

\* The garbage collector deletes the Test of a run that is gone.
Orphaned == R!TestOrphaned(Name) /\ TestFollows

\* Others act while the caches are not too far behind.
Cluster ==
  \/ /\ Len(podFeed) <= MaxBehind
     /\ Nodes \/ \E p \in Pods : (T!PodStarts(p) \/ T!PodEvicted(p) \/ T!PodOrphaned(p)) /\ UNCHANGED runVars
  \/ /\ Len(runFeed) <= MaxBehind
     /\ (R!RunDeleted \/ R!SuiteReleases) /\ UNCHANGED testVars
  \/ /\ Len(testFeed) <= MaxBehind
     /\ Orphaned

\* One manager runs both controllers.
Restart == R!Restart /\ T!Restart

Init ==
  /\ R!Init
  /\ testFeed = <<Uncreated(R!Run.policy)>>
  /\ podFeed = <<[p \in Pods |-> T!NoPod]>>
  /\ testQueued = FALSE /\ testJob = T!Idle
  /\ outcome = [p \in Pods |-> [phase |-> "None", stopped |-> FALSE]]
  /\ counted = 0 /\ testFaults = 0 /\ evictions = 0

Next == RunStep \/ TestStep \/ Watches \/ Restart \/ Cluster

Spec == Init /\ [][Next]_vars

\* The workers, the watches, the nodes, the garbage collector and the suite do
\* not all stop while one of them has something to do.
Progress ==
  RunStep \/ TestStep \/ Watches \/ Nodes \/ Orphaned \/ (R!SuiteReleases /\ UNCHANGED testVars)
Fairness == WF_vars(Progress)

FairSpec == Spec /\ Fairness

-----------------------------------------------------------------------------
Run  == R!Run
Test == T!Test
Pod  == T!Pod

\* All a run with one template can see of its Test is what TestRunController
\* lets the cluster do: what was shown there of a run holds here.
RunImplemented == R!Spec

\* A run passes or fails only if a node reported so for a Pod of its Test.
EndToEndSound ==
  /\ Run.phase = "Passed" => T!Reported("Succeeded")
  /\ Run.phase = "Failed" => T!Reported("Failed")

\* With retention on failure, or always, the Pod that failed a run can still
\* be looked at, as long as nobody deletes the run or the Pod: neither of the
\* controllers, each of which applies the policy, takes it away.
FailureEvidence ==
  Run.phase = "Failed" /\ ~Run.del /\ evictions = 0 /\ Run.policy # "Never" =>
    \E p \in T!Live(Pod) : outcome[p].phase = "Failed"

\* Every run is finished in the end, unless it is deleted: the Pod's end finds
\* its way through two controllers, their queues and their caches.
RunFinished == <>(R!IsFinal(Run.phase) \/ Run.del)

\* A deleted run disappears with all it has, its Test and every Pod, and what a
\* finished run is told to drop disappears without it.
Cleared ==
  (Run.del \/ (R!IsFinal(Run.phase) /\ R!Drops(Run)))
    ~> (~Exists(Test) /\ T!Listed(Pod) = {} /\ (Run.del => ~Exists(Run)))
=============================================================================

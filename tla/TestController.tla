--------------------------- MODULE TestController ---------------------------
(***************************************************************************)
(* The Test controller (controllers/test_controller.go): it runs one Test  *)
(* by keeping one Pod for it, turns the Pod's phase into the Test's,       *)
(* removes Pods as the retention policy says, and releases what it holds   *)
(* when Pods or the Test are deleted.                                      *)
(*                                                                         *)
(* A reconcile reads the Test and its Pods from the caches once and then   *)
(* makes one API call after another; every call is an action of its own,   *)
(* so users, kubelets, the garbage collector, the watches and a restart of *)
(* the manager act between any two of them.  One Test is modelled: the     *)
(* work queue never runs two reconciles of one key at a time, and those of *)
(* different Tests touch different objects.                                *)
(***************************************************************************)
EXTENDS KubeApi, FiniteSets

CONSTANTS
  Pods,         \* names the server can generate for Pods of the Test
  Policies,     \* retention policies the Test is created with
  InitialFins,  \* finalizers it is created with: none by a user, this controller's by a run
  MaxLag,       \* a reconcile starts with caches at most this many changes behind
  MaxBehind,    \* the cluster changes something only while a cache is less behind than this
  MaxFaults,    \* API calls that fail or whose reply is lost
  MaxEvictions, \* Pods deleted by somebody else
  MaxRestarts,  \* crashes of the manager
  MaxUid        \* times a Test of this name is created

Fin == "konfirm.goraft.tech/test-controller"

ASSUME ConstantsAssumption ==
  /\ Policies \subseteq {"Always", "Never", "OnFailure"}
  /\ InitialFins \subseteq {Fin}
  /\ MaxLag \in Nat
  /\ MaxBehind \in Nat
  /\ MaxFaults \in Nat
  /\ MaxEvictions \in Nat
  /\ MaxRestarts \in Nat
  /\ MaxUid \in Nat \ {0}

VARIABLES
  testFeed,   \* the Test, from the cached to the stored state
  podFeed,    \* the Pods controlled by a Test of this name, likewise
  queued,     \* the Test's key is in the controller's work queue
  job,        \* the reconcile in progress
  outcome,    \* history: what the node reported for each Pod
  counted,    \* history: results added to the passed and failed metrics
  faults, evictions, restarts

vars == <<testFeed, podFeed, queued, job, outcome, counted, faults, evictions, restarts>>
env  == <<outcome, evictions, restarts>>

TestPhases == {"", "Pending", "Starting", "Running", "Passed", "Failed"}
PodPhases  == {"Pending", "Running", "Succeeded", "Failed"}

IsFinal(phase) == phase \in {"Passed", "Failed"}
Completed(phase) == phase \in {"Succeeded", "Failed"}

\* Mutants: the Pod's phase taken over as it is, and every end taken for a success.
TestPhaseFor_Raw(phase) == phase
TestPhaseFor_Ended(phase) ==
  CASE phase = "Pending" -> "Starting"
    [] phase = "Running" -> "Running"
    [] OTHER             -> "Passed"

\* The Test phase each Pod phase stands for.
TestPhaseFor(phase) ==
  CASE phase = "Pending"   -> "Starting"
    [] phase = "Running"   -> "Running"
    [] phase = "Succeeded" -> "Passed"
    [] phase = "Failed"    -> "Failed"

Listed(pods) == {p \in Pods : Exists(pods[p])}
Live(pods)   == {p \in Listed(pods) : ~pods[p].del}

WithPhase(test, phase) == IF Exists(test) THEN [test EXCEPT !.phase = phase] ELSE test

NewTest(uid, policy) == [uid |-> uid, policy |-> policy, phase |-> "", del |-> FALSE, fins |-> InitialFins]
NoPod == [owner |-> 0, phase |-> "Unborn", del |-> FALSE, fins |-> {}]
NewPod(uid) == [owner |-> uid, phase |-> "Pending", del |-> FALSE, fins |-> {Fin}]

Test == Stored(testFeed)
Pod  == Stored(podFeed)

PublishPod(p, pod) == podFeed' = Publish(podFeed, [Pod EXCEPT ![p] = pod])

-----------------------------------------------------------------------------
(***************************************************************************)
(* The reconcile in progress: the step it is at, its copies of the Test    *)
(* and the Pods, the Pods still to visit in the current loop, whether one  *)
(* of them failed, and the phase of the Pod that decides the Test.         *)
(***************************************************************************)
Steps == {"finalizer", "pending", "running", "reduce", "create", "status",
          "complete", "retain", "cleanUp"}

Idle == [step |-> "idle", err |-> FALSE]
Working == job.step # "idle"

At(step, test, pods, todo) ==
  [step |-> step, test |-> test, pods |-> pods, todo |-> todo, err |-> FALSE, seen |-> "Pending"]

Return(requeue) ==
  /\ job' = Idle
  /\ queued' = (queued \/ requeue)

\* An injected fault is counted, any other answer is free.
Answer(res) == faults' = IF res = "Error" THEN faults + 1 ELSE faults
Answers(outs) == {out \in outs : out.res = "Error" => faults < MaxFaults}

\* Mutant: Pods that are not deleted are released too.
ToRelease_All(pods) == {p \in Listed(pods) : Fin \in pods[p].fins}

\* The deleted Pods of a listing whose finalizer has to be removed.
ToRelease(pods) == {p \in Listed(pods) : pods[p].del /\ Fin \in pods[p].fins}

\* Mutant: a decided Test is handled as a running one.
Handle_AlwaysRuns(test, pods) ==
  IF test.phase = "" THEN At("pending", test, pods, {}) ELSE At("running", test, pods, ToRelease(pods))

\* Handle the current phase.
Handle(test, pods) ==
  IF test.phase = "" THEN At("pending", test, pods, {})
  ELSE At(IF IsFinal(test.phase) THEN "complete" ELSE "running", test, pods, ToRelease(pods))

Reconcile ==
  /\ ~Working /\ queued
  /\ Len(testFeed) <= MaxLag + 1 /\ Len(podFeed) <= MaxLag + 1
  /\ queued' = FALSE
  /\ LET test == Cached(testFeed)
         pods == Cached(podFeed)
     IN  job' = IF ~Exists(test) THEN Idle
                ELSE IF test.del THEN At("cleanUp", test, pods, Listed(pods))
                ELSE IF Fin \notin test.fins THEN At("finalizer", test, pods, {})
                ELSE Handle(test, pods)
  /\ UNCHANGED <<testFeed, podFeed, counted, faults, env>>

EnsureFinalizer ==
  /\ job.step = "finalizer"
  /\ \E out \in Answers(addFinalizer(job.test, Test, Fin, "Resource")) :
       /\ Answer(out.res)
       /\ testFeed' = Publish(testFeed, out.obj)
       /\ IF out.res = "OK" THEN job' = Handle(out.obj, job.pods) /\ UNCHANGED queued
          ELSE Return(out.res # "NotFound")
  /\ UNCHANGED <<podFeed, counted, env>>

SetPending ==
  /\ job.step = "pending"
  /\ \E out \in Answers(Patch(Test, WithPhase(Test, "Pending"))) :
       /\ Answer(out.res)
       /\ testFeed' = Publish(testFeed, out.obj)
       /\ IF out.res = "OK" THEN job' = Handle(out.obj, job.pods) /\ UNCHANGED queued
          ELSE Return(TRUE)
  /\ UNCHANGED <<podFeed, counted, env>>

-----------------------------------------------------------------------------
(***************************************************************************)
(* The loops over Pods.  The list comes from a cache index, so its order   *)
(* is arbitrary; a failing Pod does not stop the loop, it fails at its end.*)
(***************************************************************************)

\* The copy loses the finalizer before the patch is sent.
Released(pod) == [pod EXCEPT !.fins = @ \ {Fin}]

\* Remove the finalizer of a deleted Pod; its copy becomes the server's reply.
ReleasePod(p) ==
  /\ job.step \in {"running", "complete"}
  /\ p \in job.todo
  /\ \E out \in Answers(removeFinalizer(job.pods[p], Pod[p], Fin, "Pod")) :
       /\ Answer(out.res)
       /\ PublishPod(p, out.obj)
       /\ job' = [job EXCEPT
            !.todo = @ \ {p},
            !.err = @ \/ out.res = "Error",
            !.pods[p] = IF out.res = "OK" THEN out.obj ELSE Released(@)]
  /\ UNCHANGED <<testFeed, queued, counted, env>>

\* Delete an extraneous Pod, one the policy does not retain or one of a
\* deleted Test.  Only the first of the three forgives a Pod that is not found.
CleanUpPod(p) ==
  /\ job.step \in {"reduce", "retain", "cleanUp"}
  /\ p \in job.todo
  /\ \E out \in Answers(cleanUp(job.pods[p], Pod[p], Fin, "Pod")) :
       /\ Answer(out.res)
       /\ PublishPod(p, out.obj)
       /\ job' = [job EXCEPT
            !.todo = @ \ {p},
            !.err = @ \/ out.res = "Error" \/ (out.res = "NotFound" /\ job.step # "reduce")]
  /\ UNCHANGED <<testFeed, queued, counted, env>>

\* Mutant: the error of the loop is not returned.
LoopFailed_Swallowed ==
  /\ Working /\ job.err
  /\ job.todo = {}
  /\ Return(FALSE)
  /\ UNCHANGED <<testFeed, podFeed, counted, faults, env>>

LoopFailed ==
  /\ Working /\ job.err
  /\ job.todo = {}
  /\ Return(TRUE)
  /\ UNCHANGED <<testFeed, podFeed, counted, faults, env>>

\* Mutant: the errors of the loop are not looked at.
LoopDone_DespiteErrors(step) == job.step = step /\ job.todo = {}

LoopDone(step) == job.step = step /\ job.todo = {} /\ ~job.err

\* Mutant: only a completed Pod counts.
Usable_Completed(pods) == {p \in Listed(pods) : Completed(pods[p].phase)}

\* Determine which Pod decides the Test: the first of the list that is not
\* deleted, else one that completed before it was deleted.
Usable(pods) == {p \in Listed(pods) : ~pods[p].del \/ Completed(pods[p].phase)}

Choices(pods) == IF Live(pods) # {} THEN Live(pods) ELSE Usable(pods)

ChoosePod ==
  /\ LoopDone("running")
  /\ \/ /\ Usable(job.pods) = {}
        /\ job' = [job EXCEPT !.step = "create"]
     \/ \E p \in Choices(job.pods) :
          LET extra == Live(job.pods) \ {p}
          IN  job' = [job EXCEPT
                !.step = IF extra = {} THEN "status" ELSE "reduce",
                !.todo = extra,
                !.seen = job.pods[p].phase]
  /\ UNCHANGED <<testFeed, podFeed, queued, counted, faults, env>>

CreatePod ==
  /\ job.step = "create"
  /\ \E p \in Pods :
       /\ Pod[p].phase = "Unborn"
       /\ \E out \in Answers({[res |-> "OK"], [res |-> "Error"]}) :
            /\ Answer(out.res)
            /\ PublishPod(p, NewPod(job.test.uid))
            /\ IF out.res = "OK" THEN job' = [job EXCEPT !.step = "status", !.seen = "Pending"] /\ UNCHANGED queued
               ELSE Return(TRUE)
  /\ UNCHANGED <<testFeed, counted, env>>

\* The create is refused: by a fault, or by a quota once all names are used.
CreatePodFails ==
  /\ job.step = "create"
  /\ \/ faults < MaxFaults /\ Answer("Error")
     \/ (\A p \in Pods : Pod[p].phase # "Unborn") /\ UNCHANGED faults
  /\ Return(TRUE)
  /\ UNCHANGED <<testFeed, podFeed, counted, env>>

\* Only a result that was stored for sure is counted.
UpdateStatus ==
  /\ LoopDone("status") \/ LoopDone("reduce")
  /\ LET phase == TestPhaseFor(job.seen)
     IN  IF phase = job.test.phase
           THEN Return(FALSE) /\ UNCHANGED <<testFeed, counted, faults>>
           ELSE \E out \in Answers(Patch(Test, WithPhase(Test, phase))) :
                  /\ Answer(out.res)
                  /\ testFeed' = Publish(testFeed, out.obj)
                  /\ counted' = IF out.res = "OK" /\ IsFinal(phase) THEN counted + 1 ELSE counted
                  /\ Return(out.res # "OK")
  /\ UNCHANGED <<podFeed, env>>

\* Apply the retention policy.
Drops(test) == test.policy = "Never" \/ (test.policy = "OnFailure" /\ test.phase = "Passed")

\* Mutant: the policy is not looked at.
ApplyRetention_Always ==
  /\ LoopDone("complete")
  /\ IF Listed(job.pods) # {}
       THEN job' = [job EXCEPT !.step = "retain", !.todo = Listed(job.pods)] /\ UNCHANGED queued
       ELSE Return(FALSE)
  /\ UNCHANGED <<testFeed, podFeed, counted, faults, env>>

\* Mutant: the policy is applied to the Test and not to its Pods.
ApplyRetention_ToTest ==
  /\ LoopDone("complete")
  /\ testFeed' = IF Drops(job.test) THEN Publish(testFeed, Reaped(Deleted(Test))) ELSE testFeed
  /\ Return(FALSE)
  /\ UNCHANGED <<podFeed, counted, faults, env>>

ApplyRetention ==
  /\ LoopDone("complete")
  /\ IF Drops(job.test) /\ Listed(job.pods) # {}
       THEN job' = [job EXCEPT !.step = "retain", !.todo = Listed(job.pods)] /\ UNCHANGED queued
       ELSE Return(FALSE)
  /\ UNCHANGED <<testFeed, podFeed, counted, faults, env>>

RetentionDone ==
  /\ LoopDone("retain")
  /\ Return(FALSE)
  /\ UNCHANGED <<testFeed, podFeed, counted, faults, env>>

\* A deleted Test is released once its Pods are; an error of this patch is
\* shadowed and the reconcile returns without one.
ReleaseTest ==
  /\ LoopDone("cleanUp")
  /\ IF Fin \in job.test.fins
       THEN \E out \in Answers(removeFinalizer(job.test, Test, Fin, "Resource")) :
              Answer(out.res) /\ testFeed' = Publish(testFeed, out.obj)
       ELSE UNCHANGED <<testFeed, faults>>
  /\ Return(FALSE)
  /\ UNCHANGED <<podFeed, counted, env>>

Controller ==
  \/ Reconcile \/ EnsureFinalizer \/ SetPending
  \/ \E p \in Pods : ReleasePod(p) \/ CleanUpPod(p)
  \/ LoopFailed \/ ChoosePod \/ CreatePod \/ CreatePodFails \/ UpdateStatus
  \/ ApplyRetention \/ RetentionDone \/ ReleaseTest

-----------------------------------------------------------------------------
\* Mutant: changes of the Test's metadata are filtered out.
TestEvent_Filtered ==
  /\ ~Fresh(testFeed)
  /\ testFeed' = Tail(testFeed)
  /\ queued' = (queued \/ testFeed[2].phase # testFeed[1].phase)
  /\ UNCHANGED <<podFeed, job, counted, faults, env>>

(***************************************************************************)
(* The watches: an event updates a cache and queues the Test's key, its    *)
(* own (For) as well as that of a Pod it controls (Owns).                  *)
(***************************************************************************)
TestEvent ==
  /\ ~Fresh(testFeed)
  /\ testFeed' = Tail(testFeed)
  /\ queued' = TRUE
  /\ UNCHANGED <<podFeed, job, counted, faults, env>>

PodEvent ==
  /\ ~Fresh(podFeed)
  /\ podFeed' = Tail(podFeed)
  /\ queued' = TRUE
  /\ UNCHANGED <<testFeed, job, counted, faults, env>>

\* The manager dies and starts anew: it lists every object and queues it.
Restart ==
  /\ restarts < MaxRestarts
  /\ restarts' = restarts + 1
  /\ testFeed' = <<Test>> /\ podFeed' = <<Pod>>
  /\ queued' = TRUE
  /\ job' = Idle
  /\ counted' = 0
  /\ UNCHANGED <<outcome, faults, evictions>>

-----------------------------------------------------------------------------
(***************************************************************************)
(* The cluster around the controller.                                      *)
(***************************************************************************)
Others == UNCHANGED <<queued, job, counted, faults, restarts>>

PodStarts(p) ==
  /\ Pod[p].phase = "Pending" /\ ~Pod[p].del
  /\ PublishPod(p, [Pod[p] EXCEPT !.phase = "Running"])
  /\ UNCHANGED <<testFeed, outcome, evictions>> /\ Others

\* The containers of p end, by themselves or because a deleted Pod is stopped.
PodEnds(p, phase) ==
  /\ Pod[p].phase \in {"Pending", "Running"}
  /\ PublishPod(p, [Pod[p] EXCEPT !.phase = phase])
  /\ outcome' = [outcome EXCEPT ![p] = [phase |-> phase, stopped |-> Pod[p].del]]
  /\ UNCHANGED <<testFeed, evictions>> /\ Others

PodRemoved(p) ==
  /\ Exists(Pod[p]) /\ Pod[p].del /\ Pod[p].fins = {}
  /\ PublishPod(p, [Pod[p] EXCEPT !.phase = "Gone"])
  /\ UNCHANGED <<testFeed, outcome, evictions>> /\ Others

PodEvicted(p) ==
  /\ evictions < MaxEvictions
  /\ p \in Live(Pod)
  /\ evictions' = evictions + 1
  /\ PublishPod(p, Deleted(Pod[p]))
  /\ UNCHANGED <<testFeed, outcome>> /\ Others

\* The garbage collector deletes a Pod whose owner is gone.
PodOrphaned(p) ==
  /\ p \in Live(Pod)
  /\ ~Exists(Test) \/ Test.uid # Pod[p].owner
  /\ PublishPod(p, Deleted(Pod[p]))
  /\ UNCHANGED <<testFeed, outcome, evictions>> /\ Others

TestDeleted ==
  /\ Exists(Test) /\ ~Test.del
  /\ testFeed' = Publish(testFeed, Reaped(Deleted(Test)))
  /\ UNCHANGED <<podFeed, outcome, evictions>> /\ Others

TestCreatedAgain ==
  /\ ~Exists(Test) /\ Test.uid < MaxUid
  /\ testFeed' = Publish(testFeed, NewTest(Test.uid + 1, Test.policy))
  /\ UNCHANGED <<podFeed, outcome, evictions>> /\ Others

Cluster ==
  \/ /\ Len(podFeed) <= MaxBehind
     /\ \E p \in Pods :
          \/ PodStarts(p) \/ PodEnds(p, "Succeeded") \/ PodEnds(p, "Failed")
          \/ PodRemoved(p) \/ PodEvicted(p) \/ PodOrphaned(p)
  \/ /\ Len(testFeed) <= MaxBehind
     /\ TestDeleted \/ TestCreatedAgain

-----------------------------------------------------------------------------
Init ==
  /\ \E policy \in Policies : testFeed = <<NewTest(1, policy)>>
  /\ podFeed = <<[p \in Pods |-> NoPod]>>
  /\ queued = TRUE
  /\ job = Idle
  /\ outcome = [p \in Pods |-> [phase |-> "None", stopped |-> FALSE]]
  /\ counted = 0
  /\ faults = 0 /\ evictions = 0 /\ restarts = 0

Next == Controller \/ TestEvent \/ PodEvent \/ Restart \/ Cluster

Spec == Init /\ [][Next]_vars

\* The worker and the watches keep going, and nodes run and remove Pods.
Fairness ==
  /\ WF_vars(Controller)
  /\ WF_vars(TestEvent) /\ WF_vars(PodEvent)
  /\ \A p \in Pods : /\ WF_vars(PodEnds(p, "Succeeded") \/ PodEnds(p, "Failed"))
                     /\ WF_vars(PodRemoved(p))

FairSpec == Spec /\ Fairness

-----------------------------------------------------------------------------
(***************************************************************************)
(* What the controller promises with caches of any age.                    *)
(***************************************************************************)
Tests   == [uid : 1..MaxUid, policy : Policies, phase : TestPhases \cup {"Gone"},
            del : BOOLEAN, fins : SUBSET {Fin}]
PodRecs == [owner : 0..MaxUid, phase : PodPhases \cup {"Unborn", "Gone"},
            del : BOOLEAN, fins : SUBSET {Fin}]
PodSets == [Pods -> PodRecs]
Jobs    == [step : Steps, test : Tests, pods : PodSets, todo : SUBSET Pods,
            err : BOOLEAN, seen : PodPhases]

\* Every variable has the shape the code gives it: feeds are never empty and
\* hold Tests and Pods, and a reconcile in progress is at one of its steps.
TypeOK ==
  /\ testFeed \in Seq(Tests) /\ testFeed # <<>>
  /\ podFeed \in Seq(PodSets) /\ podFeed # <<>>
  /\ queued \in BOOLEAN
  /\ job \in {Idle} \cup Jobs
  /\ outcome \in [Pods -> [phase : {"None", "Succeeded", "Failed"}, stopped : BOOLEAN]]
  /\ counted \in Nat
  /\ faults \in 0..MaxFaults
  /\ evictions \in 0..MaxEvictions
  /\ restarts \in 0..MaxRestarts

Reported(phase) == \E p \in Pods : outcome[p].phase = phase

\* A Test is Passed only if a node reported one of its Pods Succeeded, and
\* Failed only if a node reported one Failed, whatever was stale, lost or
\* restarted on the way (the switch on the Pod's phase in isRunning).
VerdictSound ==
  /\ Test.phase = "Passed" => Reported("Succeeded")
  /\ Test.phase = "Failed" => Reported("Failed")

\* A Pod nobody deleted carries the finalizer it was created with: neither of
\* the loops nor cleanUp takes it from a Pod that could still be running, so
\* no Pod can disappear before the controller has seen its phase.
PodProtected == \A p \in Live(Pod) : Fin \in Pod[p].fins

Quiescent == ~Working /\ ~queued /\ Fresh(testFeed) /\ Fresh(podFeed)

(***************************************************************************)
(* When no work is left (the queue is empty and the caches are current) a  *)
(* Test that is not deleted is where it should be: it has its finalizer;   *)
(* undecided, it has one Pod and shows that Pod's phase; decided, the Pods *)
(* its policy drops are gone; and no deleted Pod waits for the finalizer.  *)
(* A reconcile that gave up without queueing the key again breaks this.    *)
(***************************************************************************)
Converged ==
  Quiescent /\ Exists(Test) /\ ~Test.del =>
    /\ Fin \in Test.fins
    /\ ToRelease(Pod) = {}
    /\ ~IsFinal(Test.phase) =>
         \E p \in Pods : Live(Pod) = {p} /\ Test.phase = TestPhaseFor(Pod[p].phase)
    /\ Drops(Test) /\ IsFinal(Test.phase) => Live(Pod) = {}

-----------------------------------------------------------------------------
(***************************************************************************)
(* What it promises when every reconcile starts with current caches        *)
(* (MaxLag = 0).                                                           *)
(***************************************************************************)

Life == INSTANCE Lifecycle WITH
  state  <- IF ~Exists(Test) THEN "Gone" ELSE IF IsFinal(Test.phase) THEN Test.phase ELSE "Undecided",
  doomed <- Test.del

\* To whoever reads its status a Test lives the life of module Lifecycle: once
\* decided, isRunning is never entered again for it and the verdict stays; it
\* disappears only when deleted, and no patch brings it back.
LifeOfTest == Life!Spec

\* The passed and failed metrics count a Test at most once.
CountedOnce == counted <= Test.uid

\* A Test never has two Pods that nobody deleted, even if the reply to a
\* creation was lost or the manager restarted. Of the deleted ones it says
\* nothing: isRunning releases a Pod deleted while it runs and replaces it at
\* once, so it may run for a while beside its successor (OnePodAtWork).
SinglePod == \A p, q \in Live(Pod) : p = q

\* Not promised: of the Pods of a Test, deleted or not, one at most is at work.
OnePodAtWork == \A p, q \in Pods : {Pod[p].phase, Pod[q].phase} \subseteq {"Pending", "Running"} => p = q

\* Once the Test is gone nobody reconciles its Pods: none may still hold the
\* finalizer, for it would never be removed.
NoOrphanPods == ~Exists(Test) => \A p \in Listed(Pod) : Fin \notin Pod[p].fins

\* The Pod of a Test that is not deleted is deleted by the controller only
\* when the Test is decided and the retention policy says so.
EvidenceKept ==
  [][\A p \in Live(Pod) \ Live(Pod') :
       evictions' = evictions /\ Pod[p].owner = Test.uid /\ Exists(Test) /\ ~Test.del
         => IsFinal(Test.phase) /\ Drops(Test)]_vars

-----------------------------------------------------------------------------
(***************************************************************************)
(* Progress, under FairSpec.                                               *)
(***************************************************************************)

\* Every Test is decided in the end, unless it is deleted.
Decided == <>(IsFinal(Test.phase) \/ Test.del \/ ~Exists(Test))

\* A deleted Test disappears once its Pods are released.
DeletedTestGone == Test.del ~> (Test.phase = "Gone" \/ ~Test.del)

\* So does every deleted Pod: the controller takes its finalizer away.
DeletedPodGone == \A p \in Pods : Pod[p].del ~> Pod[p].phase = "Gone"

-----------------------------------------------------------------------------
(***************************************************************************)
(* Statements of the repository that the code does not keep.               *)
(***************************************************************************)

\* "the test should be deleted" (test_controller_test.go): a deleted Test the
\* controller has no more work for is gone, also after a failed API call.
DeletedTestReleased == Quiescent /\ Test.del => ~Exists(Test)

\* "Remove unfinished, deleted pods from the list" (isRunning): a Pod that was
\* deleted while it ran, and ended because of it, decides nothing.
DecidedByFinishedPod ==
  IsFinal(Test.phase) =>
    \E p \in Pods : outcome[p].phase # "None" /\ ~outcome[p].stopped

\* "executing each integration test in a separate Pod" (README): a Test is
\* decided by a Pod that was created for it.
DecidedByOwnPod ==
  IsFinal(Test.phase) =>
    \E p \in Pods : outcome[p].phase # "None" /\ Pod[p].owner = Test.uid
=============================================================================

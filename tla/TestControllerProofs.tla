------------------------ MODULE TestControllerProofs ------------------------
(***************************************************************************)
(* Theorems about TestController, for every number of Pods, faults,        *)
(* evictions, restarts and Tests of the same name: types, what a verdict   *)
(* rests on, and what is left when no work is, with caches of any age; and *)
(* the life of a Test and of its Pods when every reconcile starts with     *)
(* current caches.                                                         *)
(***************************************************************************)
EXTENDS TestController, KubeApiProofs

Results == {"OK", "NotFound", "Error", "Invalid"}

\* What the helpers do to one object.
LEMMA ObjectTypes ==
  /\ \A pod \in PodRecs, fins \in SUBSET {Fin} :
       /\ WithFins(pod, fins) \in PodRecs
       /\ Deleted(pod) \in PodRecs
  /\ \A test \in Tests, fins \in SUBSET {Fin} :
       /\ WithFins(test, fins) \in Tests
       /\ Deleted(test) \in Tests
       /\ Reaped(test) \in Tests
  /\ \A test \in Tests, phase \in TestPhases : WithPhase(test, phase) \in Tests
<1>1. ASSUME NEW pod \in PodRecs, NEW fins \in SUBSET {Fin}
      PROVE  WithFins(pod, fins) \in PodRecs /\ Deleted(pod) \in PodRecs
  BY <1>1 DEF WithFins, Deleted, PodRecs
<1>2. ASSUME NEW test \in Tests, NEW fins \in SUBSET {Fin}
      PROVE  WithFins(test, fins) \in Tests /\ Deleted(test) \in Tests /\ Reaped(test) \in Tests
  BY <1>2 DEF WithFins, Deleted, Reaped, Tests
<1>3. ASSUME NEW test \in Tests, NEW phase \in TestPhases
      PROVE  WithPhase(test, phase) \in Tests
  BY <1>3 DEF WithPhase, Tests
<1> QED
  BY <1>1, <1>2, <1>3

\* What one answer to removeFinalizer leaves of a Pod.
LEMMA ReleaseOutcomes ==
  ASSUME NEW copy, NEW pod, NEW out \in removeFinalizer(copy, pod, Fin, "Pod")
  PROVE  /\ out.res \in Results
         /\ out.obj \in {pod, WithFins(pod, copy.fins \ {Fin})}
  BY DEF removeFinalizer, PatchFins, Patch, Settled, Results

\* What one answer to cleanUp leaves of a Pod: it may have deleted it, and it
\* has removed finalizers only from a Pod the copy or the cleanUp has deleted.
LEMMA CleanUpOutcomes ==
  ASSUME NEW copy, NEW pod, NEW out \in cleanUp(copy, pod, Fin, "Pod")
  PROVE  /\ out.res \in Results
         /\ \/ out.obj \in {pod, Deleted(pod), WithFins(Deleted(pod), copy.fins \ {Fin})}
            \/ copy.del /\ out.obj = WithFins(pod, copy.fins \ {Fin})
  BY DEF cleanUp, PatchFins, Patch, Settled, Results

\* What one answer to a call on the Test leaves of it.
LEMMA TestOutcomes ==
  ASSUME NEW copy, NEW test
  PROVE  /\ \A out \in addFinalizer(copy, test, Fin, "Resource") :
              out.res \in Results /\ out.obj \in {test, Reaped(WithFins(test, copy.fins \cup {Fin}))}
         /\ \A out \in removeFinalizer(copy, test, Fin, "Resource") :
              out.res \in Results /\ out.obj \in {test, Reaped(WithFins(test, copy.fins \ {Fin}))}
         /\ \A new : \A out \in Patch(test, new) : out.res \in Results /\ out.obj \in {test, new}
<1>1. ASSUME NEW out \in addFinalizer(copy, test, Fin, "Resource")
      PROVE  out.res \in Results /\ out.obj \in {test, Reaped(WithFins(test, copy.fins \cup {Fin}))}
  <2> DEFINE new == Reaped(WithFins(test, copy.fins \cup {Fin}))
  <2>1. \/ out \in {[obj |-> test, res |-> "Invalid"], [obj |-> test, res |-> "Error"]}
        \/ out \in Patch(test, new)
    BY <1>1 DEF addFinalizer, PatchFins, Settled
  <2> QED
    BY <2>1 DEF Patch, Results
<1>2. ASSUME NEW out \in removeFinalizer(copy, test, Fin, "Resource")
      PROVE  out.res \in Results /\ out.obj \in {test, Reaped(WithFins(test, copy.fins \ {Fin}))}
  <2> DEFINE new == Reaped(WithFins(test, copy.fins \ {Fin}))
  <2>1. \/ out \in {[obj |-> test, res |-> "Invalid"], [obj |-> test, res |-> "Error"]}
        \/ out \in Patch(test, new)
    BY <1>2 DEF removeFinalizer, PatchFins, Settled
  <2> QED
    BY <2>1 DEF Patch, Results
<1>3. ASSUME NEW new, NEW out \in Patch(test, new)
      PROVE  out.res \in Results /\ out.obj \in {test, new}
  BY <1>3 DEF Patch, Results
<1> QED
  BY <1>1, <1>2, <1>3

\* A reconcile that is given a Test and Pods stands at one of its steps.
LEMMA HandleType ==
  ASSUME NEW test \in Tests, NEW pods \in PodSets
  PROVE  /\ Handle(test, pods) \in Jobs
         /\ \A step \in Steps, todo \in SUBSET Pods : At(step, test, pods, todo) \in Jobs
<1>1. \A step \in Steps, todo \in SUBSET Pods : At(step, test, pods, todo) \in Jobs
  BY DEF At, Jobs, PodPhases
<1>2. ToRelease(pods) \in SUBSET Pods
  BY DEF ToRelease, Listed
<1>3. {"pending", "complete", "running"} \subseteq Steps /\ {} \in SUBSET Pods
  BY DEF Steps
<1> QED
  BY <1>1, <1>2, <1>3 DEF Handle

-----------------------------------------------------------------------------
(***************************************************************************)
(* Type correctness.                                                       *)
(***************************************************************************)

\* What TypeOK says of the states the actions read and write.
LEMMA TypeFacts ==
  ASSUME TypeOK
  PROVE  /\ Test \in Tests /\ Cached(testFeed) \in Tests
         /\ Pod \in PodSets /\ Cached(podFeed) \in PodSets
         /\ \A test \in Tests : Publish(testFeed, test) \in Seq(Tests) /\ Publish(testFeed, test) # <<>>
         /\ \A p \in Pods, pod \in PodRecs :
              /\ [Pod EXCEPT ![p] = pod] \in PodSets
              /\ Publish(podFeed, [Pod EXCEPT ![p] = pod]) \in Seq(PodSets)
              /\ Publish(podFeed, [Pod EXCEPT ![p] = pod]) # <<>>
         /\ Working => job \in Jobs
<1>1. Test \in Tests /\ Cached(testFeed) \in Tests
  BY FeedStates DEF TypeOK, Test
<1>2. Pod \in PodSets /\ Cached(podFeed) \in PodSets
  BY FeedStates DEF TypeOK, Pod
<1>3. \A test \in Tests : Publish(testFeed, test) \in Seq(Tests) /\ Publish(testFeed, test) # <<>>
  BY PublishStates DEF TypeOK
<1>4. \A p \in Pods, pod \in PodRecs : [Pod EXCEPT ![p] = pod] \in PodSets
  BY <1>2 DEF PodSets
<1>5. \A pods \in PodSets : Publish(podFeed, pods) \in Seq(PodSets) /\ Publish(podFeed, pods) # <<>>
  BY PublishStates DEF TypeOK
<1>6. Working => job \in Jobs
  BY DEF TypeOK, Working, Idle
<1> QED
  BY <1>1, <1>2, <1>3, <1>4, <1>5, <1>6

\* A counted fault stays within its bound.
LEMMA FaultType ==
  ASSUME TypeOK, NEW outs, NEW out \in Answers(outs), Answer(out.res)
  PROVE  faults' \in 0..MaxFaults
  BY ConstantsAssumption DEF TypeOK, Answers, Answer

\* The answers to the controller's calls leave a Test a Test and a Pod a Pod.
LEMMA CallTypes ==
  ASSUME TypeOK
  PROVE  /\ \A copy \in Tests :
              /\ \A out \in Answers(addFinalizer(copy, Test, Fin, "Resource")) : out.obj \in Tests
              /\ \A out \in Answers(removeFinalizer(copy, Test, Fin, "Resource")) : out.obj \in Tests
         /\ \A phase \in TestPhases :
              \A out \in Answers(Patch(Test, WithPhase(Test, phase))) : out.obj \in Tests
         /\ \A copy \in PodRecs, p \in Pods :
              /\ \A out \in Answers(removeFinalizer(copy, Pod[p], Fin, "Pod")) : out.obj \in PodRecs
              /\ \A out \in Answers(cleanUp(copy, Pod[p], Fin, "Pod")) : out.obj \in PodRecs
<1>0. Test \in Tests /\ \A p \in Pods : Pod[p] \in PodRecs
  BY TypeFacts DEF PodSets
<1>1. ASSUME NEW copy \in Tests, NEW out \in Answers(addFinalizer(copy, Test, Fin, "Resource"))
      PROVE  out.obj \in Tests
  <2>1. out \in addFinalizer(copy, Test, Fin, "Resource")
    BY <1>1 DEF Answers
  <2>2. copy.fins \cup {Fin} \in SUBSET {Fin}
    BY DEF Tests
  <2>3. out.obj \in {Test, Reaped(WithFins(Test, copy.fins \cup {Fin}))}
    BY <2>1, TestOutcomes
  <2> QED
    BY <1>0, <2>2, <2>3, ObjectTypes
<1>2. ASSUME NEW copy \in Tests, NEW out \in Answers(removeFinalizer(copy, Test, Fin, "Resource"))
      PROVE  out.obj \in Tests
  <2>1. out \in removeFinalizer(copy, Test, Fin, "Resource")
    BY <1>2 DEF Answers
  <2>2. copy.fins \ {Fin} \in SUBSET {Fin}
    BY DEF Tests
  <2>3. out.obj \in {Test, Reaped(WithFins(Test, copy.fins \ {Fin}))}
    BY <2>1, TestOutcomes
  <2> QED
    BY <1>0, <2>2, <2>3, ObjectTypes
<1>3. ASSUME NEW phase \in TestPhases, NEW out \in Answers(Patch(Test, WithPhase(Test, phase)))
      PROVE  out.obj \in Tests
  <2>1. out \in Patch(Test, WithPhase(Test, phase))
    BY <1>3 DEF Answers
  <2>2. out.obj \in {Test, WithPhase(Test, phase)}
    BY <2>1, TestOutcomes
  <2> QED
    BY <1>0, <2>2, ObjectTypes
<1>4. ASSUME NEW copy \in PodRecs, NEW p \in Pods,
             NEW out \in Answers(removeFinalizer(copy, Pod[p], Fin, "Pod"))
      PROVE  out.obj \in PodRecs
  <2>1. out \in removeFinalizer(copy, Pod[p], Fin, "Pod")
    BY <1>4 DEF Answers
  <2>2. copy.fins \ {Fin} \in SUBSET {Fin}
    BY DEF PodRecs
  <2>3. out.obj \in {Pod[p], WithFins(Pod[p], copy.fins \ {Fin})}
    BY <2>1, ReleaseOutcomes
  <2> QED
    BY <1>0, <2>2, <2>3, ObjectTypes
<1>5. ASSUME NEW copy \in PodRecs, NEW p \in Pods,
             NEW out \in Answers(cleanUp(copy, Pod[p], Fin, "Pod"))
      PROVE  out.obj \in PodRecs
  <2>1. out \in cleanUp(copy, Pod[p], Fin, "Pod")
    BY <1>5 DEF Answers
  <2>2. copy.fins \ {Fin} \in SUBSET {Fin}
    BY DEF PodRecs
  <2>3. out.obj \in {Pod[p], Deleted(Pod[p]), WithFins(Pod[p], copy.fins \ {Fin}),
                     WithFins(Deleted(Pod[p]), copy.fins \ {Fin})}
    BY <2>1, CleanUpOutcomes
  <2> QED
    BY <1>0, <2>2, <2>3, ObjectTypes
<1> QED
  BY <1>1, <1>2, <1>3, <1>4, <1>5

\* A new Test, unreconciled, with no Pods and a queued key, has the right shape.
LEMMA InitTypeOK == Init => TypeOK
<1> SUFFICES ASSUME Init PROVE TypeOK
  OBVIOUS
<1>1. PICK policy \in Policies : testFeed = <<NewTest(1, policy)>>
  BY DEF Init
<1>2. NewTest(1, policy) \in Tests
  BY ConstantsAssumption DEF NewTest, Tests, TestPhases
<1>3. [p \in Pods |-> NoPod] \in PodSets
  BY ConstantsAssumption DEF NoPod, PodSets, PodRecs
<1>4. testFeed \in Seq(Tests) /\ testFeed # <<>> /\ podFeed \in Seq(PodSets) /\ podFeed # <<>>
  BY <1>1, <1>2, <1>3, RestartStates DEF Init
<1>5. outcome \in [Pods -> [phase : {"None", "Succeeded", "Failed"}, stopped : BOOLEAN]]
  BY DEF Init
<1> QED
  BY <1>4, <1>5, ConstantsAssumption DEF Init, TypeOK

\* The reconcile's steps.
LEMMA ControllerTypeOK ==
  ASSUME TypeOK, Controller
  PROVE  TypeOK'
<1> USE TypeFacts
<1>1. CASE Reconcile
  <2>1. Listed(Cached(podFeed)) \in SUBSET Pods /\ {} \in SUBSET Pods
    BY DEF Listed
  <2>2. {"cleanUp", "finalizer"} \subseteq Steps
    BY DEF Steps
  <2>3. job' \in {Idle} \cup Jobs
    BY <1>1, <2>1, <2>2, HandleType DEF Reconcile
  <2> QED
    BY <1>1, <2>3 DEF Reconcile, TypeOK, env
<1>2. CASE EnsureFinalizer
  <2>1. PICK out \in Answers(addFinalizer(job.test, Test, Fin, "Resource")) :
          /\ Answer(out.res)
          /\ testFeed' = Publish(testFeed, out.obj)
          /\ IF out.res = "OK" THEN job' = Handle(out.obj, job.pods) /\ UNCHANGED queued
             ELSE Return(out.res # "NotFound")
    BY <1>2 DEF EnsureFinalizer
  <2>2. job \in Jobs
    BY <1>2 DEF EnsureFinalizer, Working
  <2>3. job.test \in Tests /\ job.pods \in PodSets
    BY <2>2 DEF Jobs
  <2>4. out.obj \in Tests
    BY <2>3, CallTypes
  <2>5. faults' \in 0..MaxFaults
    BY <2>1, FaultType
  <2>6. job' \in {Idle} \cup Jobs /\ queued' \in BOOLEAN
    BY <2>1, <2>3, <2>4, HandleType DEF Return, TypeOK
  <2> QED
    BY <1>2, <2>1, <2>4, <2>5, <2>6 DEF EnsureFinalizer, TypeOK, env
<1>3. CASE SetPending
  <2>1. PICK out \in Answers(Patch(Test, WithPhase(Test, "Pending"))) :
          /\ Answer(out.res)
          /\ testFeed' = Publish(testFeed, out.obj)
          /\ IF out.res = "OK" THEN job' = Handle(out.obj, job.pods) /\ UNCHANGED queued
             ELSE Return(TRUE)
    BY <1>3 DEF SetPending
  <2>2. job.pods \in PodSets
    BY <1>3 DEF SetPending, Working, Jobs
  <2>3. out.obj \in Tests
    BY CallTypes DEF TestPhases
  <2>4. faults' \in 0..MaxFaults
    BY <2>1, FaultType
  <2>5. job' \in {Idle} \cup Jobs /\ queued' \in BOOLEAN
    BY <2>1, <2>2, <2>3, HandleType DEF Return, TypeOK
  <2> QED
    BY <1>3, <2>1, <2>3, <2>4, <2>5 DEF SetPending, TypeOK, env
<1>4. CASE \E p \in Pods : ReleasePod(p)
  <2>1. PICK p \in Pods : ReleasePod(p)
    BY <1>4
  <2>2. PICK out \in Answers(removeFinalizer(job.pods[p], Pod[p], Fin, "Pod")) :
          /\ Answer(out.res)
          /\ PublishPod(p, out.obj)
          /\ job' = [job EXCEPT
               !.todo = @ \ {p},
               !.err = @ \/ out.res = "Error",
               !.pods[p] = IF out.res = "OK" THEN out.obj ELSE Released(@)]
    BY <2>1 DEF ReleasePod
  <2>3. job \in Jobs
    BY <2>1 DEF ReleasePod, Working
  <2>4. job.pods[p] \in PodRecs /\ Pod[p] \in PodRecs
    BY <2>3 DEF Jobs, PodSets
  <2>5. out.obj \in PodRecs
    BY <2>4, CallTypes
  <2>6. Released(job.pods[p]) \in PodRecs
    BY <2>4 DEF PodRecs, Released
  <2>7. PICK pod \in PodRecs :
          job' = [job EXCEPT !.todo = @ \ {p}, !.err = @ \/ out.res = "Error", !.pods[p] = pod]
    BY <2>2, <2>5, <2>6
  <2>8. job' \in Jobs
    <3>1. [job.pods EXCEPT ![p] = pod] \in PodSets
      BY <2>3 DEF Jobs, PodSets
    <3>2. (job.err \/ out.res = "Error") \in BOOLEAN /\ job.todo \ {p} \in SUBSET Pods
      BY <2>3 DEF Jobs
    <3> QED
      BY <2>3, <2>7, <3>1, <3>2 DEF Jobs
  <2>9. faults' \in 0..MaxFaults
    BY <2>2, FaultType
  <2> QED
    BY <2>1, <2>2, <2>5, <2>8, <2>9 DEF ReleasePod, PublishPod, TypeOK, env
<1>5. CASE \E p \in Pods : CleanUpPod(p)
  <2>1. PICK p \in Pods : CleanUpPod(p)
    BY <1>5
  <2>2. PICK out \in Answers(cleanUp(job.pods[p], Pod[p], Fin, "Pod")) :
          /\ Answer(out.res)
          /\ PublishPod(p, out.obj)
          /\ job' = [job EXCEPT
               !.todo = @ \ {p},
               !.err = @ \/ out.res = "Error" \/ (out.res = "NotFound" /\ job.step # "reduce")]
    BY <2>1 DEF CleanUpPod
  <2>3. job \in Jobs
    BY <2>1 DEF CleanUpPod, Working
  <2>4. job.pods[p] \in PodRecs /\ Pod[p] \in PodRecs
    BY <2>3 DEF Jobs, PodSets
  <2>6. out.obj \in PodRecs
    BY <2>4, CallTypes
  <2>7. job' \in Jobs
    BY <2>2, <2>3 DEF Jobs
  <2>8. faults' \in 0..MaxFaults
    BY <2>2, FaultType
  <2> QED
    BY <2>1, <2>2, <2>6, <2>7, <2>8 DEF CleanUpPod, PublishPod, TypeOK, env
<1>6. CASE LoopFailed
  BY <1>6 DEF LoopFailed, Return, TypeOK, env
<1>7. CASE ChoosePod
  <2>1. job \in Jobs
    BY <1>7 DEF ChoosePod, LoopDone, Working
  <2>2. \A p \in Choices(job.pods) : job.pods[p].phase \in PodPhases
    BY <2>1 DEF Choices, Usable, Live, Listed, Exists, Jobs, PodSets, PodRecs
  <2>3. Live(job.pods) \in SUBSET Pods
    BY DEF Live, Listed
  <2>4. {"create", "status", "reduce"} \subseteq Steps
    BY DEF Steps
  <2>5. job' \in Jobs
    BY <1>7, <2>1, <2>2, <2>3, <2>4 DEF ChoosePod, Jobs
  <2> QED
    BY <1>7, <2>5 DEF ChoosePod, TypeOK, env
<1>8. CASE CreatePod
  <2>1. PICK p \in Pods, out \in Answers({[res |-> "OK"], [res |-> "Error"]}) :
          /\ Answer(out.res)
          /\ PublishPod(p, NewPod(job.test.uid))
          /\ IF out.res = "OK" THEN job' = [job EXCEPT !.step = "status", !.seen = "Pending"] /\ UNCHANGED queued
             ELSE Return(TRUE)
    BY <1>8 DEF CreatePod
  <2>2. job \in Jobs
    BY <1>8 DEF CreatePod, Working
  <2>3. NewPod(job.test.uid) \in PodRecs
    BY <2>2, ConstantsAssumption DEF NewPod, Jobs, Tests, PodRecs, PodPhases
  <2>4. faults' \in 0..MaxFaults
    BY <2>1, FaultType
  <2>5. job' \in {Idle} \cup Jobs /\ queued' \in BOOLEAN
    BY <2>1, <2>2 DEF Return, Jobs, Steps, PodPhases, TypeOK
  <2> QED
    BY <1>8, <2>1, <2>3, <2>4, <2>5 DEF CreatePod, PublishPod, TypeOK, env
<1>9. CASE CreatePodFails
  <2>1. faults \in 0..MaxFaults
    BY DEF TypeOK
  <2>2. faults' = faults \/ (faults < MaxFaults /\ faults' = faults + 1)
    BY <1>9 DEF CreatePodFails, Answer
  <2>3. faults' \in 0..MaxFaults
    BY <2>1, <2>2, ConstantsAssumption
  <2>4. job' = Idle /\ queued' \in BOOLEAN
    BY <1>9 DEF CreatePodFails, Return
  <2> QED
    BY <1>9, <2>3, <2>4 DEF CreatePodFails, TypeOK, env
<1>10. CASE UpdateStatus
  <2>1. job \in Jobs
    BY <1>10 DEF UpdateStatus, LoopDone, Working
  <2>2. TestPhaseFor(job.seen) \in TestPhases
    BY <2>1 DEF TestPhaseFor, Jobs, PodPhases, TestPhases
  <2>3. CASE TestPhaseFor(job.seen) = job.test.phase
    BY <1>10, <2>3 DEF UpdateStatus, Return, TypeOK, env
  <2>4. CASE TestPhaseFor(job.seen) # job.test.phase
    <3>1. PICK out \in Answers(Patch(Test, WithPhase(Test, TestPhaseFor(job.seen)))) :
            /\ Answer(out.res)
            /\ testFeed' = Publish(testFeed, out.obj)
            /\ counted' = IF out.res = "OK" /\ IsFinal(TestPhaseFor(job.seen)) THEN counted + 1 ELSE counted
            /\ Return(out.res # "OK")
      BY <1>10, <2>4 DEF UpdateStatus
    <3>2. out.obj \in Tests
      BY <2>2, CallTypes
    <3>3. faults' \in 0..MaxFaults
      BY <3>1, FaultType
    <3>4. counted' \in Nat /\ queued' \in BOOLEAN /\ job' = Idle
      BY <3>1 DEF Return, TypeOK
    <3> QED
      BY <1>10, <3>1, <3>2, <3>3, <3>4 DEF UpdateStatus, TypeOK, env
  <2> QED
    BY <2>3, <2>4
<1>11. CASE ApplyRetention
  <2>1. job \in Jobs
    BY <1>11 DEF ApplyRetention, LoopDone, Working
  <2>2. Listed(job.pods) \in SUBSET Pods /\ "retain" \in Steps
    BY DEF Listed, Steps
  <2>3. [job EXCEPT !.step = "retain", !.todo = Listed(job.pods)] \in Jobs
    BY <2>1, <2>2 DEF Jobs
  <2>4. job' \in {Idle} \cup Jobs /\ queued' \in BOOLEAN
    BY <1>11, <2>3 DEF ApplyRetention, Return, TypeOK
  <2> QED
    BY <1>11, <2>4 DEF ApplyRetention, TypeOK, env
<1>12. CASE RetentionDone
  BY <1>12 DEF RetentionDone, Return, TypeOK, env
<1>13. CASE ReleaseTest
  <2>1. job \in Jobs
    BY <1>13 DEF ReleaseTest, LoopDone, Working
  <2>2. job.test \in Tests
    BY <2>1 DEF Jobs
  <2>3. CASE Fin \in job.test.fins
    <3>1. PICK out \in Answers(removeFinalizer(job.test, Test, Fin, "Resource")) :
            Answer(out.res) /\ testFeed' = Publish(testFeed, out.obj)
      BY <1>13, <2>3 DEF ReleaseTest
    <3>2. out.obj \in Tests
      BY <2>2, CallTypes
    <3>3. faults' \in 0..MaxFaults
      BY <3>1, FaultType
    <3> QED
      BY <1>13, <3>1, <3>2, <3>3 DEF ReleaseTest, Return, TypeOK, env
  <2>4. CASE Fin \notin job.test.fins
    BY <1>13, <2>4 DEF ReleaseTest, Return, TypeOK, env
  <2> QED
    BY <2>3, <2>4
<1> QED
  BY <1>1, <1>2, <1>3, <1>4, <1>5, <1>6, <1>7, <1>8, <1>9, <1>10, <1>11, <1>12, <1>13 DEF Controller

\* The watches and a restart only drop states from the feeds.
LEMMA WatchTypeOK ==
  ASSUME TypeOK, TestEvent \/ PodEvent \/ Restart
  PROVE  TypeOK'
<1>1. CASE TestEvent
  <2>1. testFeed' \in Seq(Tests) /\ testFeed' # <<>>
    BY <1>1, EventStates DEF TestEvent, TypeOK
  <2> QED
    BY <1>1, <2>1 DEF TestEvent, TypeOK, env
<1>2. CASE PodEvent
  <2>1. podFeed' \in Seq(PodSets) /\ podFeed' # <<>>
    BY <1>2, EventStates DEF PodEvent, TypeOK
  <2> QED
    BY <1>2, <2>1 DEF PodEvent, TypeOK, env
<1>3. CASE Restart
  <2>1. /\ testFeed' \in Seq(Tests) /\ testFeed' # <<>>
        /\ podFeed' \in Seq(PodSets) /\ podFeed' # <<>>
    BY <1>3, TypeFacts, RestartStates DEF Restart
  <2> QED
    BY <1>3, <2>1, ConstantsAssumption DEF Restart, TypeOK
<1> QED
  BY <1>1, <1>2, <1>3

\* What a user makes of a Test is a Test.
LEMMA UserTypes ==
  ASSUME TypeOK
  PROVE  /\ Reaped(Deleted(Test)) \in Tests
         /\ TestCreatedAgain => NewTest(Test.uid + 1, Test.policy) \in Tests
<1>1. Reaped(Deleted(Test)) \in Tests
  BY TypeFacts, ObjectTypes
<1>2. ASSUME TestCreatedAgain PROVE NewTest(Test.uid + 1, Test.policy) \in Tests
  <2>1. Test.uid \in 1..MaxUid /\ Test.policy \in Policies
    BY TypeFacts DEF Tests
  <2>2. Test.uid + 1 \in 1..MaxUid
    BY <1>2, <2>1, ConstantsAssumption DEF TestCreatedAgain
  <2> QED
    BY <2>1, <2>2, ConstantsAssumption DEF NewTest, Tests, TestPhases
<1> QED
  BY <1>1, <1>2

\* Users, nodes and the garbage collector.
LEMMA ClusterTypeOK ==
  ASSUME TypeOK, Cluster
  PROVE  TypeOK'
<1>1. ASSUME NEW p \in Pods, NEW pod \in PodRecs, PublishPod(p, pod)
      PROVE  podFeed' \in Seq(PodSets) /\ podFeed' # <<>>
  BY <1>1, TypeFacts DEF PublishPod
<1>2. \A p \in Pods : Pod[p] \in PodRecs
  BY TypeFacts DEF PodSets
<1>3. \A p \in Pods : /\ Deleted(Pod[p]) \in PodRecs
                      /\ \A phase \in PodPhases \cup {"Gone"} : [Pod[p] EXCEPT !.phase = phase] \in PodRecs
  <2>1. \A pod \in PodRecs, phase \in PodPhases \cup {"Gone"} : [pod EXCEPT !.phase = phase] \in PodRecs
    BY DEF PodRecs
  <2> QED
    BY <1>2, <2>1, ObjectTypes
<1>4. CASE \E p \in Pods : PodStarts(p)
  BY <1>4, <1>1, <1>3 DEF PodStarts, Others, TypeOK, PodPhases
<1>5. CASE \E p \in Pods : PodEnds(p, "Succeeded") \/ PodEnds(p, "Failed")
  <2>1. PICK p \in Pods, phase \in {"Succeeded", "Failed"} : PodEnds(p, phase)
    BY <1>5
  <2>2. [phase |-> phase, stopped |-> Pod[p].del] \in
          [phase : {"None", "Succeeded", "Failed"}, stopped : BOOLEAN]
    BY <1>2 DEF PodRecs
  <2>3. outcome' \in [Pods -> [phase : {"None", "Succeeded", "Failed"}, stopped : BOOLEAN]]
    BY <2>1, <2>2 DEF PodEnds, TypeOK
  <2>4. podFeed' \in Seq(PodSets) /\ podFeed' # <<>>
    BY <2>1, <1>1, <1>3 DEF PodEnds, PodPhases
  <2> QED
    BY <2>1, <2>3, <2>4 DEF PodEnds, Others, TypeOK
<1>6. CASE \E p \in Pods : PodRemoved(p)
  BY <1>6, <1>1, <1>3 DEF PodRemoved, Others, TypeOK
<1>7. CASE \E p \in Pods : PodEvicted(p)
  BY <1>7, <1>1, <1>3, ConstantsAssumption DEF PodEvicted, Others, TypeOK
<1>8. CASE \E p \in Pods : PodOrphaned(p)
  BY <1>8, <1>1, <1>3 DEF PodOrphaned, Others, TypeOK
<1>9. CASE TestDeleted
  BY <1>9, UserTypes, TypeFacts DEF TestDeleted, Others, TypeOK
<1>10. CASE TestCreatedAgain
  BY <1>10, UserTypes, TypeFacts DEF TestCreatedAgain, Others, TypeOK
<1> QED
  BY <1>4, <1>5, <1>6, <1>7, <1>8, <1>9, <1>10 DEF Cluster

\* A step that changes nothing keeps every shape.
LEMMA StutterTypeOK == TypeOK /\ UNCHANGED vars => TypeOK'
  BY DEF TypeOK, vars

\* So does every step of the controller and its cluster.
LEMMA NextTypeOK == TypeOK /\ [Next]_vars => TypeOK'
  BY ControllerTypeOK, WatchTypeOK, ClusterTypeOK, StutterTypeOK DEF Next

\* In every behaviour of the Test controller every variable keeps its shape:
\* no call, watch event, restart or act of the cluster leaves a malformed
\* object, an empty feed, or a reconcile at a step the code does not have.
THEOREM TypeCorrect == Spec => []TypeOK
  BY InitTypeOK, NextTypeOK, PTL DEF Spec

-----------------------------------------------------------------------------
(***************************************************************************)
(* The inductive invariant behind PodProtected and VerdictSound.  Both     *)
(* rest on the same fact: what a reconcile read, however long ago, can be  *)
(* outdated but never wrong.  A Pod it saw deleted is deleted, and a Pod   *)
(* it saw completed has completed that way.                                *)
(***************************************************************************)
Agrees(pods, now, reports) ==
  \A p \in Pods : /\ pods[p].del => now[p].del
                  /\ Completed(pods[p].phase) => reports[p].phase = pods[p].phase

\* So it is with everything the Pod cache will ever show.
FeedAgrees == \A k \in 1..Len(podFeed) : Agrees(podFeed[k], Pod, outcome)

\* So it is with the listing of the reconcile in progress.  The Pods it takes
\* the finalizer from it has seen deleted, and the phase it is about to turn
\* into a verdict some node reported.
JobAgrees ==
  Working => /\ Agrees(job.pods, Pod, outcome)
             /\ Completed(job.seen) => Reported(job.seen)
             /\ job.step \in {"running", "complete"} => \A p \in job.todo : job.pods[p].del

\* A Pod that has not ended has no report, and an unborn one is not deleted.
Unfinished ==
  \A p \in Pods : /\ Pod[p].phase \in {"Unborn", "Pending", "Running"} => outcome[p].phase = "None"
                  /\ Pod[p].phase = "Unborn" => ~Pod[p].del

Evidence == FeedAgrees /\ JobAgrees /\ Unfinished /\ PodProtected /\ VerdictSound

\* The server's Pods and the reports move on only in ways that leave every
\* older listing in agreement with them.
Later(now, reports, now2, reports2) ==
  \A p \in Pods : /\ now[p].del => now2[p].del
                  /\ reports[p].phase # "None" => reports2[p].phase = reports[p].phase

\* A listing that agrees with the server's Pods still agrees with later ones.
LEMMA AgreesLater ==
  ASSUME NEW pods, NEW now, NEW reports, NEW now2, NEW reports2,
         Agrees(pods, now, reports), Later(now, reports, now2, reports2)
  PROVE  Agrees(pods, now2, reports2)
  BY DEF Agrees, Later, Completed

\* With no Pods there is nothing a listing or a verdict could be wrong about.
LEMMA InitEvidence == Init => Evidence
<1> SUFFICES ASSUME Init PROVE Evidence
  OBVIOUS
<1> DEFINE none == [p \in Pods |-> NoPod]
<1>1. podFeed = <<none>> /\ Len(podFeed) = 1 /\ podFeed[1] = none /\ Pod = none
  BY DEF Init, Pod, Stored
<1>2. \A p \in Pods : Pod[p].phase = "Unborn" /\ ~Pod[p].del /\ outcome[p].phase = "None"
  BY <1>1 DEF Init, NoPod
<1>3. FeedAgrees
  BY <1>1, <1>2 DEF FeedAgrees, Agrees, Completed
<1>4. JobAgrees
  BY DEF Init, JobAgrees, Working, Idle
<1>5. Unfinished /\ PodProtected
  BY <1>2 DEF Unfinished, PodProtected, Live, Listed, Exists
<1>6. Test.phase = ""
  <2>1. PICK policy \in Policies : testFeed = <<NewTest(1, policy)>>
    BY DEF Init
  <2>2. Test = NewTest(1, policy)
    BY <2>1, RestartStates DEF Test
  <2> QED
    BY <2>2 DEF NewTest
<1>7. VerdictSound
  BY <1>6 DEF VerdictSound
<1> QED
  BY <1>3, <1>4, <1>5, <1>7 DEF Evidence

\* What a write to one Pod has to respect: a deleted Pod stays deleted, one
\* that is not keeps the finalizer, and its phase goes with its report.
Lawful(pod, new, report, report2) ==
  /\ pod.del => new.del
  /\ Exists(new) /\ ~new.del => Fin \in new.fins
  /\ report.phase # "None" => report2.phase = report.phase
  /\ Completed(new.phase) => report2.phase = new.phase
  /\ new.phase \in {"Unborn", "Pending", "Running"} => report2.phase = "None"
  /\ new.phase = "Unborn" => ~new.del

\* After a write the server has the new Pods, and the feed nothing else that is new.
LEMMA PodsPublished ==
  ASSUME TypeOK, NEW pods \in PodSets, podFeed' = Publish(podFeed, pods)
  PROVE  /\ Pod' = pods
         /\ \A k \in 1..Len(podFeed') : podFeed'[k] = pods \/ \E m \in 1..Len(podFeed) : podFeed'[k] = podFeed[m]
<1>1. podFeed \in Seq(PodSets) /\ podFeed # <<>>
  BY DEF TypeOK
<1>2. Stored(Publish(podFeed, pods)) = pods
  BY <1>1, PublishStates
<1>3. \A k \in 1..Len(Publish(podFeed, pods)) :
        \/ Publish(podFeed, pods)[k] = pods
        \/ \E m \in 1..Len(podFeed) : Publish(podFeed, pods)[k] = podFeed[m]
  BY <1>1, PublishKeeps
<1> QED
  BY <1>2, <1>3 DEF Pod

\* Such a write keeps the part of the invariant that is about Pods.
LEMMA PodWritten ==
  ASSUME TypeOK, Evidence, NEW p \in Pods, NEW pod \in PodRecs, PublishPod(p, pod),
         Lawful(Pod[p], pod, outcome[p], outcome'[p]),
         \A q \in Pods \ {p} : outcome'[q] = outcome[q]
  PROVE  /\ Pod'[p] = pod
         /\ Later(Pod, outcome, Pod', outcome')
         /\ FeedAgrees' /\ Unfinished' /\ PodProtected'
<1> DEFINE pods == [Pod EXCEPT ![p] = pod]
<1>1. /\ Pod' = pods
      /\ \A k \in 1..Len(podFeed') : podFeed'[k] = pods \/ \E m \in 1..Len(podFeed) : podFeed'[k] = podFeed[m]
  <2>1. pods \in PodSets
    BY TypeFacts
  <2> QED
    BY <2>1, PodsPublished DEF PublishPod
<1>2. Pod'[p] = pod /\ \A q \in Pods \ {p} : Pod'[q] = Pod[q]
  BY <1>1, TypeFacts DEF PodSets
<1>3. Later(Pod, outcome, Pod', outcome')
  BY <1>2 DEF Later, Lawful
<1>4. Agrees(pods, Pod', outcome')
  <2>1. Agrees(Pod, Pod, outcome)
    BY FeedStates DEF Evidence, FeedAgrees, TypeOK, Pod
  <2>2. \A q \in Pods : Completed(Pod'[q].phase) => outcome'[q].phase = Pod'[q].phase
    BY <1>2, <2>1 DEF Agrees, Lawful
  <2> QED
    BY <1>1, <2>2 DEF Agrees
<1>5. FeedAgrees'
  BY <1>1, <1>3, <1>4, AgreesLater DEF Evidence, FeedAgrees
<1>6. Unfinished'
  BY <1>2 DEF Evidence, Unfinished, Lawful
<1>7. PodProtected'
  BY <1>2 DEF Evidence, PodProtected, Live, Listed, Lawful
<1> QED
  BY <1>2, <1>3, <1>5, <1>6, <1>7

\* What was reported stays reported.
LEMMA ReportedLater ==
  ASSUME Later(Pod, outcome, Pod', outcome'), NEW phase, Completed(phase), Reported(phase)
  PROVE  Reported(phase)'
  BY DEF Later, Reported, Completed

\* A step that writes no Pod keeps the part of the invariant about Pods.
LEMMA PodsUntouched ==
  ASSUME Evidence, UNCHANGED <<podFeed, outcome>>
  PROVE  /\ Later(Pod, outcome, Pod', outcome')
         /\ FeedAgrees' /\ Unfinished' /\ PodProtected'
  BY DEF Evidence, Later, FeedAgrees, Unfinished, PodProtected, Pod

\* A step that does not write the Test keeps its verdict sound.
LEMMA TestUntouched ==
  ASSUME Evidence, UNCHANGED testFeed, Later(Pod, outcome, Pod', outcome')
  PROVE  VerdictSound'
<1>1. Test' = Test
  BY DEF Test
<1> QED
  BY <1>1, ReportedLater DEF Evidence, VerdictSound, Completed

\* So does one that writes a Test whose verdict was reported before.
LEMMA TestWritten ==
  ASSUME TypeOK, NEW test \in Tests, testFeed' = Publish(testFeed, test),
         Later(Pod, outcome, Pod', outcome'),
         test.phase = "Passed" => Reported("Succeeded"),
         test.phase = "Failed" => Reported("Failed")
  PROVE  VerdictSound'
<1>1. Test' = test
  BY PublishStates DEF TypeOK, Test
<1> QED
  BY <1>1, ReportedLater DEF VerdictSound, Completed

\* What the calls on the Test can make of its phase.
LEMMA PhaseOutcomes ==
  ASSUME TypeOK
  PROVE  /\ \A copy \in Tests :
              /\ \A out \in Answers(addFinalizer(copy, Test, Fin, "Resource")) : out.obj.phase \in {Test.phase, "Gone"}
              /\ \A out \in Answers(removeFinalizer(copy, Test, Fin, "Resource")) : out.obj.phase \in {Test.phase, "Gone"}
         /\ \A phase \in TestPhases :
              \A out \in Answers(Patch(Test, WithPhase(Test, phase))) : out.obj.phase \in {Test.phase, phase}
<1>1. \A fins \in SUBSET {Fin} : Reaped(WithFins(Test, fins)).phase \in {Test.phase, "Gone"}
  BY TypeFacts DEF Reaped, WithFins, Tests
<1>2. ASSUME NEW copy \in Tests, NEW out \in Answers(addFinalizer(copy, Test, Fin, "Resource"))
      PROVE  out.obj.phase \in {Test.phase, "Gone"}
  <2>1. out \in addFinalizer(copy, Test, Fin, "Resource")
    BY <1>2 DEF Answers
  <2>2. out.obj \in {Test, Reaped(WithFins(Test, copy.fins \cup {Fin}))}
    BY <2>1, TestOutcomes
  <2>3. copy.fins \cup {Fin} \in SUBSET {Fin}
    BY DEF Tests
  <2> QED
    BY <1>1, <2>2, <2>3
<1>3. ASSUME NEW copy \in Tests, NEW out \in Answers(removeFinalizer(copy, Test, Fin, "Resource"))
      PROVE  out.obj.phase \in {Test.phase, "Gone"}
  <2>1. out \in removeFinalizer(copy, Test, Fin, "Resource")
    BY <1>3 DEF Answers
  <2>2. out.obj \in {Test, Reaped(WithFins(Test, copy.fins \ {Fin}))}
    BY <2>1, TestOutcomes
  <2>3. copy.fins \ {Fin} \in SUBSET {Fin}
    BY DEF Tests
  <2> QED
    BY <1>1, <2>2, <2>3
<1>4. ASSUME NEW phase \in TestPhases, NEW out \in Answers(Patch(Test, WithPhase(Test, phase)))
      PROVE  out.obj.phase \in {Test.phase, phase}
  <2>1. out \in Patch(Test, WithPhase(Test, phase))
    BY <1>4 DEF Answers
  <2>2. out.obj \in {Test, WithPhase(Test, phase)}
    BY <2>1, TestOutcomes
  <2> QED
    BY <2>2, TypeFacts DEF WithPhase, Tests
<1> QED
  BY <1>2, <1>3, <1>4

\* Between reconciles there is nothing to agree with.
LEMMA JobEnds ==
  ASSUME job' = Idle
  PROVE  JobAgrees'
  BY DEF JobAgrees, Working, Idle

\* A reconcile stays in agreement while others act.
LEMMA JobKept ==
  ASSUME Evidence, UNCHANGED job, Later(Pod, outcome, Pod', outcome')
  PROVE  JobAgrees'
<1>1. ASSUME Working
      PROVE  Agrees(job.pods, Pod', outcome') /\ (Completed(job.seen) => Reported(job.seen)')
  BY <1>1, AgreesLater, ReportedLater DEF Evidence, JobAgrees
<1> QED
  BY <1>1 DEF Evidence, JobAgrees, Working, Reported

\* A listing in agreement starts, or goes on with, a reconcile in agreement.
LEMMA JobHandles ==
  ASSUME NEW test, NEW pods, Agrees(pods, Pod', outcome'),
         \/ job' = Handle(test, pods)
         \/ \E todo : job' = At("cleanUp", test, pods, todo)
         \/ \E todo : job' = At("finalizer", test, pods, todo)
  PROVE  JobAgrees'
<1>1. /\ job'.pods = pods
      /\ job'.seen = "Pending"
      /\ job'.step \in {"running", "complete"} => job'.todo = ToRelease(pods)
  <2>1. CASE job' = Handle(test, pods)
    <3>1. CASE test.phase = ""
      BY <2>1, <3>1 DEF Handle, At
    <3>2. CASE test.phase # ""
      BY <2>1, <3>2 DEF Handle, At
    <3> QED
      BY <3>1, <3>2
  <2>2. CASE \E todo : job' = At("cleanUp", test, pods, todo) \/ job' = At("finalizer", test, pods, todo)
    BY <2>2 DEF At
  <2> QED
    BY <2>1, <2>2
<1>2. \A p \in ToRelease(pods) : pods[p].del
  BY DEF ToRelease
<1> QED
  BY <1>1, <1>2 DEF JobAgrees, Completed

\* The calls that write one Pod are lawful.
LEMMA LawfulCalls ==
  ASSUME TypeOK, Evidence, NEW p \in Pods, Working
  PROVE  /\ job.step \in {"running", "complete"} /\ p \in job.todo =>
              \A out \in Answers(removeFinalizer(job.pods[p], Pod[p], Fin, "Pod")) :
                Lawful(Pod[p], out.obj, outcome[p], outcome[p])
         /\ \A out \in Answers(cleanUp(job.pods[p], Pod[p], Fin, "Pod")) :
                Lawful(Pod[p], out.obj, outcome[p], outcome[p])
<1> DEFINE pod == Pod[p]
           fins == job.pods[p].fins \ {Fin}
<1>1. pod \in PodRecs /\ fins \in SUBSET {Fin}
  BY TypeFacts DEF PodSets, Jobs, PodRecs
<1>2. Agrees(Pod, Pod, outcome) /\ Agrees(job.pods, Pod, outcome)
  BY FeedStates DEF Evidence, FeedAgrees, JobAgrees, TypeOK, Pod
<1>3. /\ Exists(pod) /\ ~pod.del => Fin \in pod.fins
      /\ Completed(pod.phase) => outcome[p].phase = pod.phase
      /\ pod.phase \in {"Unborn", "Pending", "Running"} => outcome[p].phase = "None"
      /\ pod.phase = "Unborn" => ~pod.del
  BY <1>2 DEF Evidence, PodProtected, Live, Listed, Unfinished, Agrees
<1>4. Lawful(pod, pod, outcome[p], outcome[p])
  BY <1>3 DEF Lawful
<1>5. Lawful(pod, Deleted(pod), outcome[p], outcome[p])
  BY <1>1, <1>3 DEF Lawful, Deleted, PodRecs, Exists
<1>6. Lawful(pod, WithFins(Deleted(pod), fins), outcome[p], outcome[p])
  BY <1>1, <1>3 DEF Lawful, Deleted, WithFins, PodRecs, Exists
<1>7. ASSUME job.pods[p].del
      PROVE  Lawful(pod, WithFins(pod, fins), outcome[p], outcome[p])
  <2>1. pod.del
    BY <1>2, <1>7 DEF Agrees
  <2> QED
    BY <1>1, <1>3, <2>1 DEF Lawful, WithFins, PodRecs, Exists
<1>8. ASSUME job.step \in {"running", "complete"}, p \in job.todo,
             NEW out \in Answers(removeFinalizer(job.pods[p], pod, Fin, "Pod"))
      PROVE  Lawful(pod, out.obj, outcome[p], outcome[p])
  <2>1. out \in removeFinalizer(job.pods[p], pod, Fin, "Pod")
    BY <1>8 DEF Answers
  <2>2. out.obj \in {pod, WithFins(pod, fins)}
    BY <2>1, ReleaseOutcomes
  <2>3. job.pods[p].del
    BY <1>8 DEF Evidence, JobAgrees
  <2> QED
    BY <1>4, <1>7, <2>2, <2>3
<1>9. ASSUME NEW out \in Answers(cleanUp(job.pods[p], pod, Fin, "Pod"))
      PROVE  Lawful(pod, out.obj, outcome[p], outcome[p])
  <2>1. out \in cleanUp(job.pods[p], pod, Fin, "Pod")
    BY <1>9 DEF Answers
  <2>2. \/ out.obj \in {pod, Deleted(pod), WithFins(Deleted(pod), fins)}
        \/ job.pods[p].del /\ out.obj = WithFins(pod, fins)
    BY <2>1, CleanUpOutcomes
  <2> QED
    BY <1>4, <1>5, <1>6, <1>7, <2>2
<1> QED
  BY <1>8, <1>9

\* The reconcile's steps.
LEMMA ControllerEvidence ==
  ASSUME TypeOK, Evidence, Controller
  PROVE  Evidence'
<1>1. Working => job \in Jobs /\ job.test \in Tests /\ job.pods \in PodSets /\ Agrees(job.pods, Pod, outcome)
  BY TypeFacts DEF Jobs, Evidence, JobAgrees
<1>2. /\ Test.phase = "Passed" => Reported("Succeeded")
      /\ Test.phase = "Failed" => Reported("Failed")
  BY DEF Evidence, VerdictSound
<1>3. CASE Reconcile
  <2>1. Agrees(Cached(podFeed), Pod, outcome)
    BY FeedStates DEF Evidence, FeedAgrees, TypeOK
  <2>2. UNCHANGED <<podFeed, outcome, testFeed>>
    BY <1>3 DEF Reconcile, env
  <2>3. Agrees(Cached(podFeed), Pod', outcome')
    BY <2>1, <2>2, PodsUntouched, AgreesLater
  <2>4. JobAgrees'
    BY <1>3, <2>3, JobEnds, JobHandles DEF Reconcile
  <2> QED
    BY <2>2, <2>4, PodsUntouched, TestUntouched DEF Evidence
<1>4. CASE EnsureFinalizer
  <2>1. PICK out \in Answers(addFinalizer(job.test, Test, Fin, "Resource")) :
          /\ testFeed' = Publish(testFeed, out.obj)
          /\ job' = Handle(out.obj, job.pods) \/ job' = Idle
    BY <1>4 DEF EnsureFinalizer, Return
  <2>2. UNCHANGED <<podFeed, outcome>> /\ Working
    BY <1>4 DEF EnsureFinalizer, env, Working
  <2>3. Later(Pod, outcome, Pod', outcome')
    BY <2>2, PodsUntouched
  <2>4. out.obj \in Tests /\ out.obj.phase \in {Test.phase, "Gone"}
    BY <1>1, <2>2, CallTypes, PhaseOutcomes
  <2>5. VerdictSound'
    BY <1>2, <2>1, <2>3, <2>4, TestWritten
  <2>6. JobAgrees'
    BY <1>1, <2>1, <2>2, <2>3, AgreesLater, JobHandles, JobEnds
  <2> QED
    BY <2>2, <2>5, <2>6, PodsUntouched DEF Evidence
<1>5. CASE SetPending
  <2>1. PICK out \in Answers(Patch(Test, WithPhase(Test, "Pending"))) :
          /\ testFeed' = Publish(testFeed, out.obj)
          /\ job' = Handle(out.obj, job.pods) \/ job' = Idle
    BY <1>5 DEF SetPending, Return
  <2>2. UNCHANGED <<podFeed, outcome>> /\ Working
    BY <1>5 DEF SetPending, env, Working
  <2>3. Later(Pod, outcome, Pod', outcome')
    BY <2>2, PodsUntouched
  <2>4. out.obj \in Tests /\ out.obj.phase \in {Test.phase, "Pending"}
    BY CallTypes, PhaseOutcomes DEF TestPhases
  <2>5. VerdictSound'
    BY <1>2, <2>1, <2>3, <2>4, TestWritten
  <2>6. JobAgrees'
    BY <1>1, <2>1, <2>2, <2>3, AgreesLater, JobHandles, JobEnds
  <2> QED
    BY <2>2, <2>5, <2>6, PodsUntouched DEF Evidence
<1>6. CASE \E p \in Pods : ReleasePod(p)
  <2>1. PICK p \in Pods : ReleasePod(p)
    BY <1>6
  <2>2. PICK out \in Answers(removeFinalizer(job.pods[p], Pod[p], Fin, "Pod")) :
          /\ PublishPod(p, out.obj)
          /\ job' = [job EXCEPT
               !.todo = @ \ {p},
               !.err = @ \/ out.res = "Error",
               !.pods[p] = IF out.res = "OK" THEN out.obj ELSE Released(@)]
    BY <2>1 DEF ReleasePod
  <2>3. /\ Working /\ job.step \in {"running", "complete"} /\ p \in job.todo
        /\ UNCHANGED <<testFeed, outcome>>
    BY <2>1 DEF ReleasePod, Working, env
  <2>4. job.pods[p] \in PodRecs /\ out.obj \in PodRecs
    BY <1>1, <2>3, CallTypes DEF PodSets
  <2>5. Lawful(Pod[p], out.obj, outcome[p], outcome'[p])
    BY <2>3, LawfulCalls
  <2>6. /\ Pod'[p] = out.obj
        /\ Later(Pod, outcome, Pod', outcome')
        /\ FeedAgrees' /\ Unfinished' /\ PodProtected'
    BY <2>2, <2>3, <2>4, <2>5, PodWritten
  <2>7. JobAgrees'
    <3>1. Agrees(job.pods, Pod', outcome')
      BY <1>1, <2>3, <2>6, AgreesLater
    <3>2. /\ Agrees(job'.pods, Pod', outcome')
          /\ \A q \in job.todo \ {p} : job'.pods[q] = job.pods[q]
      <4>1. PICK pod \in {out.obj, Released(job.pods[p])} :
              /\ job'.pods = [job.pods EXCEPT ![p] = pod]
        BY <1>1, <2>2, <2>3 DEF Jobs
      <4>2. /\ pod.del => Pod'[p].del
            /\ Completed(pod.phase) => outcome'[p].phase = pod.phase
        <5>1. Released(job.pods[p]).del = job.pods[p].del /\ Released(job.pods[p]).phase = job.pods[p].phase
          BY <2>4 DEF Released, PodRecs
        <5> QED
          BY <2>5, <2>6, <3>1, <5>1 DEF Agrees, Lawful
      <4>3. job'.pods[p] = pod /\ \A q \in Pods \ {p} : job'.pods[q] = job.pods[q]
        BY <1>1, <2>3, <4>1 DEF PodSets
      <4> QED
        BY <1>1, <2>3, <3>1, <4>2, <4>3 DEF Agrees, Jobs
    <3>3. job'.seen = job.seen /\ job'.step = job.step /\ job'.todo = job.todo \ {p}
      BY <1>1, <2>2, <2>3 DEF Jobs
    <3> QED
      BY <2>3, <2>6, <3>2, <3>3, ReportedLater DEF JobAgrees, Evidence
  <2> QED
    BY <2>3, <2>6, <2>7, TestUntouched DEF Evidence
<1>7. CASE \E p \in Pods : CleanUpPod(p)
  <2>1. PICK p \in Pods : CleanUpPod(p)
    BY <1>7
  <2>2. PICK out \in Answers(cleanUp(job.pods[p], Pod[p], Fin, "Pod")) :
          /\ PublishPod(p, out.obj)
          /\ job' = [job EXCEPT
               !.todo = @ \ {p},
               !.err = @ \/ out.res = "Error" \/ (out.res = "NotFound" /\ job.step # "reduce")]
    BY <2>1 DEF CleanUpPod
  <2>3. Working /\ job.step \notin {"running", "complete"} /\ UNCHANGED <<testFeed, outcome>>
    BY <2>1 DEF CleanUpPod, Working, env
  <2>4. out.obj \in PodRecs
    BY <1>1, <2>3, CallTypes DEF PodSets
  <2>5. Lawful(Pod[p], out.obj, outcome[p], outcome'[p])
    BY <2>3, LawfulCalls
  <2>6. /\ Later(Pod, outcome, Pod', outcome')
        /\ FeedAgrees' /\ Unfinished' /\ PodProtected'
    BY <2>2, <2>3, <2>4, <2>5, PodWritten
  <2>7. job'.pods = job.pods /\ job'.seen = job.seen /\ job'.step = job.step
    BY <1>1, <2>2, <2>3 DEF Jobs
  <2>8. Agrees(job'.pods, Pod', outcome')
    BY <1>1, <2>3, <2>6, <2>7, AgreesLater
  <2>9. JobAgrees'
    BY <2>3, <2>6, <2>7, <2>8, ReportedLater DEF JobAgrees, Evidence
  <2> QED
    BY <2>3, <2>6, <2>9, TestUntouched DEF Evidence
<1>8. CASE LoopFailed \/ RetentionDone
  BY <1>8, PodsUntouched, TestUntouched, JobEnds DEF LoopFailed, RetentionDone, Return, env, Evidence
<1>9. CASE ChoosePod
  <2>1. UNCHANGED <<podFeed, outcome, testFeed>> /\ Working
    BY <1>9 DEF ChoosePod, LoopDone, Working, env
  <2>2. /\ job'.pods = job.pods
        /\ job'.step \in {"create", "status", "reduce"}
        /\ job'.seen = job.seen \/ \E p \in Pods : job'.seen = job.pods[p].phase
    BY <1>1, <1>9, <2>1 DEF ChoosePod, Choices, Usable, Live, Listed, Jobs
  <2>3. Completed(job'.seen) => Reported(job'.seen)
    BY <1>1, <2>1, <2>2 DEF Evidence, JobAgrees, Agrees, Reported
  <2>4. JobAgrees'
    BY <1>1, <2>1, <2>2, <2>3 DEF JobAgrees, Reported, Pod
  <2> QED
    BY <2>1, <2>4, PodsUntouched, TestUntouched DEF Evidence
<1>10. CASE CreatePod
  <2>1. PICK p \in Pods :
          /\ Pod[p].phase = "Unborn"
          /\ PublishPod(p, NewPod(job.test.uid))
          /\ job' = [job EXCEPT !.step = "status", !.seen = "Pending"] \/ job' = Idle
    BY <1>10 DEF CreatePod, Return
  <2>2. Working /\ UNCHANGED <<testFeed, outcome>>
    BY <1>10 DEF CreatePod, Working, env
  <2>3. NewPod(job.test.uid) \in PodRecs
    BY <1>1, <2>2, ConstantsAssumption DEF NewPod, Tests, PodRecs, PodPhases
  <2>4. Lawful(Pod[p], NewPod(job.test.uid), outcome[p], outcome'[p])
    BY <2>1, <2>2 DEF Lawful, NewPod, Completed, Evidence, Unfinished
  <2>5. /\ Later(Pod, outcome, Pod', outcome')
        /\ FeedAgrees' /\ Unfinished' /\ PodProtected'
    BY <2>1, <2>2, <2>3, <2>4, PodWritten
  <2>6. CASE job' = [job EXCEPT !.step = "status", !.seen = "Pending"]
    <3>1. job'.pods = job.pods /\ job'.seen = "Pending" /\ job'.step = "status"
      BY <1>1, <2>2, <2>6 DEF Jobs
    <3>2. Agrees(job'.pods, Pod', outcome')
      BY <1>1, <2>2, <2>5, <3>1, AgreesLater
    <3> QED
      BY <2>2, <2>5, <3>1, <3>2, TestUntouched DEF JobAgrees, Completed, Evidence
  <2>7. CASE job' = Idle
    BY <2>2, <2>5, <2>7, JobEnds, TestUntouched DEF Evidence
  <2> QED
    BY <2>1, <2>6, <2>7
<1>11. CASE CreatePodFails
  BY <1>11, PodsUntouched, TestUntouched, JobEnds DEF CreatePodFails, Return, env, Evidence
<1>12. CASE UpdateStatus
  <2>1. Working /\ UNCHANGED <<podFeed, outcome>> /\ job' = Idle
    BY <1>12 DEF UpdateStatus, LoopDone, Working, Return, env
  <2>2. Later(Pod, outcome, Pod', outcome')
    BY <2>1, PodsUntouched
  <2>3. VerdictSound'
    <3>1. CASE UNCHANGED testFeed
      BY <2>2, <3>1, TestUntouched
    <3>2. CASE \E out \in Answers(Patch(Test, WithPhase(Test, TestPhaseFor(job.seen)))) :
                 testFeed' = Publish(testFeed, out.obj)
      <4>1. PICK out \in Answers(Patch(Test, WithPhase(Test, TestPhaseFor(job.seen)))) :
                 testFeed' = Publish(testFeed, out.obj)
        BY <3>2
      <4>2. /\ TestPhaseFor(job.seen) \in TestPhases
            /\ TestPhaseFor(job.seen) = "Passed" => job.seen = "Succeeded"
            /\ TestPhaseFor(job.seen) = "Failed" => job.seen = "Failed"
        BY <1>1, <2>1 DEF TestPhaseFor, Jobs, PodPhases, TestPhases
      <4>3. /\ TestPhaseFor(job.seen) = "Passed" => Reported("Succeeded")
            /\ TestPhaseFor(job.seen) = "Failed" => Reported("Failed")
        BY <2>1, <4>2 DEF Evidence, JobAgrees, Completed
      <4>4. out.obj \in Tests /\ out.obj.phase \in {Test.phase, TestPhaseFor(job.seen)}
        BY <4>2, CallTypes, PhaseOutcomes
      <4> QED
        BY <1>2, <2>2, <4>1, <4>3, <4>4, TestWritten
    <3> QED
      BY <1>12, <3>1, <3>2 DEF UpdateStatus
  <2> QED
    BY <2>1, <2>3, PodsUntouched, JobEnds DEF Evidence
<1>13. CASE ApplyRetention
  <2>1. Working /\ UNCHANGED <<podFeed, outcome, testFeed>>
    BY <1>13 DEF ApplyRetention, LoopDone, Working, env
  <2>2. CASE job' = Idle
    BY <2>1, <2>2, JobEnds, PodsUntouched, TestUntouched DEF Evidence
  <2>3. CASE job' = [job EXCEPT !.step = "retain", !.todo = Listed(job.pods)]
    <3>1. job'.pods = job.pods /\ job'.seen = job.seen /\ job'.step = "retain"
      BY <1>1, <2>1, <2>3 DEF Jobs
    <3>2. JobAgrees'
      BY <1>1, <2>1, <3>1 DEF JobAgrees, Reported, Evidence, Pod
    <3> QED
      BY <2>1, <3>2, PodsUntouched, TestUntouched DEF Evidence
  <2> QED
    BY <1>13, <2>2, <2>3 DEF ApplyRetention, Return
<1>14. CASE ReleaseTest
  <2>1. Working /\ UNCHANGED <<podFeed, outcome>> /\ job' = Idle
    BY <1>14 DEF ReleaseTest, LoopDone, Working, Return, env
  <2>2. Later(Pod, outcome, Pod', outcome')
    BY <2>1, PodsUntouched
  <2>3. VerdictSound'
    <3>1. CASE UNCHANGED testFeed
      BY <2>2, <3>1, TestUntouched
    <3>2. CASE \E out \in Answers(removeFinalizer(job.test, Test, Fin, "Resource")) :
                 testFeed' = Publish(testFeed, out.obj)
      <4>1. PICK out \in Answers(removeFinalizer(job.test, Test, Fin, "Resource")) :
                 testFeed' = Publish(testFeed, out.obj)
        BY <3>2
      <4>2. out.obj \in Tests /\ out.obj.phase \in {Test.phase, "Gone"}
        BY <1>1, <2>1, CallTypes, PhaseOutcomes
      <4> QED
        BY <1>2, <2>2, <4>1, <4>2, TestWritten
    <3> QED
      BY <1>14, <3>1, <3>2 DEF ReleaseTest
  <2> QED
    BY <2>1, <2>3, PodsUntouched, JobEnds DEF Evidence
<1> QED
  BY <1>3, <1>4, <1>5, <1>6, <1>7, <1>8, <1>9, <1>10, <1>11, <1>12, <1>13, <1>14 DEF Controller

\* The watches forget old listings and a restart all of them.
LEMMA WatchEvidence ==
  ASSUME TypeOK, Evidence, TestEvent \/ PodEvent \/ Restart
  PROVE  Evidence'
<1>1. CASE TestEvent
  <2>1. UNCHANGED <<podFeed, outcome, job>>
    BY <1>1 DEF TestEvent, env
  <2>2. Test' = Test
    BY <1>1, EventStates DEF TestEvent, TypeOK, Test
  <2>3. VerdictSound'
    BY <2>1, <2>2 DEF Evidence, VerdictSound, Reported
  <2> QED
    BY <2>1, <2>3, PodsUntouched, JobKept DEF Evidence
<1>2. CASE PodEvent
  <2>1. UNCHANGED <<testFeed, outcome, job>>
    BY <1>2 DEF PodEvent, env
  <2>2. /\ Pod' = Pod
        /\ \A k \in 1..Len(podFeed') : \E m \in 1..Len(podFeed) : podFeed'[k] = podFeed[m]
    BY <1>2, EventStates DEF PodEvent, TypeOK, Pod
  <2>3. Later(Pod, outcome, Pod', outcome')
    BY <2>1, <2>2 DEF Later
  <2>4. FeedAgrees' /\ Unfinished' /\ PodProtected'
    BY <2>1, <2>2 DEF Evidence, FeedAgrees, Unfinished, PodProtected
  <2> QED
    BY <2>1, <2>3, <2>4, TestUntouched, JobKept DEF Evidence
<1>3. CASE Restart
  <2>1. /\ Pod' = Pod /\ Test' = Test
        /\ \A k \in 1..Len(podFeed') : podFeed'[k] = Pod
    BY <1>3, TypeFacts, RestartStates DEF Restart, Pod, Test
  <2>2. UNCHANGED outcome /\ job' = Idle
    BY <1>3 DEF Restart
  <2>3. Agrees(Pod, Pod, outcome)
    BY FeedStates DEF Evidence, FeedAgrees, TypeOK, Pod
  <2>4. FeedAgrees' /\ Unfinished' /\ PodProtected'
    BY <2>1, <2>2, <2>3 DEF Evidence, FeedAgrees, Unfinished, PodProtected
  <2>5. VerdictSound'
    BY <2>1, <2>2 DEF Evidence, VerdictSound, Reported
  <2> QED
    BY <2>2, <2>4, <2>5, JobEnds DEF Evidence
<1> QED
  BY <1>1, <1>2, <1>3

\* Users, nodes and the garbage collector.
LEMMA ClusterEvidence ==
  ASSUME TypeOK, Evidence, Cluster
  PROVE  Evidence'
<1>1. \A p \in Pods :
        /\ Pod[p] \in PodRecs
        /\ Exists(Pod[p]) /\ ~Pod[p].del => Fin \in Pod[p].fins
        /\ Completed(Pod[p].phase) => outcome[p].phase = Pod[p].phase
        /\ Pod[p].phase \in {"Unborn", "Pending", "Running"} => outcome[p].phase = "None"
  <2>1. Agrees(Pod, Pod, outcome)
    BY FeedStates DEF Evidence, FeedAgrees, TypeOK, Pod
  <2> QED
    BY <2>1, TypeFacts DEF PodSets, Evidence, PodProtected, Live, Listed, Unfinished, Agrees
<1>2. ASSUME NEW p \in Pods, NEW pod \in PodRecs, PublishPod(p, pod),
             Lawful(Pod[p], pod, outcome[p], outcome'[p]),
             \A q \in Pods \ {p} : outcome'[q] = outcome[q],
             UNCHANGED <<testFeed, job>>
      PROVE  Evidence'
  BY <1>2, PodWritten, TestUntouched, JobKept DEF Evidence
<1>3. CASE \E p \in Pods : PodStarts(p)
  <2>1. PICK p \in Pods : PodStarts(p)
    BY <1>3
  <2> DEFINE pod == [Pod[p] EXCEPT !.phase = "Running"]
  <2>2. pod \in PodRecs
    BY <1>1 DEF PodRecs, PodPhases
  <2>3. Lawful(Pod[p], pod, outcome[p], outcome'[p])
    BY <1>1, <2>1 DEF PodStarts, Lawful, PodRecs, Exists, Completed
  <2> QED
    BY <1>2, <2>1, <2>2, <2>3 DEF PodStarts, Others
<1>4. CASE \E p \in Pods : PodEnds(p, "Succeeded") \/ PodEnds(p, "Failed")
  <2>1. PICK p \in Pods, phase \in {"Succeeded", "Failed"} : PodEnds(p, phase)
    BY <1>4
  <2> DEFINE pod == [Pod[p] EXCEPT !.phase = phase]
  <2>2. pod \in PodRecs
    BY <1>1 DEF PodRecs, PodPhases
  <2>3. outcome'[p].phase = phase /\ \A q \in Pods \ {p} : outcome'[q] = outcome[q]
    BY <2>1 DEF PodEnds, TypeOK
  <2>4. Lawful(Pod[p], pod, outcome[p], outcome'[p])
    BY <1>1, <2>1, <2>3 DEF PodEnds, Lawful, PodRecs, Exists, Completed
  <2> QED
    BY <1>2, <2>1, <2>2, <2>3, <2>4 DEF PodEnds, Others
<1>5. CASE \E p \in Pods : PodRemoved(p)
  <2>1. PICK p \in Pods : PodRemoved(p)
    BY <1>5
  <2> DEFINE pod == [Pod[p] EXCEPT !.phase = "Gone"]
  <2>2. pod \in PodRecs
    BY <1>1 DEF PodRecs
  <2>3. Lawful(Pod[p], pod, outcome[p], outcome'[p])
    BY <1>1, <2>1 DEF PodRemoved, Lawful, PodRecs, Exists, Completed
  <2> QED
    BY <1>2, <2>1, <2>2, <2>3 DEF PodRemoved, Others
<1>6. CASE \E p \in Pods : PodEvicted(p) \/ PodOrphaned(p)
  <2>1. PICK p \in Pods : PodEvicted(p) \/ PodOrphaned(p)
    BY <1>6
  <2>2. Deleted(Pod[p]) \in PodRecs
    BY <1>1, ObjectTypes
  <2>3. UNCHANGED <<outcome, testFeed, job>> /\ PublishPod(p, Deleted(Pod[p])) /\ Exists(Pod[p])
    BY <2>1 DEF PodEvicted, PodOrphaned, Others, Live, Listed
  <2>4. Lawful(Pod[p], Deleted(Pod[p]), outcome[p], outcome'[p])
    BY <1>1, <2>3 DEF Lawful, Deleted, PodRecs, Exists
  <2> QED
    BY <1>2, <2>2, <2>3, <2>4
<1>7. CASE TestDeleted \/ TestCreatedAgain
  <2>1. UNCHANGED <<podFeed, outcome, job>>
    BY <1>7 DEF TestDeleted, TestCreatedAgain, Others
  <2>2. Later(Pod, outcome, Pod', outcome')
    BY <2>1, PodsUntouched
  <2>3. PICK test \in Tests : testFeed' = Publish(testFeed, test) /\ test.phase \in {Test.phase, "Gone", ""}
    <3>1. Reaped(Deleted(Test)).phase \in {Test.phase, "Gone"}
      BY TypeFacts DEF Reaped, Deleted, Tests
    <3>2. NewTest(Test.uid + 1, Test.policy).phase = ""
      BY DEF NewTest
    <3> QED
      BY <1>7, <3>1, <3>2, UserTypes DEF TestDeleted, TestCreatedAgain
  <2>4. VerdictSound'
    BY <2>2, <2>3, TestWritten DEF Evidence, VerdictSound
  <2> QED
    BY <2>1, <2>2, <2>4, PodsUntouched, JobKept DEF Evidence
<1> QED
  BY <1>3, <1>4, <1>5, <1>6, <1>7 DEF Cluster

\* A step that changes nothing keeps the evidence.
LEMMA StutterEvidence == Evidence /\ UNCHANGED vars => Evidence'
<1> SUFFICES ASSUME Evidence, UNCHANGED vars PROVE Evidence'
  OBVIOUS
<1>1. UNCHANGED <<testFeed, podFeed, job, outcome>>
  BY DEF vars
<1> QED
  BY <1>1, PodsUntouched, TestUntouched, JobKept DEF Evidence

\* Nothing any actor does makes what a reconcile has read, or will read from
\* its cache, wrong about deletions and completions.
THEOREM EvidenceInvariant == Spec => []Evidence
<1>1. Evidence /\ TypeOK /\ [Next]_vars => Evidence'
  BY ControllerEvidence, WatchEvidence, ClusterEvidence, StutterEvidence DEF Next
<1> QED
  BY <1>1, InitEvidence, TypeCorrect, PTL DEF Spec

\* A Test never shows a verdict no node reported for one of its Pods, however
\* old the caches isRunning read, whatever calls failed or were lost, and
\* however often the manager restarted.
THEOREM VerdictAlwaysSound == Spec => []VerdictSound
<1>1. Evidence => VerdictSound
  BY DEF Evidence
<1> QED
  BY <1>1, EvidenceInvariant, PTL

\* The finalizer is never taken from a Pod that is not deleted, so no Pod
\* can disappear before the controller has had the chance to see how it ended.
THEOREM PodsAlwaysProtected == Spec => []PodProtected
<1>1. Evidence => PodProtected
  BY DEF Evidence
<1> QED
  BY <1>1, EvidenceInvariant, PTL
-----------------------------------------------------------------------------
(***************************************************************************)
(* What the controller promises when every reconcile starts with current   *)
(* caches (MaxLag = 0): the reconcile works for the Test it read.          *)
(***************************************************************************)
\* A Test that is deleted and not gone is held by the finalizer.
DeletedHeld == Exists(Test) /\ Test.del => Fin \in Test.fins

\* Once it has ensured the finalizer a reconcile works for the Test the server
\* has: others may delete it but not remove, replace or decide it.
OwnTest ==
  Working /\ job.step # "finalizer" =>
    /\ Exists(Test) /\ Fin \in Test.fins /\ Fin \in job.test.fins
    /\ job.test.uid = Test.uid /\ job.test.policy = Test.policy /\ job.test.phase = Test.phase
    /\ job.step \in {"pending", "running", "reduce", "create", "status"} => ~IsFinal(Test.phase)
    /\ job.step \in {"complete", "retain"} => IsFinal(Test.phase)
    /\ job.step = "retain" => Drops(Test)
    /\ job.step = "cleanUp" => Test.del

\* Up to the creation of a Pod of its own it knows of every Pod that may still
\* be running, and there is one at most.
OwnPods ==
  Working => /\ job.step # "status" => Live(Pod) \subseteq Live(job.pods)
             /\ \A p, q \in Live(job.pods) : p = q
             /\ job.step # "reduce"
             /\ job.step = "create" => Live(job.pods) = {}

\* The Pods a deleted Test still has to release are in the loop, or failed in it.
HeldPods ==
  job.step = "cleanUp" =>
    \A p \in Listed(Pod) : Fin \in Pod[p].fins => Fin \in job.pods[p].fins /\ (p \in job.todo \/ job.err)

\* A Test that may disappear has no Pod that would need it.
Unneeded == ~Exists(Test) \/ Fin \notin Test.fins => \A p \in Listed(Pod) : Fin \notin Pod[p].fins

\* A Test that is not decided is not counted yet.
Counting == counted <= Test.uid /\ (Exists(Test) /\ ~IsFinal(Test.phase) => counted < Test.uid)

Current == DeletedHeld /\ OwnTest /\ OwnPods /\ HeldPods /\ Unneeded /\ SinglePod /\ Counting

-----------------------------------------------------------------------------
\* What a write to one Pod may do when it creates none.
Wanes(pod, new) == Exists(new) => Exists(pod) /\ (pod.del => new.del) /\ new.fins \subseteq pod.fins

Waned == \A p \in Pods : Wanes(Pod[p], Pod'[p])

\* A write makes the new Test, or the new Pod, the stored one.
LEMMA Stores ==
  ASSUME TypeOK
  PROVE  /\ \A test \in Tests : testFeed' = Publish(testFeed, test) => Test' = test
         /\ \A p \in Pods, pod \in PodRecs : PublishPod(p, pod) => Pod' = [Pod EXCEPT ![p] = pod]
         /\ UNCHANGED testFeed => Test' = Test
         /\ UNCHANGED podFeed => Pod' = Pod
<1>1. ASSUME NEW test \in Tests, testFeed' = Publish(testFeed, test) PROVE Test' = test
  BY <1>1, PublishStates DEF TypeOK, Test
<1>2. ASSUME NEW p \in Pods, NEW pod \in PodRecs, PublishPod(p, pod) PROVE Pod' = [Pod EXCEPT ![p] = pod]
  BY <1>2, TypeFacts, PodsPublished DEF PublishPod
<1> QED
  BY <1>1, <1>2 DEF Test, Pod

\* A write that creates no Pod leaves the other Pods alone.
LEMMA PodWanes ==
  ASSUME TypeOK, NEW p \in Pods, NEW pod \in PodRecs, PublishPod(p, pod), Wanes(Pod[p], pod)
  PROVE  Waned /\ Pod'[p] = pod /\ \A q \in Pods \ {p} : Pod'[q] = Pod[q]
<1>1. Pod' = [Pod EXCEPT ![p] = pod] /\ Pod \in PodSets
  BY Stores, TypeFacts
<1>2. Pod'[p] = pod /\ \A q \in Pods \ {p} : Pod'[q] = Pod[q]
  BY <1>1 DEF PodSets
<1> QED
  BY <1>2 DEF Waned, Wanes

\* Neither does a step that writes no Pod.
LEMMA PodsStay ==
  ASSUME Pod' = Pod
  PROVE  Waned
  BY DEF Waned, Wanes

\* With fewer Pods there are fewer that run and fewer that are held.
LEMMA Fewer ==
  ASSUME Waned
  PROVE  /\ Live(Pod') \subseteq Live(Pod)
         /\ Listed(Pod') \subseteq Listed(Pod)
         /\ \A p \in Listed(Pod') : Fin \in Pod'[p].fins => Fin \in Pod[p].fins
  BY DEF Waned, Wanes, Live, Listed

\* When Pods only go, what is known of the reconcile's own stays known.
LEMMA FewerPods ==
  ASSUME Current, Waned
  PROVE  /\ SinglePod'
         /\ UNCHANGED job => OwnPods' /\ HeldPods'
         /\ (~Exists(Test') \/ Fin \notin Test'.fins => ~Exists(Test) \/ Fin \notin Test.fins) => Unneeded'
<1>1. SinglePod'
  BY Fewer DEF Current, SinglePod
<1>2. ASSUME UNCHANGED job PROVE OwnPods'
  BY <1>2, Fewer DEF Current, OwnPods, Working
<1>3. ASSUME UNCHANGED job PROVE HeldPods'
  BY <1>3, Fewer DEF Current, HeldPods
<1>4. ASSUME ~Exists(Test') \/ Fin \notin Test'.fins => ~Exists(Test) \/ Fin \notin Test.fins
      PROVE  Unneeded'
  BY <1>4, Fewer DEF Current, Unneeded
<1> QED
  BY <1>1, <1>2, <1>3, <1>4

\* The calls on a Pod create none.
LEMMA PodCallsWane ==
  ASSUME TypeOK, NEW p \in Pods, NEW copy \in PodRecs
  PROVE  /\ \A out \in Answers(removeFinalizer(copy, Pod[p], Fin, "Pod")) : Wanes(Pod[p], out.obj)
         /\ \A out \in Answers(cleanUp(copy, Pod[p], Fin, "Pod")) : Wanes(Pod[p], out.obj)
<1>1. Pod[p] \in PodRecs /\ copy.fins \ {Fin} = {}
  BY TypeFacts DEF PodSets, PodRecs
<1>2. \A pod \in PodRecs : /\ Wanes(pod, pod)
                           /\ Wanes(pod, Deleted(pod))
                           /\ Wanes(pod, WithFins(pod, {}))
                           /\ Wanes(pod, WithFins(Deleted(pod), {}))
  BY DEF Wanes, Deleted, WithFins, Exists, PodRecs
<1>3. ASSUME NEW out \in Answers(removeFinalizer(copy, Pod[p], Fin, "Pod")) PROVE Wanes(Pod[p], out.obj)
  <2>1. out \in removeFinalizer(copy, Pod[p], Fin, "Pod")
    BY <1>3 DEF Answers
  <2>2. out.obj \in {Pod[p], WithFins(Pod[p], copy.fins \ {Fin})}
    BY <2>1, ReleaseOutcomes
  <2> QED
    BY <1>1, <1>2, <2>2
<1>4. ASSUME NEW out \in Answers(cleanUp(copy, Pod[p], Fin, "Pod")) PROVE Wanes(Pod[p], out.obj)
  <2>1. out \in cleanUp(copy, Pod[p], Fin, "Pod")
    BY <1>4 DEF Answers
  <2>2. out.obj \in {Pod[p], Deleted(Pod[p]), WithFins(Pod[p], copy.fins \ {Fin}),
                     WithFins(Deleted(Pod[p]), copy.fins \ {Fin})}
    BY <2>1, CleanUpOutcomes
  <2> QED
    BY <1>1, <1>2, <2>2
<1> QED
  BY <1>3, <1>4

\* A cleanUp that reports no error has removed the finalizer, if the copy has it.
LEMMA CleanUpReleases ==
  ASSUME NEW copy \in PodRecs, NEW pod \in PodRecs, Fin \in copy.fins,
         NEW out \in cleanUp(copy, pod, Fin, "Pod"), out.res \notin {"Error", "NotFound"}
  PROVE  Exists(out.obj) => Fin \notin out.obj.fins
<1> DEFINE deleted == IF copy.del THEN pod ELSE Deleted(pod)
<1>1. copy.fins \ {Fin} = {} /\ deleted \in PodRecs
  BY ObjectTypes DEF PodRecs
<1>2. CASE copy.del \/ Exists(pod)
  <2>1. out \in PatchFins(deleted, {}, "Pod")
    BY <1>1, <1>2 DEF cleanUp, Settled
  <2>2. out \in Patch(deleted, WithFins(deleted, {}))
    BY <2>1 DEF PatchFins, Settled
  <2>3. out.obj = WithFins(deleted, {})
    BY <2>2 DEF Patch
  <2> HIDE DEF deleted
  <2> QED
    BY <1>1, <2>3 DEF WithFins, Exists, PodRecs
<1>3. CASE ~copy.del /\ ~Exists(pod)
  <2>1. out.obj \in {pod, deleted}
    BY <1>3 DEF cleanUp, Settled
  <2> QED
    BY <1>3, <2>1 DEF Deleted
<1> QED
  BY <1>2, <1>3

-----------------------------------------------------------------------------
\* What the calls on the Test leave of it, and what an OK says.
LEMMA TestCalls ==
  ASSUME TypeOK
  PROVE  /\ \A copy \in Tests : \A out \in Answers(addFinalizer(copy, Test, Fin, "Resource")) :
              /\ out.obj \in {Test, WithFins(Test, {Fin})}
              /\ out.res = "OK" => Exists(Test) /\ out.obj = WithFins(Test, {Fin})
         /\ \A copy \in Tests : \A out \in Answers(removeFinalizer(copy, Test, Fin, "Resource")) :
              out.obj \in {Test, Reaped(WithFins(Test, {}))}
         /\ \A phase \in TestPhases : \A out \in Answers(Patch(Test, WithPhase(Test, phase))) :
              /\ out.obj \in {Test, WithPhase(Test, phase)}
              /\ out.res = "OK" => Exists(Test) /\ out.obj = WithPhase(Test, phase)
<1>1. Test \in Tests
  BY TypeFacts
<1>2. \A copy \in Tests : copy.fins \cup {Fin} = {Fin} /\ copy.fins \ {Fin} = {}
  BY DEF Tests
<1>3. Reaped(WithFins(Test, {Fin})) = WithFins(Test, {Fin})
  BY <1>1 DEF Reaped, WithFins, Tests
<1>4. ASSUME NEW copy \in Tests, NEW out \in Answers(addFinalizer(copy, Test, Fin, "Resource"))
      PROVE  /\ out.obj \in {Test, WithFins(Test, {Fin})}
             /\ out.res = "OK" => Exists(Test) /\ out.obj = WithFins(Test, {Fin})
  <2>1. out \in PatchFins(Test, {Fin}, "Resource")
    BY <1>2, <1>4 DEF Answers, addFinalizer
  <2>2. \/ out \in {[obj |-> Test, res |-> "Invalid"], [obj |-> Test, res |-> "Error"]}
        \/ out \in Patch(Test, WithFins(Test, {Fin}))
    BY <1>3, <2>1 DEF PatchFins, Settled
  <2> QED
    BY <2>2 DEF Patch
<1>5. ASSUME NEW copy \in Tests, NEW out \in Answers(removeFinalizer(copy, Test, Fin, "Resource"))
      PROVE  out.obj \in {Test, Reaped(WithFins(Test, {}))}
  <2>1. out \in removeFinalizer(copy, Test, Fin, "Resource")
    BY <1>5 DEF Answers
  <2> QED
    BY <1>2, <2>1, TestOutcomes
<1>6. ASSUME NEW phase \in TestPhases, NEW out \in Answers(Patch(Test, WithPhase(Test, phase)))
      PROVE  /\ out.obj \in {Test, WithPhase(Test, phase)}
             /\ out.res = "OK" => Exists(Test) /\ out.obj = WithPhase(Test, phase)
  BY <1>6 DEF Answers, Patch
<1> QED
  BY <1>4, <1>5, <1>6

\* A reconcile handed the stored Test works for it.
LEMMA Handled ==
  ASSUME NEW test \in Tests, NEW pods, job' = Handle(test, pods), Test' = test,
         Exists(test), Fin \in test.fins
  PROVE  /\ OwnTest' /\ HeldPods'
         /\ job'.pods = pods /\ job'.step \notin {"status", "reduce", "create"} /\ Working'
<1>1. /\ job'.test = test /\ job'.pods = pods
      /\ job'.step \in {"pending", "complete", "running"}
      /\ job'.step = "complete" => IsFinal(test.phase)
      /\ job'.step # "complete" => ~IsFinal(test.phase)
  <2>1. CASE test.phase = ""
    BY <2>1 DEF Handle, At, IsFinal
  <2>2. CASE test.phase # ""
    BY <2>2 DEF Handle, At
  <2> QED
    BY <2>1, <2>2
<1>2. OwnTest'
  BY <1>1 DEF OwnTest
<1> QED
  BY <1>1, <1>2 DEF HeldPods, Working

\* Between reconciles nothing is to be known.
LEMMA Rests ==
  ASSUME job' = Idle
  PROVE  OwnTest' /\ OwnPods' /\ HeldPods'
  BY DEF OwnTest, OwnPods, HeldPods, Working, Idle

\* A new Test has neither Pods nor results.
LEMMA InitCurrent == Init => Current
<1> SUFFICES ASSUME Init PROVE Current
  OBVIOUS
<1>1. PICK policy \in Policies : testFeed = <<NewTest(1, policy)>>
  BY DEF Init
<1>2. Test = NewTest(1, policy)
  BY <1>1, RestartStates DEF Test
<1>3. Pod = [p \in Pods |-> NoPod]
  BY RestartStates DEF Init, Pod
<1>4. \A p \in Pods : ~Exists(Pod[p])
  BY <1>3 DEF NoPod, Exists
<1>5. ~Test.del /\ Test.uid = 1
  BY <1>2 DEF NewTest
<1>6. counted = 0
  BY DEF Init
<1>7. DeletedHeld /\ Counting
  BY <1>5, <1>6 DEF DeletedHeld, Counting
<1>8. Unneeded /\ SinglePod
  BY <1>4 DEF Unneeded, SinglePod, Live, Listed
<1>9. OwnTest /\ OwnPods /\ HeldPods
  BY DEF Init, OwnTest, OwnPods, HeldPods, Working, Idle
<1> QED
  BY <1>7, <1>8, <1>9 DEF Current

\* A step that leaves the Test and what is counted alone.
LEMMA TestStays ==
  ASSUME Current, Test' = Test, UNCHANGED counted
  PROVE  DeletedHeld' /\ Counting'
  BY DEF Current, DeletedHeld, Counting

\* The reconcile's steps.
LEMMA ControllerCurrent ==
  ASSUME MaxLag = 0, TypeOK, Evidence, Current, Controller
  PROVE  Current'
<1>1. Test \in Tests /\ Pod \in PodSets /\ counted \in Nat /\ Test.uid \in Nat
  BY TypeFacts DEF TypeOK, Tests
<1>2. Working => job \in Jobs /\ job.test \in Tests /\ job.pods \in PodSets /\ job.todo \in SUBSET Pods
  BY TypeFacts DEF Jobs
<1>3. CASE Reconcile
  <2>1. Cached(testFeed) = Test /\ Cached(podFeed) = Pod
    <3>1. Len(testFeed) \in Nat \ {0} /\ Len(podFeed) \in Nat \ {0}
      BY FeedStates DEF TypeOK
    <3>2. Len(testFeed) <= 1 /\ Len(podFeed) <= 1
      BY <1>3 DEF Reconcile
    <3>3. \A n \in Nat \ {0} : n <= 1 => n = 1
      OBVIOUS
    <3>4. Len(testFeed) = 1 /\ Len(podFeed) = 1
      BY <3>1, <3>2, <3>3, Zenon
    <3> QED
      BY <3>4, FeedStates DEF TypeOK, Test, Pod
  <2>2. Test' = Test /\ Pod' = Pod /\ UNCHANGED counted
    BY <1>3, Stores DEF Reconcile
  <2>3. DeletedHeld' /\ Counting' /\ SinglePod' /\ Unneeded'
    BY <2>2, TestStays, PodsStay, FewerPods
  <2>4. CASE ~Exists(Test)
    BY <1>3, <2>1, <2>3, <2>4, Rests DEF Reconcile, Current
  <2>5. CASE Exists(Test) /\ Test.del
    <3>1. job' = At("cleanUp", Test, Pod, Listed(Pod))
      BY <1>3, <2>1, <2>5 DEF Reconcile
    <3>2. /\ job'.step = "cleanUp" /\ job'.test = Test /\ job'.pods = Pod
          /\ job'.todo = Listed(Pod)
      BY <3>1 DEF At
    <3>3. Fin \in Test.fins
      BY <2>5 DEF Current, DeletedHeld
    <3>4. OwnTest'
      BY <2>2, <2>5, <3>2, <3>3 DEF OwnTest
    <3>5. OwnPods' /\ HeldPods'
      BY <2>2, <3>2 DEF OwnPods, HeldPods, Current, SinglePod
    <3> QED
      BY <2>3, <3>4, <3>5 DEF Current
  <2>6. CASE Exists(Test) /\ ~Test.del /\ Fin \notin Test.fins
    <3>1. job' = At("finalizer", Test, Pod, {})
      BY <1>3, <2>1, <2>6 DEF Reconcile
    <3>2. job'.step = "finalizer" /\ job'.pods = Pod
      BY <3>1 DEF At
    <3>3. OwnTest' /\ HeldPods'
      BY <3>2 DEF OwnTest, HeldPods
    <3>4. OwnPods'
      BY <2>2, <3>2 DEF OwnPods, Current, SinglePod
    <3> QED
      BY <2>3, <3>3, <3>4 DEF Current
  <2>7. CASE Exists(Test) /\ ~Test.del /\ Fin \in Test.fins
    <3>1. job' = Handle(Test, Pod)
      BY <1>3, <2>1, <2>7 DEF Reconcile
    <3>2. OwnTest' /\ HeldPods' /\ job'.pods = Pod /\ job'.step \notin {"status", "reduce", "create"}
      BY <1>1, <2>2, <2>7, <3>1, Handled
    <3>3. OwnPods'
      BY <2>2, <3>2 DEF OwnPods, Current, SinglePod
    <3> QED
      BY <2>3, <3>2, <3>3 DEF Current
  <2> QED
    BY <2>4, <2>5, <2>6, <2>7
<1>4. CASE EnsureFinalizer
  <2>1. PICK out \in Answers(addFinalizer(job.test, Test, Fin, "Resource")) :
          /\ testFeed' = Publish(testFeed, out.obj)
          /\ IF out.res = "OK" THEN job' = Handle(out.obj, job.pods) ELSE job' = Idle
    BY <1>4 DEF EnsureFinalizer, Return
  <2>2. Working /\ UNCHANGED <<podFeed, counted>> /\ job.step = "finalizer"
    BY <1>4 DEF EnsureFinalizer, Working
  <2>3. Test' = out.obj /\ Pod' = Pod /\ out.obj \in Tests
    BY <1>2, <2>1, <2>2, CallTypes, Stores
  <2>4. /\ out.obj \in {Test, WithFins(Test, {Fin})}
        /\ out.res = "OK" => Exists(Test) /\ out.obj = WithFins(Test, {Fin})
    BY <1>2, <2>2, TestCalls
  <2>5. /\ Test'.uid = Test.uid /\ Test'.phase = Test.phase /\ Test'.del = Test.del
        /\ Test'.fins = Test.fins \/ (Exists(Test) /\ Fin \in Test'.fins)
        /\ Exists(Test') <=> Exists(Test)
    BY <1>1, <2>3, <2>4 DEF WithFins, Tests, Exists
  <2>6. DeletedHeld' /\ Counting'
    BY <2>2, <2>5 DEF Current, DeletedHeld, Counting
  <2>7. SinglePod' /\ Unneeded'
    BY <2>3, <2>5, PodsStay, FewerPods
  <2>8. CASE out.res = "OK"
    <3>1. Exists(Test') /\ Fin \in Test'.fins
      BY <1>1, <2>3, <2>4, <2>5, <2>8 DEF WithFins, Tests
    <3>2. OwnTest' /\ HeldPods' /\ job'.pods = job.pods /\ job'.step \notin {"status", "reduce", "create"}
      BY <2>1, <2>3, <2>8, <3>1, Handled
    <3>3. OwnPods'
      BY <2>2, <2>3, <3>2 DEF OwnPods, Current
    <3> QED
      BY <2>6, <2>7, <3>2, <3>3 DEF Current
  <2>9. CASE out.res # "OK"
    BY <2>1, <2>6, <2>7, <2>9, Rests DEF Current
  <2> QED
    BY <2>8, <2>9
<1>5. CASE SetPending
  <2>1. PICK out \in Answers(Patch(Test, WithPhase(Test, "Pending"))) :
          /\ testFeed' = Publish(testFeed, out.obj)
          /\ IF out.res = "OK" THEN job' = Handle(out.obj, job.pods) ELSE job' = Idle
    BY <1>5 DEF SetPending, Return
  <2>2. Working /\ UNCHANGED <<podFeed, counted>> /\ job.step = "pending"
    BY <1>5 DEF SetPending, Working
  <2>3. Exists(Test) /\ Fin \in Test.fins /\ ~IsFinal(Test.phase)
    BY <2>2 DEF Current, OwnTest
  <2>4. Test' = out.obj /\ Pod' = Pod /\ out.obj \in Tests /\ out.obj \in {Test, WithPhase(Test, "Pending")}
    BY <1>2, <2>1, <2>2, CallTypes, Stores, TestCalls DEF TestPhases
  <2>5. /\ Test'.uid = Test.uid /\ Test'.del = Test.del /\ Test'.fins = Test.fins
        /\ Exists(Test') /\ ~IsFinal(Test'.phase)
    BY <1>1, <2>3, <2>4 DEF WithPhase, Tests, Exists, IsFinal
  <2>6. DeletedHeld' /\ Counting'
    BY <2>2, <2>3, <2>5 DEF Current, DeletedHeld, Counting
  <2>7. SinglePod' /\ Unneeded'
    BY <2>3, <2>4, <2>5, PodsStay, FewerPods
  <2>8. CASE out.res = "OK"
    <3>1. OwnTest' /\ HeldPods' /\ job'.pods = job.pods /\ job'.step \notin {"status", "reduce", "create"}
      BY <2>1, <2>3, <2>4, <2>5, <2>8, Handled
    <3>2. OwnPods'
      BY <2>2, <2>4, <3>1 DEF OwnPods, Current
    <3> QED
      BY <2>6, <2>7, <3>1, <3>2 DEF Current
  <2>9. CASE out.res # "OK"
    BY <2>1, <2>6, <2>7, <2>9, Rests DEF Current
  <2> QED
    BY <2>8, <2>9
<1>6. CASE \E p \in Pods : ReleasePod(p)
  <2>1. PICK p \in Pods : ReleasePod(p)
    BY <1>6
  <2>2. PICK out \in Answers(removeFinalizer(job.pods[p], Pod[p], Fin, "Pod")) :
          /\ PublishPod(p, out.obj)
          /\ job' = [job EXCEPT
               !.todo = @ \ {p},
               !.err = @ \/ out.res = "Error",
               !.pods[p] = IF out.res = "OK" THEN out.obj ELSE Released(@)]
    BY <2>1 DEF ReleasePod
  <2>3. Working /\ job.step \in {"running", "complete"} /\ p \in job.todo /\ UNCHANGED <<testFeed, counted>>
    BY <2>1 DEF ReleasePod, Working
  <2>4. job.pods[p] \in PodRecs /\ Pod[p] \in PodRecs
    BY <1>1, <1>2, <2>3 DEF PodSets
  <2>5. out.obj \in PodRecs /\ Wanes(Pod[p], out.obj)
    BY <2>4, CallTypes, PodCallsWane
  <2>6. Test' = Test /\ Waned /\ Pod'[p] = out.obj
    BY <2>2, <2>3, <2>5, Stores, PodWanes
  <2>7. job.pods[p].del /\ Pod[p].del
    BY <2>3 DEF Evidence, JobAgrees, Agrees
  <2>8. PICK pod \in {out.obj, Released(job.pods[p])} : job'.pods = [job.pods EXCEPT ![p] = pod]
    BY <1>2, <2>2, <2>3 DEF Jobs
  <2>9. job'.step = job.step /\ job'.test = job.test
    BY <1>2, <2>2, <2>3 DEF Jobs
  <2>10. Exists(pod) => pod.del
    BY <2>4, <2>5, <2>7, <2>8 DEF Wanes, Released, PodRecs
  <2>11. Live(job'.pods) = Live(job.pods)
    BY <1>2, <2>3, <2>7, <2>8, <2>10 DEF Live, Listed, PodSets
  <2>12. OwnPods'
    BY <2>3, <2>6, <2>9, <2>11, Fewer DEF OwnPods, Current
  <2>13. OwnTest' /\ HeldPods'
    BY <2>3, <2>6, <2>9 DEF Current, OwnTest, HeldPods, Working
  <2> QED
    BY <2>3, <2>6, <2>12, <2>13, TestStays, FewerPods DEF Current
<1>7. CASE \E p \in Pods : CleanUpPod(p)
  <2>1. PICK p \in Pods : CleanUpPod(p)
    BY <1>7
  <2>2. PICK out \in Answers(cleanUp(job.pods[p], Pod[p], Fin, "Pod")) :
          /\ PublishPod(p, out.obj)
          /\ job' = [job EXCEPT
               !.todo = @ \ {p},
               !.err = @ \/ out.res = "Error" \/ (out.res = "NotFound" /\ job.step # "reduce")]
    BY <2>1 DEF CleanUpPod
  <2>3. /\ Working /\ job.step \in {"reduce", "retain", "cleanUp"} /\ p \in job.todo
        /\ UNCHANGED <<testFeed, counted>>
    BY <2>1 DEF CleanUpPod, Working
  <2>4. job.pods[p] \in PodRecs /\ Pod[p] \in PodRecs
    BY <1>1, <1>2, <2>3 DEF PodSets
  <2>5. out.obj \in PodRecs /\ Wanes(Pod[p], out.obj)
    BY <2>4, CallTypes, PodCallsWane
  <2>6. Test' = Test /\ Waned /\ Pod'[p] = out.obj /\ \A q \in Pods \ {p} : Pod'[q] = Pod[q]
    BY <2>2, <2>3, <2>5, Stores, PodWanes
  <2>7. /\ job'.step = job.step /\ job'.test = job.test /\ job'.pods = job.pods
        /\ job'.todo = job.todo \ {p}
        /\ job'.err <=> job.err \/ out.res = "Error" \/ (out.res = "NotFound" /\ job.step # "reduce")
    BY <1>2, <2>2, <2>3 DEF Jobs
  <2>8. OwnPods'
    BY <2>3, <2>6, <2>7, Fewer DEF OwnPods, Current
  <2>9. OwnTest'
    BY <2>3, <2>6, <2>7 DEF Current, OwnTest
  <2>10. HeldPods'
    <3>1. SUFFICES ASSUME job.step = "cleanUp", NEW q \in Listed(Pod'), Fin \in Pod'[q].fins
                   PROVE  Fin \in job.pods[q].fins /\ (q \in job.todo \ {p} \/ job'.err)
      BY <2>7 DEF HeldPods
    <3>2. q \in Listed(Pod) /\ Fin \in Pod[q].fins
      BY <2>6, <3>1, Fewer
    <3>3. Fin \in job.pods[q].fins /\ (q \in job.todo \/ job.err)
      BY <3>1, <3>2 DEF Current, HeldPods
    <3>4. CASE q # p
      BY <2>7, <3>3, <3>4
    <3>5. CASE q = p
      <4>1. out \in cleanUp(job.pods[p], Pod[p], Fin, "Pod") /\ Exists(out.obj) /\ Fin \in out.obj.fins
        BY <2>6, <3>1, <3>5 DEF Answers, Listed
      <4>2. out.res \in {"Error", "NotFound"}
        BY <2>4, <3>3, <3>5, <4>1, CleanUpReleases
      <4> QED
        BY <2>7, <3>1, <3>3, <4>2
    <3> QED
      BY <3>4, <3>5
  <2> QED
    BY <2>3, <2>6, <2>8, <2>9, <2>10, TestStays, FewerPods DEF Current
<1>8. CASE LoopFailed \/ RetentionDone
  <2>1. Test' = Test /\ Pod' = Pod /\ UNCHANGED counted /\ job' = Idle
    BY <1>8, Stores DEF LoopFailed, RetentionDone, Return
  <2> QED
    BY <2>1, TestStays, PodsStay, FewerPods, Rests DEF Current
<1>9. CASE ChoosePod
  <2>1. Test' = Test /\ Pod' = Pod /\ UNCHANGED counted /\ Working /\ job.step = "running"
    BY <1>9, Stores DEF ChoosePod, LoopDone, Working
  <2>2. \A p, q \in Live(job.pods) : p = q
    BY <2>1 DEF Current, OwnPods
  <2>3. /\ job'.pods = job.pods /\ job'.test = job.test
        /\ \/ job'.step = "create" /\ Usable(job.pods) = {}
           \/ job'.step = "status"
    <3>1. CASE Usable(job.pods) = {} /\ job' = [job EXCEPT !.step = "create"]
      BY <1>2, <2>1, <3>1 DEF Jobs
    <3>2. CASE \E p \in Choices(job.pods) :
                 LET extra == Live(job.pods) \ {p}
                 IN  job' = [job EXCEPT
                       !.step = IF extra = {} THEN "status" ELSE "reduce",
                       !.todo = extra,
                       !.seen = job.pods[p].phase]
      <4>1. PICK p \in Choices(job.pods) :
                 LET extra == Live(job.pods) \ {p}
                 IN  job' = [job EXCEPT
                       !.step = IF extra = {} THEN "status" ELSE "reduce",
                       !.todo = extra,
                       !.seen = job.pods[p].phase]
        BY <3>2
      <4>2. Live(job.pods) \ {p} = {}
        BY <2>2, <4>1 DEF Choices
      <4> QED
        BY <1>2, <2>1, <4>1, <4>2 DEF Jobs
    <3> QED
      BY <1>9, <3>1, <3>2 DEF ChoosePod
  <2>4. job'.step = "create" => Live(job.pods) = {}
    BY <2>3 DEF Usable, Live
  <2>5. OwnPods' /\ OwnTest' /\ HeldPods'
    BY <2>1, <2>3, <2>4 DEF Current, OwnPods, OwnTest, HeldPods
  <2> QED
    BY <2>1, <2>5, TestStays, PodsStay, FewerPods DEF Current
<1>10. CASE CreatePod
  <2>1. PICK p \in Pods :
          /\ Pod[p].phase = "Unborn"
          /\ PublishPod(p, NewPod(job.test.uid))
          /\ job' = [job EXCEPT !.step = "status", !.seen = "Pending"] \/ job' = Idle
    BY <1>10 DEF CreatePod, Return
  <2>2. Working /\ job.step = "create" /\ Test' = Test /\ UNCHANGED counted
    BY <1>10, Stores DEF CreatePod, Working
  <2>3. NewPod(job.test.uid) \in PodRecs
    BY <1>2, <2>2, ConstantsAssumption DEF NewPod, Tests, PodRecs, PodPhases
  <2>4. Pod' = [Pod EXCEPT ![p] = NewPod(job.test.uid)]
    BY <2>1, <2>3, Stores
  <2>5. Live(Pod) = {}
    BY <2>2 DEF Current, OwnPods
  <2>6. Live(Pod') \subseteq {p}
    BY <1>1, <2>4, <2>5 DEF Live, Listed, PodSets
  <2>7. SinglePod'
    BY <2>6 DEF SinglePod
  <2>8. Exists(Test) /\ Fin \in Test.fins
    BY <2>2 DEF Current, OwnTest
  <2>9. Unneeded'
    BY <2>2, <2>8 DEF Unneeded
  <2>10. CASE job' = [job EXCEPT !.step = "status", !.seen = "Pending"]
    <3>1. job'.step = "status" /\ job'.pods = job.pods /\ job'.test = job.test
      BY <1>2, <2>2, <2>10 DEF Jobs
    <3>2. OwnTest' /\ OwnPods' /\ HeldPods'
      BY <2>2, <3>1 DEF Current, OwnTest, OwnPods, HeldPods
    <3> QED
      BY <2>2, <2>7, <2>9, <3>2, TestStays DEF Current
  <2>11. CASE job' = Idle
    BY <2>2, <2>7, <2>9, <2>11, TestStays, Rests DEF Current
  <2> QED
    BY <2>1, <2>10, <2>11
<1>11. CASE CreatePodFails
  <2>1. Test' = Test /\ Pod' = Pod /\ UNCHANGED counted /\ job' = Idle
    BY <1>11, Stores DEF CreatePodFails, Return
  <2> QED
    BY <2>1, TestStays, PodsStay, FewerPods, Rests DEF Current
<1>12. CASE UpdateStatus
  <2>1. Working /\ job.step \in {"status", "reduce"} /\ Pod' = Pod /\ job' = Idle
    BY <1>12, Stores DEF UpdateStatus, LoopDone, Working, Return
  <2>2. Exists(Test) /\ Fin \in Test.fins /\ ~IsFinal(Test.phase)
    BY <2>1 DEF Current, OwnTest
  <2> DEFINE phase == TestPhaseFor(job.seen)
  <2>3. phase \in TestPhases
    BY <1>2, <2>1 DEF TestPhaseFor, Jobs, PodPhases, TestPhases
  <2>4. CASE UNCHANGED <<testFeed, counted>>
    <3>1. Test' = Test
      BY <2>4, Stores
    <3> QED
      BY <2>1, <2>4, <3>1, TestStays, PodsStay, FewerPods, Rests DEF Current
  <2>5. CASE \E out \in Answers(Patch(Test, WithPhase(Test, phase))) :
               /\ testFeed' = Publish(testFeed, out.obj)
               /\ counted' = IF out.res = "OK" /\ IsFinal(phase) THEN counted + 1 ELSE counted
    <3>1. PICK out \in Answers(Patch(Test, WithPhase(Test, phase))) :
               /\ testFeed' = Publish(testFeed, out.obj)
               /\ counted' = IF out.res = "OK" /\ IsFinal(phase) THEN counted + 1 ELSE counted
      BY <2>5
    <3>2. Test' = out.obj
      BY <2>3, <3>1, CallTypes, Stores
    <3>3. /\ out.obj \in {Test, WithPhase(Test, phase)}
          /\ out.res = "OK" => out.obj = WithPhase(Test, phase)
      BY <2>3, TestCalls
    <3> HIDE DEF phase
    <3>4. /\ Test'.uid = Test.uid /\ Test'.del = Test.del /\ Test'.fins = Test.fins /\ Exists(Test')
          /\ out.res = "OK" => Test'.phase = phase
      BY <1>1, <2>2, <2>3, <3>2, <3>3 DEF WithPhase, Tests, Exists, TestPhases
    <3>5. DeletedHeld' /\ Counting'
      BY <1>1, <2>2, <3>1, <3>4 DEF Current, DeletedHeld, Counting
    <3>6. SinglePod' /\ Unneeded'
      BY <2>1, <2>2, <3>4, PodsStay, FewerPods
    <3> QED
      BY <2>1, <3>5, <3>6, Rests DEF Current
  <2> QED
    BY <1>12, <2>4, <2>5 DEF UpdateStatus
<1>13. CASE ApplyRetention
  <2>1. Test' = Test /\ Pod' = Pod /\ UNCHANGED counted /\ Working /\ job.step = "complete"
    BY <1>13, Stores DEF ApplyRetention, LoopDone, Working
  <2>2. CASE job' = Idle
    BY <2>1, <2>2, TestStays, PodsStay, FewerPods, Rests DEF Current
  <2>3. CASE Drops(job.test) /\ job' = [job EXCEPT !.step = "retain", !.todo = Listed(job.pods)]
    <3>1. job'.pods = job.pods /\ job'.test = job.test /\ job'.step = "retain"
      BY <1>2, <2>1, <2>3 DEF Jobs
    <3>2. OwnTest' /\ OwnPods' /\ HeldPods'
      BY <2>1, <2>3, <3>1 DEF Current, OwnTest, OwnPods, HeldPods, Drops
    <3> QED
      BY <2>1, <3>2, TestStays, PodsStay, FewerPods DEF Current
  <2> QED
    BY <1>13, <2>2, <2>3 DEF ApplyRetention, Return
<1>14. CASE ReleaseTest
  <2>1. /\ Working /\ job.step = "cleanUp" /\ job.todo = {} /\ ~job.err
        /\ Pod' = Pod /\ job' = Idle /\ UNCHANGED counted
    BY <1>14, Stores DEF ReleaseTest, LoopDone, Working, Return
  <2>2. Exists(Test) /\ Test.del /\ Fin \in Test.fins
    BY <2>1 DEF Current, OwnTest
  <2>3. Test' \in {Test, Reaped(WithFins(Test, {}))}
    <3>1. CASE UNCHANGED testFeed
      BY <3>1, Stores
    <3>2. CASE \E out \in Answers(removeFinalizer(job.test, Test, Fin, "Resource")) :
                 testFeed' = Publish(testFeed, out.obj)
      BY <1>2, <2>1, <3>2, CallTypes, Stores, TestCalls
    <3> QED
      BY <1>14, <3>1, <3>2 DEF ReleaseTest
  <2>4. Test' = Test \/ (~Exists(Test') /\ Test'.uid = Test.uid)
    BY <1>1, <2>2, <2>3 DEF Reaped, WithFins, Exists, Tests
  <2>5. DeletedHeld' /\ Counting'
    BY <2>1, <2>4 DEF Current, DeletedHeld, Counting
  <2>6. SinglePod' /\ Unneeded'
    <3>1. \A p \in Listed(Pod) : Fin \notin Pod[p].fins
      BY <2>1 DEF Current, HeldPods
    <3> QED
      BY <2>1, <3>1, PodsStay, FewerPods DEF Unneeded
  <2> QED
    BY <2>1, <2>5, <2>6, Rests DEF Current
<1> QED
  BY <1>3, <1>4, <1>5, <1>6, <1>7, <1>8, <1>9, <1>10, <1>11, <1>12, <1>13, <1>14 DEF Controller

\* The watches leave the stored objects alone, and a restart forgets the reconcile.
LEMMA WatchCurrent ==
  ASSUME TypeOK, Current, TestEvent \/ PodEvent \/ Restart
  PROVE  Current'
<1>1. Test' = Test /\ Pod' = Pod
  <2>1. CASE TestEvent
    BY <2>1, EventStates, Stores DEF TestEvent, TypeOK, Test
  <2>2. CASE PodEvent
    BY <2>2, EventStates, Stores DEF PodEvent, TypeOK, Pod
  <2>3. CASE Restart
    BY <2>3, TypeFacts, RestartStates DEF Restart, Pod, Test
  <2> QED
    BY <2>1, <2>2, <2>3
<1>2. SinglePod' /\ Unneeded' /\ DeletedHeld'
  BY <1>1, PodsStay, FewerPods DEF Current, DeletedHeld
<1>3. CASE TestEvent \/ PodEvent
  <2>1. UNCHANGED <<job, counted>>
    BY <1>3 DEF TestEvent, PodEvent
  <2>2. OwnTest' /\ OwnPods' /\ HeldPods' /\ Counting'
    BY <1>1, <2>1, PodsStay, FewerPods DEF Current, OwnTest, Working, Counting
  <2> QED
    BY <1>2, <2>2 DEF Current
<1>4. CASE Restart
  <2>1. job' = Idle /\ counted' = 0
    BY <1>4 DEF Restart
  <2>2. Test.uid \in Nat \ {0}
    BY TypeFacts DEF Tests
  <2>3. Counting'
    BY <1>1, <2>1, <2>2 DEF Counting
  <2> QED
    BY <1>2, <2>1, <2>3, Rests DEF Current
<1> QED
  BY <1>3, <1>4

\* Users, nodes and the garbage collector.
LEMMA ClusterCurrent ==
  ASSUME TypeOK, Current, Cluster
  PROVE  Current'
<1>1. Test \in Tests /\ Pod \in PodSets /\ counted \in Nat /\ Test.uid \in Nat
  BY TypeFacts DEF TypeOK, Tests
<1>2. UNCHANGED <<job, counted>>
  BY DEF Cluster, PodStarts, PodEnds, PodRemoved, PodEvicted, PodOrphaned, TestDeleted, TestCreatedAgain, Others
<1>3. ASSUME NEW p \in Pods, NEW pod \in PodRecs, PublishPod(p, pod), Wanes(Pod[p], pod), UNCHANGED testFeed
      PROVE  Current'
  <2>1. Test' = Test /\ Waned
    BY <1>3, Stores, PodWanes
  <2>2. OwnTest'
    BY <1>2, <2>1 DEF Current, OwnTest, Working
  <2> QED
    BY <1>2, <2>1, <2>2, TestStays, FewerPods DEF Current
<1>4. \A p \in Pods :
        /\ Pod[p] \in PodRecs
        /\ Deleted(Pod[p]) \in PodRecs /\ Wanes(Pod[p], Deleted(Pod[p]))
        /\ \A phase \in PodPhases \cup {"Gone"} :
             /\ [Pod[p] EXCEPT !.phase = phase] \in PodRecs
             /\ Exists(Pod[p]) => Wanes(Pod[p], [Pod[p] EXCEPT !.phase = phase])
  <2>1. \A p \in Pods : Pod[p] \in PodRecs
    BY <1>1 DEF PodSets
  <2>2. \A pod \in PodRecs :
          /\ Deleted(pod) \in PodRecs /\ Wanes(pod, Deleted(pod))
          /\ \A phase \in PodPhases \cup {"Gone"} :
               /\ [pod EXCEPT !.phase = phase] \in PodRecs
               /\ Exists(pod) => Wanes(pod, [pod EXCEPT !.phase = phase])
    BY DEF PodRecs, Wanes, Deleted, Exists
  <2> QED
    BY <2>1, <2>2
<1>5. CASE \E p \in Pods : PodStarts(p)
  BY <1>3, <1>4, <1>5 DEF PodStarts, PodPhases, Exists
<1>6. CASE \E p \in Pods : PodEnds(p, "Succeeded") \/ PodEnds(p, "Failed")
  BY <1>3, <1>4, <1>6 DEF PodEnds, PodPhases, Exists
<1>7. CASE \E p \in Pods : PodRemoved(p)
  BY <1>3, <1>4, <1>7 DEF PodRemoved
<1>8. CASE \E p \in Pods : PodEvicted(p) \/ PodOrphaned(p)
  BY <1>3, <1>4, <1>8 DEF PodEvicted, PodOrphaned
<1>9. CASE TestDeleted
  <2>1. Test' = Reaped(Deleted(Test)) /\ Pod' = Pod /\ Exists(Test)
    BY <1>9, UserTypes, Stores DEF TestDeleted
  <2>2. /\ Test'.uid = Test.uid /\ Test'.policy = Test.policy /\ Test'.fins = Test.fins /\ Test'.del
        /\ Test'.phase = IF Test.fins = {} THEN "Gone" ELSE Test.phase
    BY <1>1, <2>1 DEF Reaped, Deleted, Tests, Exists
  <2>3. Test.fins = {} <=> Fin \notin Test.fins
    BY <1>1 DEF Tests
  <2>4. OwnTest' /\ DeletedHeld' /\ Counting'
    BY <1>2, <2>1, <2>2, <2>3 DEF Current, OwnTest, Working, DeletedHeld, Counting, Exists, Drops
  <2>5. ~Exists(Test') \/ Fin \notin Test'.fins => ~Exists(Test) \/ Fin \notin Test.fins
    BY <2>1, <2>2, <2>3 DEF Exists
  <2> QED
    BY <1>2, <2>1, <2>4, <2>5, PodsStay, FewerPods DEF Current
<1>10. CASE TestCreatedAgain
  <2>1. Test' = NewTest(Test.uid + 1, Test.policy) /\ Pod' = Pod /\ ~Exists(Test)
    BY <1>10, UserTypes, Stores DEF TestCreatedAgain
  <2>2. Test'.uid = Test.uid + 1 /\ ~Test'.del
    BY <2>1 DEF NewTest
  <2>3. DeletedHeld' /\ Counting'
    BY <1>1, <1>2, <2>2 DEF Current, DeletedHeld, Counting
  <2>4. OwnTest'
    BY <1>2, <2>1 DEF Current, OwnTest, Working
  <2> QED
    BY <1>2, <2>1, <2>3, <2>4, PodsStay, FewerPods DEF Current
<1> QED
  BY <1>5, <1>6, <1>7, <1>8, <1>9, <1>10 DEF Cluster

\* A step that changes nothing.
LEMMA StutterCurrent == Current /\ UNCHANGED vars => Current'
<1> SUFFICES ASSUME Current, UNCHANGED vars PROVE Current'
  OBVIOUS
<1>1. Test' = Test /\ Pod' = Pod /\ UNCHANGED <<job, counted>>
  BY DEF vars, Test, Pod
<1>2. OwnTest'
  BY <1>1 DEF Current, OwnTest, Working
<1> QED
  BY <1>1, <1>2, TestStays, PodsStay, FewerPods DEF Current

\* With current caches a reconcile never works for a Test that is gone,
\* replaced or decided behind its back.
THEOREM CurrentInvariant ==
  ASSUME MaxLag = 0
  PROVE  Spec => []Current
<1>1. Current /\ TypeOK /\ Evidence /\ [Next]_vars => Current'
  BY ControllerCurrent, WatchCurrent, ClusterCurrent, StutterCurrent DEF Next
<1> QED
  BY <1>1, InitCurrent, TypeCorrect, EvidenceInvariant, PTL DEF Spec

-----------------------------------------------------------------------------
\* The metrics count no Test twice, even if replies were lost and reconciles
\* repeated: only a verdict that was stored for sure is counted, and isRunning
\* is not entered again for a decided Test.
THEOREM AlwaysCountedOnce ==
  ASSUME MaxLag = 0
  PROVE  Spec => []CountedOnce
<1>1. Current => CountedOnce
  BY DEF Current, Counting, CountedOnce
<1> QED
  BY <1>1, CurrentInvariant, PTL

\* A Test never has two Pods that nobody deleted, whatever replies were lost and
\* however often the manager restarted: CreatePod is reached only from a current
\* listing with none. A deleted Pod may still run beside its successor.
THEOREM AlwaysSinglePod ==
  ASSUME MaxLag = 0
  PROVE  Spec => []SinglePod
<1>1. Current => SinglePod
  BY DEF Current
<1> QED
  BY <1>1, CurrentInvariant, PTL

\* A Test disappears only when none of its Pods is held by the finalizer that
\* nobody would remove any more.
THEOREM NeverOrphanPods ==
  ASSUME MaxLag = 0
  PROVE  Spec => []NoOrphanPods
<1>1. Current => NoOrphanPods
  BY DEF Current, Unneeded, NoOrphanPods
<1> QED
  BY <1>1, CurrentInvariant, PTL

\* The controller deletes a Pod of a Test that is not deleted only when the
\* Test is decided and its retention policy says so.
LEMMA EvidenceStep ==
  ASSUME TypeOK, Evidence, Current, [Next]_vars, NEW p \in Live(Pod) \ Live(Pod'),
         evictions' = evictions, Pod[p].owner = Test.uid, Exists(Test), ~Test.del
  PROVE  IsFinal(Test.phase) /\ Drops(Test)
<1>1. p \in Pods /\ Exists(Pod[p]) /\ ~Pod[p].del /\ Pod \in PodSets
  BY TypeFacts DEF Live, Listed
<1>2. Pod[p] \in PodRecs
  BY <1>1 DEF PodSets
<1>3. ~Exists(Pod'[p]) \/ Pod'[p].del
  BY <1>1 DEF Live, Listed
<1>4. Pod'[p] # Pod[p] /\ podFeed' # podFeed
  BY <1>1, <1>3 DEF Pod
<1>5. ASSUME NEW q \in Pods, NEW pod \in PodRecs, PublishPod(q, pod)
      PROVE  q = p /\ Pod'[p] = pod
  BY <1>1, <1>4, <1>5, Stores DEF PodSets
<1>6. \A phase \in PodPhases \cup {"Gone"} :
        /\ [Pod[p] EXCEPT !.phase = phase] \in PodRecs
        /\ phase \in PodPhases => Exists([Pod[p] EXCEPT !.phase = phase])
        /\ [Pod[p] EXCEPT !.phase = phase].del = Pod[p].del
  BY <1>2 DEF PodRecs, Exists, PodPhases
<1>7. \A q \in Pods :
        /\ Deleted(Pod[q]) \in PodRecs
        /\ \A phase \in PodPhases \cup {"Gone"} : [Pod[q] EXCEPT !.phase = phase] \in PodRecs
  <2>1. \A pod \in PodRecs : \A phase \in PodPhases \cup {"Gone"} : [pod EXCEPT !.phase = phase] \in PodRecs
    BY DEF PodRecs
  <2> QED
    BY <1>1, <2>1, ObjectTypes DEF PodSets
<1>8. CASE Controller
  <2>1. CASE \E q \in Pods : ReleasePod(q)
    <3>1. PICK q \in Pods : ReleasePod(q)
      BY <2>1
    <3>2. PICK out \in Answers(removeFinalizer(job.pods[q], Pod[q], Fin, "Pod")) : PublishPod(q, out.obj)
      BY <3>1 DEF ReleasePod
    <3>3. Working /\ job.step \in {"running", "complete"} /\ q \in job.todo
      BY <3>1 DEF ReleasePod, Working
    <3>4. job.pods[q] \in PodRecs
      BY <3>3, TypeFacts DEF Jobs, PodSets
    <3>5. q = p
      BY <1>5, <3>2, <3>4, CallTypes
    <3>6. Pod[q].del
      BY <3>3 DEF Evidence, JobAgrees, Agrees
    <3> QED
      BY <1>1, <3>5, <3>6
  <2>2. CASE \E q \in Pods : CleanUpPod(q)
    <3>1. Working /\ job.step \in {"reduce", "retain", "cleanUp"}
      BY <2>2 DEF CleanUpPod, Working
    <3>2. job.step = "retain"
      BY <3>1 DEF Current, OwnPods, OwnTest
    <3> QED
      BY <3>1, <3>2 DEF Current, OwnTest
  <2>3. CASE CreatePod
    <3>1. PICK q \in Pods : Pod[q].phase = "Unborn" /\ PublishPod(q, NewPod(job.test.uid))
      BY <2>3 DEF CreatePod
    <3>2. NewPod(job.test.uid) \in PodRecs
      BY <2>3, TypeFacts, ConstantsAssumption DEF CreatePod, Working, NewPod, Jobs, Tests, PodRecs, PodPhases
    <3>3. q = p
      BY <1>5, <3>1, <3>2
    <3> QED
      BY <1>1, <3>1, <3>3 DEF Exists
  <2> QED
    BY <1>4, <1>8, <2>1, <2>2, <2>3
      DEF Controller, Reconcile, EnsureFinalizer, SetPending, LoopFailed, ChoosePod, CreatePodFails,
          UpdateStatus, ApplyRetention, RetentionDone, ReleaseTest
<1>9. CASE TestEvent \/ PodEvent \/ Restart
  <2>1. Pod' = Pod
    <3>1. CASE TestEvent
      BY <3>1, Stores DEF TestEvent
    <3>2. CASE PodEvent
      BY <3>2, EventStates DEF PodEvent, TypeOK, Pod
    <3>3. CASE Restart
      BY <3>3, TypeFacts, RestartStates DEF Restart, Pod
    <3> QED
      BY <1>9, <3>1, <3>2, <3>3
  <2> QED
    BY <1>4, <2>1
<1>10. CASE Cluster
  <2>1. CASE \E q \in Pods : PodStarts(q) \/ PodEnds(q, "Succeeded") \/ PodEnds(q, "Failed")
    <3>1. PICK q \in Pods, phase \in PodPhases : PublishPod(q, [Pod[q] EXCEPT !.phase = phase])
      BY <2>1 DEF PodStarts, PodEnds, PodPhases
    <3> QED
      BY <1>1, <1>3, <1>5, <1>6, <1>7, <3>1
  <2>2. CASE \E q \in Pods : PodRemoved(q)
    BY <1>1, <1>5, <1>7, <2>2 DEF PodRemoved
  <2>3. CASE \E q \in Pods : PodEvicted(q)
    BY <2>3 DEF PodEvicted, TypeOK
  <2>4. CASE \E q \in Pods : PodOrphaned(q)
    BY <1>5, <1>7, <2>4 DEF PodOrphaned
  <2> QED
    BY <1>4, <1>10, <2>1, <2>2, <2>3, <2>4 DEF Cluster, TestDeleted, TestCreatedAgain
<1>11. CASE UNCHANGED vars
  BY <1>4, <1>11 DEF vars
<1> QED
  BY <1>8, <1>9, <1>10, <1>11 DEF Next

\* The Pods of an undecided Test, and the Pods a policy retains, are never
\* deleted by the controller: they are the evidence a user looks at.
THEOREM EvidenceAlwaysKept ==
  ASSUME MaxLag = 0
  PROVE  Spec => EvidenceKept
<1> DEFINE Kept ==
      \A p \in Live(Pod) \ Live(Pod') :
        evictions' = evictions /\ Pod[p].owner = Test.uid /\ Exists(Test) /\ ~Test.del
          => IsFinal(Test.phase) /\ Drops(Test)
<1>1. TypeOK /\ Evidence /\ Current /\ [Next]_vars => Kept
  BY EvidenceStep
<1>2. TypeOK /\ Evidence /\ Current /\ [Next]_vars => [Kept]_vars
  BY <1>1
<1>3. Spec => [][Kept]_vars
  BY <1>2, CurrentInvariant, TypeCorrect, EvidenceInvariant, PTL DEF Spec
<1> QED
  BY <1>3 DEF EvidenceKept

-----------------------------------------------------------------------------
(***************************************************************************)
(* The refinement: what a reader of the Test's status sees is a behaviour  *)
(* of module Lifecycle.                                                    *)
(***************************************************************************)
Seen(test) == IF ~Exists(test) THEN "Gone" ELSE IF IsFinal(test.phase) THEN test.phase ELSE "Undecided"

\* How one step may change the stored Test.
LifeStep ==
  \/ Seen(Test') = Seen(Test) /\ Test'.del = Test.del
  \/ Seen(Test) = "Undecided" /\ Seen(Test') \in {"Passed", "Failed"} /\ Test'.del = Test.del
  \/ Seen(Test) # "Gone" /\ ~Test.del /\ Test'.del /\ Seen(Test') \in {Seen(Test), "Gone"}
  \/ Seen(Test) # "Gone" /\ Test.del /\ Test'.del /\ Seen(Test') = "Gone"
  \/ Seen(Test) = "Gone" /\ Seen(Test') = "Undecided" /\ ~Test'.del

\* Every step is one of the life of a Test, or leaves it alone.
LEMMA NextLife ==
  ASSUME TypeOK, Current, [Next]_vars
  PROVE  LifeStep
<1>1. Test \in Tests
  BY TypeFacts
<1>2. ASSUME Test' = Test PROVE LifeStep
  BY <1>2 DEF LifeStep
<1>3. CASE EnsureFinalizer
  <2>1. PICK out \in Answers(addFinalizer(job.test, Test, Fin, "Resource")) : testFeed' = Publish(testFeed, out.obj)
    BY <1>3 DEF EnsureFinalizer
  <2>2. job.test \in Tests
    BY <1>3, TypeFacts DEF EnsureFinalizer, Working, Jobs
  <2>3. Test' \in {Test, WithFins(Test, {Fin})}
    BY <2>1, <2>2, CallTypes, Stores, TestCalls
  <2> QED
    BY <1>1, <2>3 DEF LifeStep, Seen, WithFins, Tests, Exists
<1>4. CASE SetPending
  <2>1. PICK out \in Answers(Patch(Test, WithPhase(Test, "Pending"))) : testFeed' = Publish(testFeed, out.obj)
    BY <1>4 DEF SetPending
  <2>2. Exists(Test) /\ ~IsFinal(Test.phase)
    BY <1>4 DEF SetPending, Working, Current, OwnTest
  <2>3. Test' \in {Test, WithPhase(Test, "Pending")}
    BY <2>1, CallTypes, Stores, TestCalls DEF TestPhases
  <2> QED
    BY <1>1, <2>2, <2>3 DEF LifeStep, Seen, WithPhase, Tests, Exists, IsFinal
<1>5. CASE UpdateStatus
  <2> DEFINE phase == TestPhaseFor(job.seen)
  <2>1. Working /\ job.step \in {"status", "reduce"} /\ job \in Jobs
    BY <1>5, TypeFacts DEF UpdateStatus, LoopDone, Working
  <2>2. Exists(Test) /\ ~IsFinal(Test.phase)
    BY <2>1 DEF Current, OwnTest
  <2>3. phase \in {"Starting", "Running", "Passed", "Failed"}
    BY <2>1 DEF TestPhaseFor, Jobs, PodPhases
  <2>4. phase \in TestPhases
    BY <2>3 DEF TestPhases
  <2>5. Test' \in {Test, WithPhase(Test, phase)}
    <3>1. CASE UNCHANGED testFeed
      BY <3>1, Stores
    <3>2. CASE \E out \in Answers(Patch(Test, WithPhase(Test, phase))) : testFeed' = Publish(testFeed, out.obj)
      BY <2>4, <3>2, CallTypes, Stores, TestCalls
    <3> QED
      BY <1>5, <3>1, <3>2 DEF UpdateStatus
  <2> HIDE DEF phase
  <2>6. Seen(Test) = "Undecided"
    BY <2>2 DEF Seen
  <2>7. ASSUME Test' = WithPhase(Test, phase)
        PROVE  Test'.del = Test.del /\ Test'.phase = phase /\ Exists(Test')
    BY <1>1, <2>2, <2>3, <2>7 DEF WithPhase, Tests, Exists
  <2>8. ASSUME Test' = WithPhase(Test, phase)
        PROVE  Seen(Test') \in {"Undecided", "Passed", "Failed"}
    BY <2>3, <2>7, <2>8 DEF Seen, IsFinal
  <2> QED
    BY <1>2, <2>5, <2>6, <2>7, <2>8 DEF LifeStep
<1>6. CASE ReleaseTest
  <2>1. Working /\ job.step = "cleanUp" /\ job \in Jobs
    BY <1>6, TypeFacts DEF ReleaseTest, LoopDone, Working
  <2>2. Exists(Test) /\ Test.del
    BY <2>1 DEF Current, OwnTest
  <2>3. Test' \in {Test, Reaped(WithFins(Test, {}))}
    <3>1. CASE UNCHANGED testFeed
      BY <3>1, Stores
    <3>2. CASE \E out \in Answers(removeFinalizer(job.test, Test, Fin, "Resource")) :
                 testFeed' = Publish(testFeed, out.obj)
      BY <2>1, <3>2, CallTypes, Stores, TestCalls DEF Jobs
    <3> QED
      BY <1>6, <3>1, <3>2 DEF ReleaseTest
  <2>4. Test' = Test \/ (~Exists(Test') /\ Test'.del)
    BY <1>1, <2>2, <2>3 DEF Reaped, WithFins, Exists, Tests
  <2>5. Seen(Test) # "Gone"
    BY <2>2 DEF Seen, IsFinal
  <2> QED
    BY <1>2, <2>2, <2>4, <2>5 DEF LifeStep, Seen
<1>7. CASE TestDeleted
  <2>1. Test' = Reaped(Deleted(Test)) /\ Exists(Test) /\ ~Test.del
    BY <1>7, UserTypes, Stores DEF TestDeleted
  <2>2. Test'.del /\ (~Exists(Test') \/ Test'.phase = Test.phase)
    BY <1>1, <2>1 DEF Reaped, Deleted, Tests, Exists
  <2>3. Seen(Test) # "Gone"
    BY <2>1 DEF Seen, IsFinal
  <2> QED
    BY <2>1, <2>2, <2>3 DEF LifeStep, Seen, Exists
<1>8. CASE TestCreatedAgain
  <2>1. Test' = NewTest(Test.uid + 1, Test.policy) /\ ~Exists(Test)
    BY <1>8, UserTypes, Stores DEF TestCreatedAgain
  <2>2. ~Test'.del /\ Exists(Test') /\ ~IsFinal(Test'.phase)
    BY <2>1 DEF NewTest, Exists, IsFinal
  <2> QED
    BY <2>1, <2>2 DEF LifeStep, Seen
<1>9. CASE TestEvent \/ Restart
  <2>1. CASE TestEvent
    BY <1>2, <2>1, EventStates DEF TestEvent, TypeOK, Test
  <2>2. CASE Restart
    BY <1>2, <2>2, TypeFacts, RestartStates DEF Restart, Test
  <2> QED
    BY <1>9, <2>1, <2>2
<1>10. CASE UNCHANGED testFeed
  BY <1>2, <1>10, Stores
<1> QED
  BY <1>3, <1>4, <1>5, <1>6, <1>7, <1>8, <1>9, <1>10
    DEF Next, vars, Controller, Reconcile, ReleasePod, CleanUpPod, LoopFailed, ChoosePod, CreatePod,
        CreatePodFails, ApplyRetention, RetentionDone, PodEvent, Cluster, PodStarts, PodEnds, PodRemoved,
        PodEvicted, PodOrphaned

\* The controller implements module Lifecycle: once a Test shows a verdict it
\* shows that one until it is gone, it disappears only after somebody deleted
\* it, and no late patch of a reconcile brings it back.
THEOREM LifeRefined ==
  ASSUME MaxLag = 0
  PROVE  Spec => LifeOfTest
<1>1. Init => Life!Init
  <2> SUFFICES ASSUME Init PROVE Life!Init
    OBVIOUS
  <2>1. PICK policy \in Policies : testFeed = <<NewTest(1, policy)>>
    BY DEF Init
  <2>2. Test = NewTest(1, policy)
    BY <2>1, RestartStates DEF Test
  <2>3. ~Test.del /\ Exists(Test) /\ ~IsFinal(Test.phase) /\ Test.del = FALSE
    BY <2>2 DEF NewTest, Exists, IsFinal
  <2> QED
    BY <2>3 DEF Life!Init
<1>2. ASSUME TypeOK, TypeOK', Current, [Next]_vars
      PROVE  [Life!Next]_(<<Seen(Test), Test.del>>)
  <2>1. LifeStep
    BY <1>2, NextLife
  <2>2. Test \in Tests /\ Test' \in Tests
    BY <1>2, FeedStates DEF TypeOK, Test
  <2>3. Test.del \in BOOLEAN /\ Test'.del \in BOOLEAN
    BY <2>2 DEF Tests
  <2> QED
    BY <2>1, <2>3 DEF LifeStep, Seen, Life!Next, Life!Decide, Life!Doom, Life!Remove, Life!Create, Life!Verdicts
<1>3. Spec => Life!Init /\ [][Life!Next]_(<<Seen(Test), Test.del>>)
  BY <1>1, <1>2, CurrentInvariant, TypeCorrect, PTL DEF Spec
<1> QED
  BY <1>3 DEF LifeOfTest, Life!Spec, Seen

-----------------------------------------------------------------------------
(***************************************************************************)
(* Convergence, with caches of any age.  The key is not queued and no      *)
(* event is under way only if nothing changed since the reconcile in       *)
(* progress read its copies, so they are what the server has; and one that *)
(* could not do what it should have done has an error to return.           *)
(***************************************************************************)
Calm == ~queued /\ Fresh(testFeed) /\ Fresh(podFeed)

Blank(test) == test.phase = ""

\* What a calm reconcile knows of its Test.
CalmTest ==
  /\ job.test = Test
  /\ job.step = "cleanUp" <=> Test.del
  /\ job.step \notin {"cleanUp", "finalizer"} => Fin \in Test.fins
  /\ job.step = "finalizer" => Fin \notin Test.fins
  /\ job.step = "pending" => Blank(Test)
  /\ job.step \in {"running", "create", "status", "reduce"} => ~IsFinal(Test.phase)
  /\ job.step \in {"complete", "retain"} => IsFinal(Test.phase)

\* What it knows of the Pods: those it still has to visit have not changed.
CalmPods ==
  /\ ~job.err => job.pods = Pod
  /\ job.step \in {"running", "complete"} => job.err \/ job.todo = ToRelease(Pod)
  /\ job.step \in {"status", "retain"} => ToRelease(Pod) = {}
  /\ job.step = "status" =>
       Completed(job.seen) \/ \E p \in Pods : Live(Pod) = {p} /\ job.seen = Pod[p].phase
  /\ job.step = "reduce" => job.err \/ (job.todo # {} /\ job.todo \subseteq Live(Pod))
  /\ job.step = "retain" => job.err \/ Live(Pod) \subseteq job.todo

Attentive == Converged /\ (Working /\ Calm => CalmTest /\ CalmPods)

\* A step that queues the key has nothing to show for.
LEMMA QueuedAttentive ==
  ASSUME queued' = TRUE
  PROVE  Attentive'
  BY DEF Attentive, Converged, Quiescent, Calm

\* Nor has one that leaves an event under way: calm after a write, it was calm
\* before, and nothing was changed.
LEMMA Undisturbed ==
  ASSUME TypeOK, Calm'
  PROVE  /\ \A test \in Tests : testFeed' = Publish(testFeed, test) => UNCHANGED testFeed /\ test = Test
         /\ \A p \in Pods, pod \in PodRecs : PublishPod(p, pod) => UNCHANGED podFeed /\ pod = Pod[p]
         /\ UNCHANGED <<testFeed, podFeed>> =>
              Test' = Test /\ Pod' = Pod /\ (queued' = queued => Calm)
<1>1. ASSUME NEW test \in Tests, testFeed' = Publish(testFeed, test)
      PROVE  UNCHANGED testFeed /\ test = Test
  <2>1. testFeed \in Seq(Tests) /\ testFeed # <<>> /\ Fresh(Publish(testFeed, test))
    BY <1>1 DEF TypeOK, Calm
  <2> QED
    BY <1>1, <2>1, PublishFresh DEF Test
<1>2. ASSUME NEW p \in Pods, NEW pod \in PodRecs, PublishPod(p, pod)
      PROVE  UNCHANGED podFeed /\ pod = Pod[p]
  <2> DEFINE pods == [Pod EXCEPT ![p] = pod]
  <2>1. pods \in PodSets /\ Pod \in PodSets
    BY TypeFacts
  <2>2. podFeed \in Seq(PodSets) /\ podFeed # <<>> /\ Fresh(Publish(podFeed, pods)) /\ podFeed' = Publish(podFeed, pods)
    BY <1>2 DEF TypeOK, Calm, PublishPod
  <2>3. pods = Pod /\ UNCHANGED podFeed
    <3> HIDE DEF pods
    <3> QED
      BY <2>1, <2>2, PublishFresh DEF Pod
  <2>4. pods[p] = pod
    BY <2>1 DEF PodSets
  <2> QED
    BY <2>3, <2>4
<1>3. ASSUME UNCHANGED <<testFeed, podFeed>>
      PROVE  Test' = Test /\ Pod' = Pod /\ (queued' = queued => Calm)
  BY <1>3 DEF Test, Pod, Calm
<1> QED
  BY <1>1, <1>2, <1>3

\* A reconcile handed the stored Test and the stored Pods.
LEMMA HandledCalmly ==
  ASSUME TypeOK, job' = Handle(Test, Pod), Test' = Test, Pod' = Pod, ~Test.del, Fin \in Test.fins
  PROVE  CalmTest' /\ CalmPods' /\ Working'
<1>1. /\ job'.test = Test /\ job'.pods = Pod /\ ~job'.err
      /\ job'.step \in {"pending", "complete", "running"}
      /\ job'.step = "pending" => Blank(Test)
      /\ job'.step = "complete" => IsFinal(Test.phase) /\ job'.todo = ToRelease(Pod)
      /\ job'.step = "running" => ~IsFinal(Test.phase) /\ job'.todo = ToRelease(Pod)
  <2>1. CASE Test.phase = ""
    <3>1. job' = At("pending", Test, Pod, {})
      BY <2>1 DEF Handle
    <3>2. Blank(Test)
      BY <2>1 DEF Blank
    <3> HIDE <2>1
    <3> QED
      BY <3>1, <3>2 DEF At
  <2>2. CASE Test.phase # ""
    <3>1. job' = At(IF IsFinal(Test.phase) THEN "complete" ELSE "running", Test, Pod, ToRelease(Pod))
      BY <2>2 DEF Handle
    <3> QED
      BY <3>1 DEF At
  <2> QED
    BY <2>1, <2>2
<1>2. CalmTest'
  BY <1>1 DEF CalmTest, Blank
<1>3. CalmPods' /\ Working'
  BY <1>1 DEF CalmPods, Working
<1> QED
  BY <1>2, <1>3

\* A call on a Pod that should have changed it and did not has failed.
LEMMA Ineffective ==
  ASSUME NEW pod \in PodRecs, Exists(pod)
  PROVE  /\ Fin \in pod.fins => \A out \in removeFinalizer(pod, pod, Fin, "Pod") : out.obj = pod => out.res = "Error"
         /\ ~pod.del => \A out \in cleanUp(pod, pod, Fin, "Pod") : out.obj = pod => out.res = "Error"
<1>1. pod.fins \ {Fin} = {}
  BY DEF PodRecs
<1>2. ASSUME Fin \in pod.fins, NEW out \in removeFinalizer(pod, pod, Fin, "Pod"), out.obj = pod
      PROVE  out.res = "Error"
  <2>1. out \in Patch(pod, WithFins(pod, {}))
    BY <1>1, <1>2 DEF removeFinalizer, PatchFins, Settled
  <2>2. WithFins(pod, {}) # pod
    BY <1>2 DEF WithFins, PodRecs
  <2> QED
    BY <1>2, <2>1, <2>2 DEF Patch
<1>3. ASSUME ~pod.del, NEW out \in cleanUp(pod, pod, Fin, "Pod"), out.obj = pod
      PROVE  out.res = "Error"
  <2> DEFINE deleted == Deleted(pod)
  <2>1. deleted # pod /\ WithFins(deleted, {}) # pod /\ deleted.fins = pod.fins
    BY <1>3 DEF Deleted, WithFins, PodRecs, Exists
  <2>2. \/ out \in {[obj |-> x, res |-> "Error"] : x \in {pod, deleted}}
        \/ out \in PatchFins(deleted, {}, "Pod")
        \/ out = [obj |-> deleted, res |-> "OK"]
    BY <1>1, <1>3 DEF cleanUp, Settled
  <2>3. PatchFins(deleted, {}, "Pod") = Patch(deleted, WithFins(deleted, {}))
    BY DEF PatchFins, Settled
  <2> HIDE DEF deleted
  <2> QED
    BY <1>3, <2>1, <2>2, <2>3 DEF Patch
<1> QED
  BY <1>2, <1>3

\* A reconcile ends calmly only with everything done.
LEMMA EndsConverged ==
  ASSUME Test' = Test, Pod' = Pod,
         Exists(Test) /\ ~Test.del =>
           /\ Fin \in Test.fins
           /\ ToRelease(Pod) = {}
           /\ ~IsFinal(Test.phase) =>
                \E p \in Pods : Live(Pod) = {p} /\ Test.phase = TestPhaseFor(Pod[p].phase)
           /\ Drops(Test) /\ IsFinal(Test.phase) => Live(Pod) = {}
  PROVE  Converged'
  BY DEF Converged

\* The reconcile's steps.
LEMMA ControllerAttentive ==
  ASSUME TypeOK, Attentive, Controller
  PROVE  Attentive'
<1> SUFFICES ASSUME Calm' PROVE Attentive'
  BY DEF Attentive, Converged, Quiescent, Calm
<1>a. ~queued'
  BY DEF Calm
<1>b. Test \in Tests /\ Pod \in PodSets /\ \A p \in Pods : Pod[p] \in PodRecs
  BY TypeFacts DEF PodSets
<1>c. Working => /\ job \in Jobs /\ job.test \in Tests /\ job.pods \in PodSets
                 /\ job.todo \in SUBSET Pods /\ job.err \in BOOLEAN
  BY TypeFacts DEF Jobs
<1>d. job' = Idle => ~Working'
  BY DEF Working, Idle
<1>e. CalmTest' /\ CalmPods' /\ Working' => Attentive'
  BY DEF Attentive, Converged, Quiescent
<1>f. Converged' /\ ~Working' => Attentive'
  BY DEF Attentive
<1>1. CASE Reconcile
  <2>1. UNCHANGED <<testFeed, podFeed>> /\ Fresh(testFeed) /\ Fresh(podFeed)
    BY <1>1 DEF Reconcile, Calm
  <2>2. Cached(testFeed) = Test /\ Cached(podFeed) = Pod
    BY <2>1, FreshStates DEF TypeOK, Test, Pod
  <2>3. Test' = Test /\ Pod' = Pod
    BY <2>1 DEF Test, Pod
  <2>4. CASE ~Exists(Test)
    <3>1. job' = Idle
      BY <1>1, <2>2, <2>4 DEF Reconcile
    <3> QED
      BY <1>d, <1>f, <2>3, <2>4, <3>1, EndsConverged
  <2>5. CASE Exists(Test) /\ Test.del
    <3>1. job' = At("cleanUp", Test, Pod, Listed(Pod))
      BY <1>1, <2>2, <2>5 DEF Reconcile
    <3>2. job'.step = "cleanUp" /\ job'.test = Test /\ job'.pods = Pod
      BY <3>1 DEF At
    <3> QED
      BY <1>e, <2>3, <2>5, <3>2 DEF CalmTest, CalmPods, Working
  <2>6. CASE Exists(Test) /\ ~Test.del /\ Fin \notin Test.fins
    <3>1. job' = At("finalizer", Test, Pod, {})
      BY <1>1, <2>2, <2>6 DEF Reconcile
    <3>2. job'.step = "finalizer" /\ job'.test = Test /\ job'.pods = Pod
      BY <3>1 DEF At
    <3> QED
      BY <1>e, <2>3, <2>6, <3>2 DEF CalmTest, CalmPods, Working
  <2>7. CASE Exists(Test) /\ ~Test.del /\ Fin \in Test.fins
    <3>1. job' = Handle(Test, Pod)
      BY <1>1, <2>2, <2>7 DEF Reconcile
    <3> QED
      BY <1>e, <2>3, <2>7, <3>1, HandledCalmly
  <2> QED
    BY <2>4, <2>5, <2>6, <2>7
<1>2. CASE ~Reconcile
  <2>1. Working
    BY <1>2 DEF Controller, EnsureFinalizer, SetPending, ReleasePod, CleanUpPod, LoopFailed, LoopDone,
                ChoosePod, CreatePod, CreatePodFails, UpdateStatus, ApplyRetention, RetentionDone,
                ReleaseTest, Working
  <2>2. ASSUME UNCHANGED <<testFeed, podFeed>>, ~queued
        PROVE  Test' = Test /\ Pod' = Pod /\ CalmTest /\ CalmPods
    BY <2>1, <2>2, Undisturbed DEF Attentive, Calm
  <2>3. CASE EnsureFinalizer
    <3>1. PICK out \in Answers(addFinalizer(job.test, Test, Fin, "Resource")) :
            /\ testFeed' = Publish(testFeed, out.obj)
            /\ IF out.res = "OK" THEN UNCHANGED queued ELSE Return(out.res # "NotFound")
      BY <2>3 DEF EnsureFinalizer
    <3>2. out.obj \in Tests /\ job.step = "finalizer" /\ UNCHANGED podFeed
      BY <1>c, <2>1, <2>3, CallTypes DEF EnsureFinalizer
    <3>3. UNCHANGED testFeed /\ out.obj = Test
      BY <3>1, <3>2, Undisturbed
    <3>4. ~queued
      BY <1>a, <3>1 DEF Return
    <3>5. Test' = Test /\ Pod' = Pod /\ Fin \notin Test.fins
      BY <2>2, <3>2, <3>3, <3>4 DEF CalmTest
    <3>6. out.res = "OK" => Exists(Test) /\ Test = WithFins(Test, {Fin})
      BY <1>c, <2>1, <3>1, <3>3, TestCalls
    <3>7. out.res # "OK"
      BY <1>b, <3>5, <3>6 DEF WithFins, Tests
    <3>8. out.res = "NotFound" /\ job' = Idle
      BY <1>a, <3>1, <3>7 DEF Return
    <3>9. ~Exists(Test)
      BY <3>8 DEF Answers, addFinalizer, PatchFins, Patch, Settled
    <3> QED
      BY <1>d, <1>f, <3>5, <3>8, <3>9, EndsConverged
  <2>4. CASE SetPending
    <3>1. PICK out \in Answers(Patch(Test, WithPhase(Test, "Pending"))) :
            /\ testFeed' = Publish(testFeed, out.obj)
            /\ IF out.res = "OK" THEN UNCHANGED queued ELSE Return(TRUE)
      BY <2>4 DEF SetPending
    <3>2. "Pending" \in TestPhases
      BY DEF TestPhases
    <3>3. out.obj \in Tests /\ job.step = "pending" /\ UNCHANGED podFeed
      BY <2>4, <3>2, CallTypes DEF SetPending
    <3>4. UNCHANGED testFeed /\ out.obj = Test
      BY <3>1, <3>3, Undisturbed
    <3>5. ~queued /\ out.res = "OK"
      BY <1>a, <3>1 DEF Return
    <3>6. Blank(Test)
      BY <2>2, <3>3, <3>4, <3>5 DEF CalmTest
    <3>7. Exists(Test) /\ Test = WithPhase(Test, "Pending")
      BY <3>2, <3>4, <3>5, TestCalls
    <3>8. Test.phase = "Pending"
      BY <1>b, <3>7 DEF WithPhase, Tests
    <3> QED
      BY <3>6, <3>8 DEF Blank
  <2>5. CASE \E p \in Pods : ReleasePod(p)
    <3>1. PICK p \in Pods : ReleasePod(p)
      BY <2>5
    <3>2. PICK out \in Answers(removeFinalizer(job.pods[p], Pod[p], Fin, "Pod")) :
            /\ PublishPod(p, out.obj)
            /\ job' = [job EXCEPT
                 !.todo = @ \ {p},
                 !.err = @ \/ out.res = "Error",
                 !.pods[p] = IF out.res = "OK" THEN out.obj ELSE Released(@)]
      BY <3>1 DEF ReleasePod
    <3>3. /\ job.step \in {"running", "complete"} /\ p \in job.todo /\ UNCHANGED <<testFeed, queued>>
          /\ job.pods[p] \in PodRecs
      BY <1>c, <2>1, <3>1 DEF ReleasePod, PodSets
    <3>4. out.obj \in PodRecs
      BY <3>3, CallTypes
    <3>5. UNCHANGED podFeed /\ out.obj = Pod[p]
      BY <3>2, <3>4, Undisturbed
    <3>6. Test' = Test /\ Pod' = Pod /\ CalmTest /\ CalmPods
      BY <1>a, <2>2, <3>3, <3>5
    <3>7. job.err \/ out.res = "Error"
      <4>1. SUFFICES ASSUME ~job.err PROVE out.res = "Error"
        OBVIOUS
      <4>2. job.pods = Pod /\ p \in ToRelease(Pod)
        BY <3>3, <3>6, <4>1 DEF CalmPods
      <4>3. Exists(Pod[p]) /\ Fin \in Pod[p].fins
        BY <4>2 DEF ToRelease, Listed
      <4>4. out \in removeFinalizer(Pod[p], Pod[p], Fin, "Pod")
        BY <4>2 DEF Answers
      <4> QED
        BY <1>b, <3>5, <4>3, <4>4, Ineffective
    <3>8. job'.step = job.step /\ job'.test = job.test /\ job'.err
      BY <1>c, <2>1, <3>2, <3>7 DEF Jobs
    <3>9. CalmTest' /\ CalmPods' /\ Working'
      BY <2>1, <3>3, <3>6, <3>8 DEF CalmTest, CalmPods, Working
    <3> QED
      BY <1>e, <3>9
  <2>6. CASE \E p \in Pods : CleanUpPod(p)
    <3>1. PICK p \in Pods : CleanUpPod(p)
      BY <2>6
    <3>2. PICK out \in Answers(cleanUp(job.pods[p], Pod[p], Fin, "Pod")) :
            /\ PublishPod(p, out.obj)
            /\ job' = [job EXCEPT
                 !.todo = @ \ {p},
                 !.err = @ \/ out.res = "Error" \/ (out.res = "NotFound" /\ job.step # "reduce")]
      BY <3>1 DEF CleanUpPod
    <3>3. /\ job.step \in {"reduce", "retain", "cleanUp"} /\ p \in job.todo /\ UNCHANGED <<testFeed, queued>>
          /\ job.pods[p] \in PodRecs
      BY <1>c, <2>1, <3>1 DEF CleanUpPod, PodSets
    <3>4. out.obj \in PodRecs
      BY <3>3, CallTypes
    <3>5. UNCHANGED podFeed /\ out.obj = Pod[p]
      BY <3>2, <3>4, Undisturbed
    <3>6. Test' = Test /\ Pod' = Pod /\ CalmTest /\ CalmPods
      BY <1>a, <2>2, <3>3, <3>5
    <3>7. job.err \/ out.res = "Error" \/ p \notin Live(Pod)
      <4>1. SUFFICES ASSUME ~job.err, p \in Live(Pod) PROVE out.res = "Error"
        OBVIOUS
      <4>2. job.pods = Pod /\ Exists(Pod[p]) /\ ~Pod[p].del
        BY <3>6, <4>1 DEF CalmPods, Live, Listed
      <4>3. out \in cleanUp(Pod[p], Pod[p], Fin, "Pod")
        BY <4>2 DEF Answers
      <4> QED
        BY <1>b, <3>5, <4>2, <4>3, Ineffective
    <3>8. /\ job'.step = job.step /\ job'.test = job.test /\ job'.pods = job.pods
          /\ job'.todo = job.todo \ {p}
          /\ job.err \/ out.res = "Error" => job'.err
          /\ ~job'.err => ~job.err
      BY <1>c, <2>1, <3>2 DEF Jobs
    <3>9. CalmTest' /\ Working'
      BY <2>1, <3>6, <3>8 DEF CalmTest, Working
    <3>10. CalmPods'
      BY <3>3, <3>6, <3>7, <3>8 DEF CalmPods
    <3> QED
      BY <1>e, <3>9, <3>10
  <2>7. CASE LoopFailed \/ CreatePodFails
    BY <1>a, <2>7 DEF LoopFailed, CreatePodFails, Return
  <2>8. CASE ChoosePod
    <3>1. /\ job.step = "running" /\ job.todo = {} /\ ~job.err
          /\ UNCHANGED <<testFeed, podFeed, queued>>
      BY <2>8 DEF ChoosePod, LoopDone
    <3>2. Test' = Test /\ Pod' = Pod /\ CalmTest /\ CalmPods
      BY <1>a, <2>2, <3>1
    <3>3. job.pods = Pod /\ ToRelease(Pod) = {}
      BY <3>1, <3>2 DEF CalmPods
    <3>4. CASE Usable(job.pods) = {} /\ job' = [job EXCEPT !.step = "create"]
      <4>1. /\ job'.step = "create" /\ job'.test = job.test /\ job'.pods = job.pods
        BY <1>c, <2>1, <3>4 DEF Jobs
      <4> QED
        BY <1>e, <3>1, <3>2, <3>3, <4>1 DEF CalmTest, CalmPods, Working
    <3>5. ASSUME NEW p \in Choices(Pod),
                 job' = [job EXCEPT
                   !.step = IF Live(Pod) \ {p} = {} THEN "status" ELSE "reduce",
                   !.todo = Live(Pod) \ {p},
                   !.seen = Pod[p].phase]
          PROVE  Attentive'
      <4>1. /\ job'.step = IF Live(Pod) \ {p} = {} THEN "status" ELSE "reduce"
            /\ job'.todo = Live(Pod) \ {p} /\ job'.seen = Pod[p].phase
            /\ job'.test = job.test /\ job'.pods = job.pods
        BY <1>c, <2>1, <3>5 DEF Jobs
      <4>2. p \in Pods /\ (p \in Live(Pod) \/ (Live(Pod) = {} /\ Completed(Pod[p].phase)))
        BY <3>5 DEF Choices, Usable, Live, Listed
      <4>3. CalmTest' /\ Working'
        BY <3>1, <3>2, <4>1 DEF CalmTest, Working
      <4>4. CASE Live(Pod) \ {p} = {}
        <5>1. Completed(Pod[p].phase) \/ Live(Pod) = {p}
          BY <4>2, <4>4
        <5>2. CalmPods'
          BY <3>2, <3>3, <4>1, <4>2, <4>4, <5>1 DEF CalmPods
        <5> QED
          BY <1>e, <4>3, <5>2
      <4>5. CASE Live(Pod) \ {p} # {}
        <5>1. CalmPods'
          BY <3>2, <3>3, <4>1, <4>5 DEF CalmPods
        <5> QED
          BY <1>e, <4>3, <5>1
      <4> QED
        BY <4>4, <4>5
    <3> QED
      BY <2>8, <3>3, <3>4, <3>5 DEF ChoosePod
  <2>9. CASE CreatePod
    <3>1. PICK p \in Pods : Pod[p].phase = "Unborn" /\ PublishPod(p, NewPod(job.test.uid))
      BY <2>9 DEF CreatePod
    <3>2. NewPod(job.test.uid) \in PodRecs
      BY <1>c, <2>1, ConstantsAssumption DEF NewPod, PodRecs, PodPhases, Tests
    <3>3. Pod[p] = NewPod(job.test.uid)
      BY <3>1, <3>2, Undisturbed
    <3> QED
      BY <3>1, <3>3 DEF NewPod
  <2>10. CASE UpdateStatus
    <3>1. /\ job.step \in {"status", "reduce"} /\ job.todo = {} /\ ~job.err /\ UNCHANGED podFeed
          /\ Return(FALSE) \/ \E res \in {"OK", "Error", "NotFound"} : Return(res # "OK")
      BY <2>10 DEF UpdateStatus, LoopDone, Answers, Patch
    <3>2. ~queued /\ job' = Idle
      BY <1>a, <3>1 DEF Return
    <3> DEFINE phase == TestPhaseFor(job.seen)
    <3>3. job.seen \in PodPhases
      BY <1>c, <2>1 DEF Jobs
    <3>4. phase \in {"Starting", "Running", "Passed", "Failed"} /\ (Completed(job.seen) => IsFinal(phase))
      BY <3>3 DEF TestPhaseFor, PodPhases, Completed, IsFinal
    <3>5. phase \in TestPhases
      BY <3>4 DEF TestPhases
    <3> HIDE DEF phase
    <3>6. UNCHANGED testFeed
      <4>1. CASE UNCHANGED testFeed
        BY <4>1
      <4>2. CASE \E out \in Answers(Patch(Test, WithPhase(Test, phase))) : testFeed' = Publish(testFeed, out.obj)
        BY <3>5, <4>2, CallTypes, Undisturbed
      <4> QED
        BY <2>10, <4>1, <4>2 DEF UpdateStatus, phase
    <3>7. Test' = Test /\ Pod' = Pod /\ CalmTest /\ CalmPods
      BY <2>2, <3>1, <3>2, <3>6
    <3>8. job.step = "status" /\ job.test = Test /\ Fin \in Test.fins /\ ~IsFinal(Test.phase)
          /\ ToRelease(Pod) = {}
      BY <3>1, <3>7 DEF CalmTest, CalmPods
    <3>9. Exists(Test) => phase = Test.phase
      <4>1. SUFFICES ASSUME phase # Test.phase PROVE ~Exists(Test)
        OBVIOUS
      <4>2. PICK out \in Answers(Patch(Test, WithPhase(Test, phase))) :
              testFeed' = Publish(testFeed, out.obj) /\ Return(out.res # "OK")
        BY <2>10, <3>8, <4>1 DEF UpdateStatus, phase
      <4>3. out.res = "OK"
        BY <1>a, <4>2 DEF Return
      <4>4. Exists(Test) /\ Test = WithPhase(Test, phase)
        BY <3>5, <4>2, <4>3, CallTypes, TestCalls, Undisturbed
      <4> QED
        BY <1>b, <4>1, <4>4 DEF WithPhase, Tests
    <3>10. Exists(Test) => \E p \in Pods : Live(Pod) = {p} /\ Test.phase = TestPhaseFor(Pod[p].phase)
      BY <3>4, <3>7, <3>8, <3>9 DEF CalmPods, phase
    <3>11. Converged'
      BY <3>7, <3>8, <3>10, EndsConverged
    <3> QED
      BY <1>d, <1>f, <3>2, <3>11
  <2>11. CASE ApplyRetention
    <3>1. /\ job.step = "complete" /\ job.todo = {} /\ ~job.err /\ UNCHANGED <<testFeed, podFeed>>
          /\ ~queued
      BY <1>a, <2>11 DEF ApplyRetention, LoopDone, Return
    <3>2. Test' = Test /\ Pod' = Pod /\ CalmTest /\ CalmPods
      BY <2>2, <3>1
    <3>3. job.pods = Pod /\ ToRelease(Pod) = {} /\ job.test = Test /\ IsFinal(Test.phase) /\ Fin \in Test.fins
      BY <3>1, <3>2 DEF CalmPods, CalmTest
    <3>4. CASE Drops(Test) /\ Listed(Pod) # {}
      <4>1. job' = [job EXCEPT !.step = "retain", !.todo = Listed(Pod)]
        BY <2>11, <3>3, <3>4 DEF ApplyRetention
      <4>2. /\ job'.step = "retain" /\ job'.todo = Listed(Pod)
            /\ job'.test = job.test /\ job'.pods = job.pods
        BY <1>c, <2>1, <4>1 DEF Jobs
      <4>3. Live(Pod) \subseteq Listed(Pod)
        BY DEF Live
      <4> QED
        BY <1>e, <3>1, <3>2, <3>3, <4>2, <4>3 DEF CalmTest, CalmPods, Working
    <3>5. CASE ~(Drops(Test) /\ Listed(Pod) # {})
      <4>1. job' = Idle
        BY <2>11, <3>3, <3>5 DEF ApplyRetention, Return
      <4>2. Drops(Test) => Live(Pod) = {}
        BY <3>5 DEF Live
      <4>3. Converged'
        BY <3>2, <3>3, <4>2, EndsConverged
      <4> QED
        BY <1>d, <1>f, <4>1, <4>3
    <3> QED
      BY <3>4, <3>5
  <2>12. CASE RetentionDone
    <3>1. /\ job.step = "retain" /\ job.todo = {} /\ ~job.err /\ UNCHANGED <<testFeed, podFeed>>
          /\ job' = Idle /\ ~queued
      BY <1>a, <2>12 DEF RetentionDone, LoopDone, Return
    <3>2. Test' = Test /\ Pod' = Pod /\ CalmTest /\ CalmPods
      BY <2>2, <3>1
    <3>3. ToRelease(Pod) = {} /\ Live(Pod) = {} /\ Fin \in Test.fins /\ IsFinal(Test.phase)
      BY <3>1, <3>2 DEF CalmPods, CalmTest
    <3>4. Converged'
      BY <3>2, <3>3, EndsConverged
    <3> QED
      BY <1>d, <1>f, <3>1, <3>4
  <2>13. CASE ReleaseTest
    <3>1. job.step = "cleanUp" /\ UNCHANGED podFeed /\ job' = Idle /\ ~queued
      BY <1>a, <2>13 DEF ReleaseTest, LoopDone, Return
    <3>2. UNCHANGED testFeed
      BY <1>c, <2>1, <2>13, CallTypes, Undisturbed DEF ReleaseTest
    <3>3. Test' = Test /\ Pod' = Pod /\ Test.del
      BY <2>2, <3>1, <3>2 DEF CalmTest
    <3> QED
      BY <1>d, <1>f, <3>1, <3>3, EndsConverged
  <2> QED
    BY <1>2, <2>3, <2>4, <2>5, <2>6, <2>7, <2>8, <2>9, <2>10, <2>11, <2>12, <2>13 DEF Controller
<1> QED
  BY <1>1, <1>2

\* Neither the cluster nor a stuttering step touches the reconcile or the queue.
LEMMA BystanderAttentive ==
  ASSUME TypeOK, Attentive, UNCHANGED <<queued, job>>, Calm' => UNCHANGED <<testFeed, podFeed>>
  PROVE  Attentive'
<1> SUFFICES ASSUME Calm' PROVE Attentive'
  BY DEF Attentive, Converged, Quiescent, Calm
<1>1. Test' = Test /\ Pod' = Pod /\ Calm
  BY Undisturbed
<1>2. CASE Working
  <2>1. CalmTest /\ CalmPods
    BY <1>1, <1>2 DEF Attentive
  <2>2. CalmTest' /\ CalmPods' /\ Working'
    BY <1>1, <1>2, <2>1 DEF CalmTest, CalmPods, Working, Blank
  <2> QED
    BY <2>2 DEF Attentive, Converged, Quiescent
<1>3. CASE ~Working
  <2>1. Quiescent /\ ~Working'
    BY <1>1, <1>3 DEF Quiescent, Calm, Working
  <2>2. Converged'
    BY <1>1, <2>1 DEF Attentive, Converged
  <2> QED
    BY <2>1, <2>2 DEF Attentive
<1> QED
  BY <1>2, <1>3

\* Every step keeps the attention.
LEMMA NextAttentive == TypeOK /\ Attentive /\ [Next]_vars => Attentive'
<1> SUFFICES ASSUME TypeOK, Attentive, [Next]_vars PROVE Attentive'
  OBVIOUS
<1>1. CASE Controller
  BY <1>1, ControllerAttentive
<1>2. CASE TestEvent \/ PodEvent \/ Restart
  BY <1>2, QueuedAttentive DEF TestEvent, PodEvent, Restart
<1>3. CASE Cluster
  <2>1. \A p \in Pods : Pod[p] \in PodRecs
    BY TypeFacts DEF PodSets
  <2>2. \A p \in Pods : /\ Deleted(Pod[p]) \in PodRecs
                        /\ \A phase \in PodPhases \cup {"Gone"} : [Pod[p] EXCEPT !.phase = phase] \in PodRecs
    <3>1. \A pod \in PodRecs, phase \in PodPhases \cup {"Gone"} : [pod EXCEPT !.phase = phase] \in PodRecs
      BY DEF PodRecs
    <3> QED
      BY <2>1, <3>1, ObjectTypes
  <2>3. CASE \E p \in Pods : \/ PodStarts(p) \/ PodEnds(p, "Succeeded") \/ PodEnds(p, "Failed")
                            \/ PodRemoved(p) \/ PodEvicted(p) \/ PodOrphaned(p)
    <3>1. /\ UNCHANGED <<queued, job, testFeed>>
          /\ \E p \in Pods, pod \in PodRecs : PublishPod(p, pod)
      BY <2>2, <2>3 DEF PodStarts, PodEnds, PodRemoved, PodEvicted, PodOrphaned, Others, PodPhases
    <3> QED
      BY <3>1, Undisturbed, BystanderAttentive
  <2>4. CASE TestDeleted \/ TestCreatedAgain
    <3>1. /\ UNCHANGED <<queued, job, podFeed>>
          /\ \E test \in Tests : testFeed' = Publish(testFeed, test)
      BY <2>4, UserTypes DEF TestDeleted, TestCreatedAgain, Others
    <3> QED
      BY <3>1, Undisturbed, BystanderAttentive
  <2> QED
    BY <1>3, <2>3, <2>4 DEF Cluster
<1>4. CASE UNCHANGED vars
  BY <1>4, BystanderAttentive DEF vars
<1> QED
  BY <1>1, <1>2, <1>3, <1>4 DEF Next

\* In the beginning the key is queued.
LEMMA InitAttentive == Init => Attentive
  BY DEF Init, Attentive, Converged, Quiescent, Working, Idle

\* Whatever was stale, lost or restarted on the way, the controller stops
\* working on a Test that is not deleted only when it is where it should be:
\* no early return of Reconcile, isRunning or isComplete leaves work undone
\* without an error, which queues the key, or an event that will.
THEOREM AlwaysConverged == Spec => []Converged
<1>1. TypeOK /\ Attentive /\ [Next]_vars => (TypeOK /\ Attentive)'
  BY NextTypeOK, NextAttentive
<1>2. Attentive => Converged
  BY DEF Attentive
<1> QED
  BY InitTypeOK, InitAttentive, <1>1, <1>2, PTL DEF Spec

-----------------------------------------------------------------------------
(***************************************************************************)
(* What the owner of the Test can rely on, while reconciles start with     *)
(* current caches and the Test is created with this controller's           *)
(* finalizer: how the Test, its Pods and their reports change.             *)
(***************************************************************************)
\* A Test keeps the finalizer it was created with until it is gone, so no
\* reconcile has to add it.
Held == (Exists(Test) => Test.fins = {Fin}) /\ job.step # "finalizer"

\* How a reconcile changes the stored Test.
LEMMA ControllerSteps ==
  ASSUME TypeOK, Current, Controller
  PROVE  \/ Test' = Test
         \/ /\ Exists(Test) /\ ~IsFinal(Test.phase)
            /\ \E phase \in TestPhases : Test' = [Test EXCEPT !.phase = phase]
         \/ job.step = "finalizer" /\ Test' = WithFins(Test, {Fin})
         \/ Exists(Test) /\ Test.del /\ Test' = [Test EXCEPT !.phase = "Gone", !.fins = {}]
<1>1. Test \in Tests
  BY TypeFacts
<1>2. CASE EnsureFinalizer
  <2>1. PICK out \in Answers(addFinalizer(job.test, Test, Fin, "Resource")) : testFeed' = Publish(testFeed, out.obj)
    BY <1>2 DEF EnsureFinalizer
  <2>2. job.test \in Tests /\ job.step = "finalizer"
    BY <1>2, TypeFacts DEF EnsureFinalizer, Working, Jobs
  <2>3. Test' \in {Test, WithFins(Test, {Fin})}
    BY <2>1, <2>2, CallTypes, Stores, TestCalls
  <2> QED
    BY <2>2, <2>3
<1>3. CASE SetPending
  <2>1. PICK out \in Answers(Patch(Test, WithPhase(Test, "Pending"))) : testFeed' = Publish(testFeed, out.obj)
    BY <1>3 DEF SetPending
  <2>2. Exists(Test) /\ ~IsFinal(Test.phase)
    BY <1>3 DEF SetPending, Working, Current, OwnTest
  <2>3. Test' \in {Test, WithPhase(Test, "Pending")} /\ "Pending" \in TestPhases
    BY <2>1, CallTypes, Stores, TestCalls DEF TestPhases
  <2> QED
    BY <1>3, <2>2, <2>3 DEF WithPhase
<1>4. CASE UpdateStatus
  <2> DEFINE phase == TestPhaseFor(job.seen)
  <2>1. Working /\ job.step \in {"status", "reduce"} /\ job \in Jobs
    BY <1>4, TypeFacts DEF UpdateStatus, LoopDone, Working
  <2>2. Exists(Test) /\ ~IsFinal(Test.phase)
    BY <2>1 DEF Current, OwnTest
  <2>3. phase \in TestPhases
    BY <2>1 DEF TestPhaseFor, Jobs, PodPhases, TestPhases
  <2>4. Test' \in {Test, WithPhase(Test, phase)}
    <3>1. CASE UNCHANGED testFeed
      BY <3>1, Stores
    <3>2. CASE \E out \in Answers(Patch(Test, WithPhase(Test, phase))) : testFeed' = Publish(testFeed, out.obj)
      BY <2>3, <3>2, CallTypes, Stores, TestCalls
    <3> QED
      BY <1>4, <3>1, <3>2 DEF UpdateStatus
  <2> HIDE DEF phase
  <2> QED
    BY <1>4, <2>2, <2>3, <2>4 DEF WithPhase
<1>5. CASE ReleaseTest
  <2>1. Working /\ job.step = "cleanUp" /\ job \in Jobs
    BY <1>5, TypeFacts DEF ReleaseTest, LoopDone, Working
  <2>2. Exists(Test) /\ Test.del
    BY <2>1 DEF Current, OwnTest
  <2>3. Test' \in {Test, Reaped(WithFins(Test, {}))}
    <3>1. CASE UNCHANGED testFeed
      BY <3>1, Stores
    <3>2. CASE \E out \in Answers(removeFinalizer(job.test, Test, Fin, "Resource")) :
                 testFeed' = Publish(testFeed, out.obj)
      BY <2>1, <3>2, CallTypes, Stores, TestCalls DEF Jobs
    <3> QED
      BY <1>5, <3>1, <3>2 DEF ReleaseTest
  <2>4. Reaped(WithFins(Test, {})) = [Test EXCEPT !.phase = "Gone", !.fins = {}]
    BY <1>1, <2>2 DEF Reaped, WithFins, Exists, Tests
  <2> QED
    BY <1>5, <2>2, <2>3, <2>4 DEF Controller
<1>6. CASE UNCHANGED testFeed
  BY <1>6, Stores
<1> QED
  BY <1>2, <1>3, <1>4, <1>5, <1>6
    DEF Controller, Reconcile, ReleasePod, CleanUpPod, LoopFailed, ChoosePod, CreatePod, CreatePodFails,
        ApplyRetention, RetentionDone

\* How a step changes the stored Test.
LEMMA TestSteps ==
  ASSUME TypeOK, Current, [Next]_vars
  PROVE  \/ Test' = Test
         \/ /\ Controller /\ Exists(Test) /\ ~IsFinal(Test.phase)
            /\ \E phase \in TestPhases : Test' = [Test EXCEPT !.phase = phase]
         \/ Controller /\ job.step = "finalizer" /\ Test' = WithFins(Test, {Fin})
         \/ Controller /\ Exists(Test) /\ Test.del /\ Test' = [Test EXCEPT !.phase = "Gone", !.fins = {}]
         \/ TestDeleted /\ Test' = Reaped(Deleted(Test))
         \/ TestCreatedAgain /\ Test' = NewTest(Test.uid + 1, Test.policy)
<1>1. CASE Controller
  BY <1>1, ControllerSteps
<1>2. CASE TestDeleted
  BY <1>2, UserTypes, Stores DEF TestDeleted
<1>3. CASE TestCreatedAgain
  BY <1>3, UserTypes, Stores DEF TestCreatedAgain
<1>4. CASE TestEvent
  BY <1>4, EventStates DEF TestEvent, TypeOK, Test
<1>5. CASE Restart
  BY <1>5, TypeFacts, RestartStates DEF Restart, Test
<1>6. CASE UNCHANGED testFeed
  BY <1>6, Stores
<1> QED
  BY <1>1, <1>2, <1>3, <1>4, <1>5, <1>6
    DEF Next, vars, PodEvent, Cluster, PodStarts, PodEnds, PodRemoved, PodEvicted, PodOrphaned

\* No reconcile takes it away.
LEMMA NextHeld ==
  ASSUME TypeOK, Current, Held, MaxLag = 0, InitialFins = {Fin}, [Next]_vars
  PROVE  Held'
<1>1. Test \in Tests
  BY TypeFacts
<1>2. Exists(Test') => Test'.fins = {Fin}
  <2>1. \/ Test' = Test
        \/ Exists(Test) /\ \E phase : Test' = [Test EXCEPT !.phase = phase]
        \/ Test' = [Test EXCEPT !.phase = "Gone", !.fins = {}]
        \/ Exists(Test) /\ Test' = Reaped(Deleted(Test))
        \/ Test' = NewTest(Test.uid + 1, Test.policy)
    BY TestSteps DEF Held, TestDeleted
  <2>2. CASE Test' = Test
    BY <2>2 DEF Held
  <2>3. CASE Test' = NewTest(Test.uid + 1, Test.policy)
    BY <2>3 DEF NewTest
  <2>4. CASE Exists(Test) /\ \E phase : Test' = [Test EXCEPT !.phase = phase]
    BY <1>1, <2>4 DEF Held, Tests
  <2>5. CASE Test' = [Test EXCEPT !.phase = "Gone", !.fins = {}]
    BY <1>1, <2>5 DEF Exists, Tests
  <2>6. CASE Exists(Test) /\ Test' = Reaped(Deleted(Test))
    BY <1>1, <2>6 DEF Held, Reaped, Deleted, Tests
  <2> QED
    BY <2>1, <2>2, <2>3, <2>4, <2>5, <2>6
<1>3. \A test, pods : Handle(test, pods).step # "finalizer"
  BY DEF Handle, At
<1>4. CASE Reconcile
  <2>1. Len(testFeed) \in Nat /\ Len(testFeed) # 0 /\ Len(testFeed) <= 1
    BY <1>4, FeedStates DEF Reconcile, TypeOK
  <2>2. Fresh(testFeed)
    <3>1. \A n \in Nat : n # 0 /\ n <= 1 => n = 1
      OBVIOUS
    <3> QED
      BY <2>1, <3>1, Zenon DEF Fresh
  <2>3. Cached(testFeed) = Test
    BY <2>2, FreshStates DEF TypeOK, Test
  <2>4. job'.step # "finalizer"
    BY <1>3, <1>4, <2>3 DEF Reconcile, Held, At, Idle
  <2> QED
    BY <1>2, <2>4 DEF Held
<1>5. CASE SetPending
  <2>1. job'.step # "finalizer"
    BY <1>3, <1>5 DEF SetPending, Return, Idle, Held
  <2> QED
    BY <1>2, <2>1 DEF Held
<1>6. CASE Working /\ job'.step # "finalizer"
  BY <1>2, <1>6 DEF Held
<1>7. CASE UNCHANGED job
  BY <1>2, <1>7 DEF Held
<1>8. CASE job' = Idle
  BY <1>2, <1>8 DEF Held, Idle
<1>9. CASE ~EnsureFinalizer /\ ~Reconcile /\ ~SetPending /\ Controller
  <2>1. Working /\ job \in Jobs
    BY <1>9, TypeFacts DEF Controller, ReleasePod, CleanUpPod, LoopFailed, ChoosePod, CreatePod,
      CreatePodFails, UpdateStatus, ApplyRetention, RetentionDone, ReleaseTest, LoopDone, Working
  <2>2. job' = Idle \/ job'.step # "finalizer"
    <3>1. CASE \E p \in Pods : ReleasePod(p) \/ CleanUpPod(p)
      BY <2>1, <3>1 DEF ReleasePod, CleanUpPod, Held, Jobs
    <3>2. CASE ChoosePod
      BY <2>1, <3>2 DEF ChoosePod, Jobs
    <3>3. CASE CreatePod \/ ApplyRetention
      BY <2>1, <3>3 DEF CreatePod, ApplyRetention, Return, Jobs
    <3> QED
      BY <1>9, <3>1, <3>2, <3>3 DEF Controller, LoopFailed, CreatePodFails, UpdateStatus, RetentionDone,
        ReleaseTest, Return
  <2> QED
    BY <1>6, <1>8, <2>1, <2>2
<1> QED
  BY <1>4, <1>5, <1>7, <1>8, <1>9
    DEF Held, Next, EnsureFinalizer, TestEvent, PodEvent, Restart, Cluster, PodStarts, PodEnds, PodRemoved,
        PodEvicted, PodOrphaned, TestDeleted, TestCreatedAgain, Others, vars

\* A reconcile writes the Test's phase at most twice, so its feed stays short
\* however long the Test's events take.
Depth(step) == CASE step \in {"finalizer", "pending"} -> 2
                 [] step = "idle"                     -> 4
                 [] OTHER                             -> 3

Short == Len(testFeed) <= Depth(job.step) + (IF Test.del THEN 1 ELSE 0)

\* How far behind the cache may be at each step.
LEMMA Depths ==
  /\ Depth("finalizer") = 2 /\ Depth("pending") = 2 /\ Depth("idle") = 4
  /\ \A step : Depth(step) \in 2..4
  /\ \A step : step \notin {"finalizer", "pending", "idle"} => Depth(step) = 3
  BY DEF Depth

\* What a step makes of the Test's feed.
LEMMA Grows ==
  ASSUME TypeOK, [Next]_vars
  PROVE  /\ Len(testFeed) \in Nat /\ Len(testFeed') \in Nat
         /\ Len(testFeed') <= Len(testFeed) + (IF Test' = Test THEN 0 ELSE 1)
<1>1. testFeed \in Seq(Tests) /\ testFeed # <<>> /\ Len(testFeed) \in Nat /\ Len(testFeed) >= 1
  BY FeedStates DEF TypeOK
<1>2. ASSUME NEW test \in Tests, testFeed' = Publish(testFeed, test)
      PROVE  /\ Len(testFeed') \in Nat
             /\ Len(testFeed') <= Len(testFeed) + (IF Test' = Test THEN 0 ELSE 1)
  <2>1. Test' = test
    BY <1>2, Stores
  <2> QED
    BY <1>1, <1>2, <2>1, PublishLength DEF Test
<1>3. CASE UNCHANGED testFeed
  BY <1>1, <1>3 DEF Test
<1>4. CASE EnsureFinalizer
  <2>1. PICK out \in Answers(addFinalizer(job.test, Test, Fin, "Resource")) : testFeed' = Publish(testFeed, out.obj)
    BY <1>4 DEF EnsureFinalizer
  <2>2. job.test \in Tests
    BY <1>4, TypeFacts DEF EnsureFinalizer, Working, Jobs
  <2> QED
    BY <1>2, <2>1, <2>2, CallTypes
<1>5. CASE SetPending
  <2>1. PICK out \in Answers(Patch(Test, WithPhase(Test, "Pending"))) : testFeed' = Publish(testFeed, out.obj)
    BY <1>5 DEF SetPending
  <2>2. "Pending" \in TestPhases
    BY DEF TestPhases
  <2> QED
    BY <1>2, <2>1, <2>2, CallTypes
<1>6. CASE UpdateStatus
  <2> DEFINE phase == TestPhaseFor(job.seen)
  <2>1. Working /\ job \in Jobs
    BY <1>6, TypeFacts DEF UpdateStatus, LoopDone, Working
  <2>2. phase \in TestPhases
    BY <2>1 DEF TestPhaseFor, Jobs, PodPhases, TestPhases
  <2> HIDE DEF phase
  <2>3. CASE \E out \in Answers(Patch(Test, WithPhase(Test, phase))) : testFeed' = Publish(testFeed, out.obj)
    BY <1>2, <2>2, <2>3, CallTypes
  <2> QED
    BY <1>3, <1>6, <2>3 DEF UpdateStatus, phase
<1>7. CASE ReleaseTest
  <2>1. job.test \in Tests
    BY <1>7, TypeFacts DEF ReleaseTest, LoopDone, Working, Jobs
  <2>2. CASE \E out \in Answers(removeFinalizer(job.test, Test, Fin, "Resource")) :
               testFeed' = Publish(testFeed, out.obj)
    BY <1>2, <2>1, <2>2, CallTypes
  <2> QED
    BY <1>3, <1>7, <2>2 DEF ReleaseTest
<1>8. CASE TestDeleted \/ TestCreatedAgain
  BY <1>2, <1>8, UserTypes DEF TestDeleted, TestCreatedAgain
<1>9. CASE TestEvent
  BY <1>1, <1>9, EventStates, EventDrops DEF TestEvent, Test
<1>10. CASE Restart
  <2>1. testFeed' = <<Test>>
    BY <1>10 DEF Restart
  <2>2. Len(testFeed') = 1 /\ Test' = Test
    BY <2>1 DEF Test, Stored
  <2> QED
    BY <1>1, <2>2
<1> QED
  BY <1>3, <1>4, <1>5, <1>6, <1>7, <1>8, <1>9, <1>10
    DEF Next, vars, Controller, Reconcile, ReleasePod, CleanUpPod, LoopFailed, ChoosePod, CreatePod,
        CreatePodFails, ApplyRetention, RetentionDone, PodEvent, Cluster, PodStarts, PodEnds, PodRemoved,
        PodEvicted, PodOrphaned

\* A reconcile writes the Test a few times at most before it reads it again.
LEMMA NextShort ==
  ASSUME TypeOK, Current, Held, Short, MaxLag = 0, [Next]_vars, ~TestCreatedAgain
  PROVE  Short'
<1>1. /\ Len(testFeed) \in Nat /\ Len(testFeed') \in Nat /\ Test \in Tests
      /\ Len(testFeed') <= Len(testFeed) + (IF Test' = Test THEN 0 ELSE 1)
  BY Grows, TypeFacts
<1>2. Test.del => Test'.del
  BY <1>1, TestSteps DEF Held, Reaped, Deleted, Tests, TestDeleted
<1>3. \A test, pods : Handle(test, pods).step \in {"pending", "complete", "running"}
                     /\ (Handle(test, pods).step = "pending" => Blank(test))
  BY DEF Handle, At, Blank
<1>4. CASE Reconcile
  <2>1. Len(testFeed') <= 1
    BY <1>4 DEF Reconcile
  <2> QED
    BY <1>1, <2>1, Depths DEF Short
<1>5. CASE Restart
  <2>1. testFeed' = <<Test>>
    BY <1>5 DEF Restart
  <2>2. Len(testFeed') = 1
    BY <2>1
  <2> QED
    BY <2>2, Depths DEF Short
<1>6. CASE SetPending
  <2>1. Len(testFeed) <= 2 + (IF Test.del THEN 1 ELSE 0)
    BY <1>6, Depths DEF SetPending, Short
  <2>2. job' = Idle \/ \E test, pods : job' = Handle(test, pods) /\ test = WithPhase(Test, "Pending") /\ Exists(Test)
    <3>1. "Pending" \in TestPhases
      BY DEF TestPhases
    <3> QED
      BY <1>6, <3>1, TestCalls DEF SetPending, Return
  <2>3. Depth(job'.step) >= 3
    <3>1. CASE job' = Idle
      BY <3>1, Depths DEF Idle
    <3>2. CASE job' # Idle
      <4>1. Exists(Test) => WithPhase(Test, "Pending").phase = "Pending"
        BY <1>1 DEF WithPhase, Tests
      <4>2. \A test : test.phase = "Pending" => ~Blank(test)
        BY Zenon DEF Blank
      <4>3. job'.step \in {"complete", "running"}
        BY <1>3, <2>2, <3>2, <4>1, <4>2
      <4> QED
        BY <4>3, Depths
    <3> QED
      BY <3>1, <3>2
  <2> QED
    BY <1>1, <1>2, <2>1, <2>3, Depths DEF Short
<1>7. CASE UpdateStatus \/ ReleaseTest
  <2>1. Depth(job.step) = 3
    BY <1>7, Depths DEF UpdateStatus, ReleaseTest, LoopDone
  <2>2. job' = Idle
    BY <1>7 DEF UpdateStatus, ReleaseTest, Return
  <2> QED
    BY <1>1, <1>2, <2>1, <2>2, Depths DEF Short, Idle
<1>8. CASE TestDeleted
  <2>1. ~Test.del /\ UNCHANGED job /\ Exists(Test) /\ Test' = Reaped(Deleted(Test))
    BY <1>8, UserTypes, Stores DEF TestDeleted, Others
  <2>2. Test'.del
    BY <1>1, <2>1 DEF Reaped, Deleted, Tests
  <2> QED
    BY <1>1, <2>1, <2>2, Depths DEF Short
<1>9. CASE Test' = Test /\ (job' = Idle \/ Depth(job'.step) >= Depth(job.step))
  <2>1. Depth(job'.step) >= Depth(job.step)
    BY <1>9, Depths DEF Idle
  <2> QED
    BY <1>1, <1>9, <2>1, Depths DEF Short
<1>10. CASE UNCHANGED <<testFeed, job>>
  BY <1>10 DEF Short, Test
<1>11. CASE TestEvent
  <2>1. Test' = Test /\ UNCHANGED job
    BY <1>11, EventStates DEF TestEvent, TypeOK, Test
  <2>2. Depth(job.step) >= Depth(job.step)
    BY Depths
  <2> QED
    BY <1>9, <2>1, <2>2
<1>12. CASE UNCHANGED testFeed /\ Controller /\ ~Reconcile /\ ~EnsureFinalizer /\ ~SetPending
  <2>1. Test' = Test
    BY <1>12, Stores
  <2>2. Working /\ job \in Jobs
    BY <1>12, TypeFacts DEF Controller, ReleasePod, CleanUpPod, LoopFailed, ChoosePod, CreatePod,
      CreatePodFails, UpdateStatus, ApplyRetention, RetentionDone, ReleaseTest, LoopDone, Working
  <2>3. job' = Idle \/ job'.step = job.step \/ job'.step \in {"create", "status", "reduce", "retain"}
    <3>1. CASE \E p \in Pods : ReleasePod(p) \/ CleanUpPod(p)
      BY <2>2, <3>1 DEF ReleasePod, CleanUpPod, Jobs
    <3>2. CASE ChoosePod
      BY <2>2, <3>2 DEF ChoosePod, Jobs
    <3>3. CASE CreatePod \/ ApplyRetention
      BY <2>2, <3>3 DEF CreatePod, ApplyRetention, Return, Jobs
    <3> QED
      BY <1>12, <3>1, <3>2, <3>3 DEF Controller, LoopFailed, CreatePodFails, UpdateStatus, RetentionDone,
        ReleaseTest, Return
  <2>4. job.step # "idle"
    BY <2>2 DEF Working
  <2>5. Depth(job.step) <= 3
    BY <2>4, Depths
  <2> QED
    BY <1>9, <2>1, <2>3, <2>5, Depths
<1>13. ~EnsureFinalizer
  BY DEF Held, EnsureFinalizer
<1> QED
  BY <1>4, <1>5, <1>6, <1>7, <1>8, <1>10, <1>11, <1>12, <1>13
    DEF Next, vars, Controller, LoopFailed, ChoosePod, CreatePod, ReleasePod, CleanUpPod,
        CreatePodFails, ApplyRetention, RetentionDone, PodEvent, Cluster, PodStarts, PodEnds, PodRemoved,
        PodEvicted, PodOrphaned, Others

\* A node reports the end of a Pod once.
LEMMA ReportsStay ==
  ASSUME TypeOK, Evidence, [Next]_vars, NEW p \in Pods, outcome[p].phase # "None"
  PROVE  outcome'[p] = outcome[p]
<1>1. CASE \E q \in Pods : PodEnds(q, "Succeeded") \/ PodEnds(q, "Failed")
  <2>1. PICK q \in Pods : PodEnds(q, "Succeeded") \/ PodEnds(q, "Failed")
    BY <1>1
  <2>2. q # p
    BY <2>1 DEF PodEnds, Evidence, Unfinished
  <2> QED
    BY <2>1, <2>2 DEF PodEnds, TypeOK
<1>2. CASE UNCHANGED outcome
  BY <1>2
<1> QED
  BY <1>1, <1>2
    DEF Next, vars, env, Controller, Reconcile, EnsureFinalizer, SetPending, ReleasePod, CleanUpPod, LoopFailed,
        ChoosePod, CreatePod, CreatePodFails, UpdateStatus, ApplyRetention, RetentionDone, ReleaseTest,
        TestEvent, PodEvent, Restart, Cluster, PodStarts, PodRemoved, PodEvicted, PodOrphaned, TestDeleted,
        TestCreatedAgain

\* A Pod belongs to the Test it was created for.
LEMMA PodSteps ==
  ASSUME TypeOK, Current, [Next]_vars, NEW p \in Pods
  PROVE  \/ Pod'[p].owner = Pod[p].owner /\ (Pod'[p].phase = "Unborn" <=> Pod[p].phase = "Unborn")
         \/ Pod[p].phase = "Unborn" /\ Exists(Test) /\ Pod'[p] = NewPod(Test.uid)
<1> DEFINE Same(pod, new) == new.owner = pod.owner /\ (new.phase = "Unborn" <=> pod.phase = "Unborn")
<1>1. Pod \in PodSets
  BY TypeFacts
<1>2. ASSUME NEW q \in Pods, NEW pod \in PodRecs, PublishPod(q, pod), Same(Pod[q], pod)
      PROVE  Same(Pod[p], Pod'[p])
  BY <1>1, <1>2, Stores DEF PodSets
<1>3. \A pod \in PodRecs :
        /\ Same(pod, pod) /\ Same(pod, Deleted(pod)) /\ Deleted(pod) \in PodRecs
        /\ \A fins \in SUBSET {Fin} : Same(pod, WithFins(pod, fins)) /\ Same(pod, WithFins(Deleted(pod), fins))
        /\ Exists(pod) => \A phase \in PodPhases \cup {"Gone"} :
             [pod EXCEPT !.phase = phase] \in PodRecs /\ Same(pod, [pod EXCEPT !.phase = phase])
  BY DEF PodRecs, Deleted, WithFins, Exists, PodPhases
<1>4. CASE Pod' = Pod
  BY <1>4
<1>5. CASE \E q \in Pods : ReleasePod(q)
  <2>0. PICK q \in Pods : ReleasePod(q)
    BY <1>5
  <2>1. PICK out \in Answers(removeFinalizer(job.pods[q], Pod[q], Fin, "Pod")) : PublishPod(q, out.obj)
    BY <2>0 DEF ReleasePod
  <2>2. job.pods[q] \in PodRecs /\ Pod[q] \in PodRecs
    BY <1>1, <1>5, TypeFacts DEF ReleasePod, Working, Jobs, PodSets
  <2>3. out.obj \in {Pod[q], WithFins(Pod[q], job.pods[q].fins \ {Fin})} /\ job.pods[q].fins \ {Fin} \in SUBSET {Fin}
    BY <2>2, ReleaseOutcomes DEF Answers, PodRecs
  <2>4. out.obj \in PodRecs
    BY <2>1, <2>2, CallTypes
  <2>5. Same(Pod[q], out.obj)
    BY <1>3, <2>2, <2>3
  <2> HIDE DEF Same
  <2>6. Same(Pod[p], Pod'[p])
    BY <1>2, <2>1, <2>4, <2>5
  <2> QED
    BY <2>6 DEF Same
<1>6. CASE \E q \in Pods : CleanUpPod(q)
  <2>0. PICK q \in Pods : CleanUpPod(q)
    BY <1>6
  <2>1. PICK out \in Answers(cleanUp(job.pods[q], Pod[q], Fin, "Pod")) : PublishPod(q, out.obj)
    BY <2>0 DEF CleanUpPod
  <2>2. job.pods[q] \in PodRecs /\ Pod[q] \in PodRecs
    BY <1>1, <1>6, TypeFacts DEF CleanUpPod, Working, Jobs, PodSets
  <2> DEFINE fins == job.pods[q].fins \ {Fin}
  <2>3. out.obj \in {Pod[q], Deleted(Pod[q]), WithFins(Pod[q], fins), WithFins(Deleted(Pod[q]), fins)}
    BY <2>2, CleanUpOutcomes DEF Answers
  <2>4. out.obj \in PodRecs /\ fins \in SUBSET {Fin}
    BY <2>1, <2>2, CallTypes DEF PodRecs
  <2> HIDE DEF fins
  <2>5. Same(Pod[q], out.obj)
    BY <1>3, <2>2, <2>3, <2>4
  <2> HIDE DEF Same
  <2>6. Same(Pod[p], Pod'[p])
    BY <1>2, <2>1, <2>4, <2>5
  <2> QED
    BY <2>6 DEF Same
<1>7. CASE CreatePod
  <2>1. PICK q \in Pods : Pod[q].phase = "Unborn" /\ PublishPod(q, NewPod(job.test.uid))
    BY <1>7 DEF CreatePod
  <2>2. job.test.uid = Test.uid /\ Exists(Test) /\ Test.uid \in 1..MaxUid
    BY <1>7, TypeFacts DEF CreatePod, Working, Current, OwnTest, Tests
  <2>3. NewPod(Test.uid) \in PodRecs
    BY <2>2, ConstantsAssumption DEF NewPod, PodRecs, PodPhases
  <2>4. Pod' = [Pod EXCEPT ![q] = NewPod(Test.uid)]
    BY <2>1, <2>2, <2>3, Stores
  <2> QED
    BY <1>1, <2>1, <2>2, <2>4 DEF PodSets
<1>8. CASE \E q \in Pods : PodStarts(q) \/ PodEnds(q, "Succeeded") \/ PodEnds(q, "Failed") \/ PodRemoved(q)
  <2>1. PICK q \in Pods, phase \in PodPhases \cup {"Gone"} :
          Exists(Pod[q]) /\ PublishPod(q, [Pod[q] EXCEPT !.phase = phase])
    BY <1>8 DEF PodStarts, PodEnds, PodRemoved, PodPhases, Exists
  <2>2. Pod[q] \in PodRecs
    BY <1>1 DEF PodSets
  <2>3. [Pod[q] EXCEPT !.phase = phase] \in PodRecs /\ Same(Pod[q], [Pod[q] EXCEPT !.phase = phase])
    BY <1>3, <2>1, <2>2
  <2> HIDE DEF Same
  <2>4. Same(Pod[p], Pod'[p])
    BY <1>2, <2>1, <2>3
  <2> QED
    BY <2>4 DEF Same
<1>9. CASE \E q \in Pods : PodEvicted(q) \/ PodOrphaned(q)
  <2>1. PICK q \in Pods : PublishPod(q, Deleted(Pod[q]))
    BY <1>9 DEF PodEvicted, PodOrphaned
  <2>2. Pod[q] \in PodRecs
    BY <1>1 DEF PodSets
  <2>3. Deleted(Pod[q]) \in PodRecs /\ Same(Pod[q], Deleted(Pod[q]))
    BY <1>3, <2>2
  <2> HIDE DEF Same
  <2>4. Same(Pod[p], Pod'[p])
    BY <1>2, <2>1, <2>3
  <2> QED
    BY <2>4 DEF Same
<1>10. CASE PodEvent
  BY <1>4, <1>10, EventStates DEF PodEvent, TypeOK, Pod
<1>11. CASE Restart
  BY <1>4, <1>11, TypeFacts, RestartStates DEF Restart, Pod
<1>12. CASE UNCHANGED podFeed
  BY <1>4, <1>12, Stores
<1> QED
  BY <1>5, <1>6, <1>7, <1>8, <1>9, <1>10, <1>11, <1>12
    DEF Next, vars, Controller, Reconcile, EnsureFinalizer, SetPending, LoopFailed, ChoosePod, CreatePodFails,
        UpdateStatus, ApplyRetention, RetentionDone, ReleaseTest, TestEvent, Cluster, TestDeleted, TestCreatedAgain
=============================================================================

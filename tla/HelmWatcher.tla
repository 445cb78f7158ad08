----------------------------- MODULE HelmWatcher ----------------------------
(***************************************************************************)
(* From a Helm release to a TestSuite: the watcher that queues suites when *)
(* the secret of a release is created (controllers/                        *)
(* helmrelease_watcher.go), and the part of the TestSuite controller that  *)
(* labels a suite for the watcher, looks its release up and is triggered   *)
(* by it (controllers/testsuite_controller.go, the rest of which is module *)
(* TestSuiteController).                                                   *)
(*                                                                         *)
(* There is one release, and one suite in every namespace, which names it. *)
(* A string in which the code looks for a separator is the sequence of its *)
(* parts, as in <<"app", ".", "app">>.  The handler and the controller are *)
(* two threads that read the same caches.                                  *)
(***************************************************************************)
EXTENDS KubeApi, SequencesExt

CONSTANTS
  Namespaces,   \* where suites are; a suite is known by its namespace
  Home,         \* the namespace of the release
  Release,      \* the name of the release
  Specs,        \* what spec.when.helmRelease can be, <<>> for none
  InitialSpecs, \* what it can be at first, per namespace
  Exports,      \* what spec.exportTo of the release's HelmPolicy can be
  Versions,     \* versions of the release: 1..n
  Kinds,        \* what a secret can be: "helm", "unlabelled" or "opaque"
  CreatedAs,    \* per version, the status Helm creates its secret with
  MaxEdits,     \* changes of a suite's spec or of the policy
  MaxLag, MaxBehind, \* as in TestSuiteController
  MaxFaults     \* calls that fail and crashes of the manager, together

NoPolicy == <<"">>

ASSUME ConstantsAssumption ==
  /\ Home \in Namespaces
  /\ {Home, Release} \cap {".", "/"} = {}
  /\ InitialSpecs \subseteq [Namespaces -> Specs]
  /\ Versions \subseteq Nat \ {0} /\ IsFiniteSet(Versions)
  /\ Kinds \subseteq {"helm", "unlabelled", "opaque"}
  /\ CreatedAs \in [Versions -> {"pending", "deployed"}]
  /\ Exports \subseteq Seq(STRING) /\ NoPolicy \notin Exports
  /\ {MaxEdits, MaxLag, MaxBehind, MaxFaults} \subseteq Nat

VARIABLES
  suiteFeed,   \* the suites, from the cached to the stored state
  secretFeed,  \* the secrets, one per version: kind and status, likewise
  policyFeed,  \* the policy of the release, likewise
  events,      \* created secrets the handler was not called for yet
  watcher,     \* the handler's call in progress
  queue,       \* the controller's work queue
  job,         \* the reconcile in progress
  noticed,     \* history: the version that triggered a suite last
  announced,   \* history: the versions whose secret was created as deployed
  exported,    \* history: all a policy ever exported to
  faults, restarts, edits

caches == <<suiteFeed, secretFeed, policyFeed>>
history == <<noticed, announced, exported>>
bounds == <<faults, restarts, edits>>
vars == <<caches, events, watcher, queue, job, history, bounds>>

Suites  == Stored(suiteFeed)
Secrets == Stored(secretFeed)

Idle == [step |-> "idle"]

\* The last release is not recorded, or recorded as the empty string.
Unrecorded == -1
Empty == 0

NewSuite(spec) == [spec |-> spec, label |-> <<>>, last |-> Unrecorded, phase |-> "Ready"]
PublishSuite(ns, suite) == suiteFeed' = Publish(suiteFeed, [Suites EXCEPT ![ns] = suite])

\* An answer that is an error, from a bounded stock of them.
Fault == faults + restarts < MaxFaults /\ faults' = faults + 1
Answer(res) == IF res = "Error" THEN Fault ELSE UNCHANGED faults

-----------------------------------------------------------------------------
(***************************************************************************)
(* Labels and secrets (controllers/helpers.go).                            *)
(***************************************************************************)

\* The label the watcher looks for: the release's name first.
LabelValue == <<Release, ".", Home>>

\* The label the controller gives a suite: its namespace first.
HelmLabel(ns, spec) == IF "." \in ToSet(spec) THEN spec ELSE <<ns, ".">> \o spec

\* The server refuses a label value that has a slash.
IsLabel(label) == "/" \notin ToSet(label)

\* A secret of Helm's type with a name, a status and a version that is a number.
ParseHelmReleaseSecret(secret) == secret.kind = "helm"

isHelmRelease(secret) == secret.kind # "opaque"

NoSecret == [kind |-> "none", status |-> "none"]

-----------------------------------------------------------------------------
(***************************************************************************)
(* The handler.  A call of handle lists the suites of the release's own    *)
(* namespace, then the policy, then the suites of the namespaces it        *)
(* exports to, one after the other; what a list finds is queued suite by   *)
(* suite.  An error at any point ends the call, and nothing repeats it.    *)
(***************************************************************************)
Calling(step, found, todo) == [step |-> step, found |-> found, todo |-> todo]

Subscribed(ns) == Cached(suiteFeed)[ns].label = LabelValue

\* A list ends the call, or what it found is to be queued before the next step.
Found(suites, step, todo) == watcher' = Calling(step, suites, todo) /\ UNCHANGED faults
Fails == watcher' = Idle /\ Fault

\* All that only the controller and the cluster change.
Watching == UNCHANGED <<caches, job, history, restarts, edits>>

Create ==
  /\ watcher = Idle /\ events # <<>>
  /\ events' = Tail(events)
  /\ watcher' = IF ParseHelmReleaseSecret(Head(events)) THEN Calling("own", {}, <<>>) ELSE Idle
  /\ UNCHANGED <<queue, faults>> /\ Watching

ListOwn ==
  /\ watcher.step = "own"
  /\ Found({ns \in {Home} : Subscribed(ns)}, "policy", <<>>) \/ Fails
  /\ UNCHANGED <<events, queue>> /\ Watching

\* AddRateLimited, for one of the suites the last list found.
Enqueue ==
  /\ watcher # Idle
  /\ \E ns \in watcher.found :
       /\ queue' = queue \cup {ns}
       /\ watcher' = [watcher EXCEPT !.found = @ \ {ns}]
  /\ UNCHANGED <<events, faults>> /\ Watching

\* A policy whose only entry is "*" exports to all namespaces.
GetPolicy ==
  /\ watcher.step = "policy" /\ watcher.found = {}
  /\ LET policy == Cached(policyFeed)
     IN  \/ /\ watcher' = IF policy = NoPolicy THEN Idle
                          ELSE IF policy = <<"*">> THEN Calling("all", {}, <<>>)
                          ELSE Calling("export", {}, policy)
            /\ UNCHANGED faults
         \/ Fails
  /\ UNCHANGED <<events, queue>> /\ Watching

\* By a field selector that a client which reads a cache refuses.
ListAll ==
  /\ watcher.step = "all"
  /\ \/ Found({ns \in Namespaces \ {Home} : Subscribed(ns)}, "export", <<>>)
     \/ watcher' = Idle /\ UNCHANGED faults
  /\ UNCHANGED <<events, queue>> /\ Watching

\* In a list of several "*" is a namespace that does not exist.
ListExported ==
  /\ watcher.step = "export" /\ watcher.found = {} /\ watcher.todo # <<>>
  /\ \/ Found({ns \in Namespaces : ns = Head(watcher.todo) /\ Subscribed(ns)}, "export", Tail(watcher.todo))
     \/ Fails
  /\ UNCHANGED <<events, queue>> /\ Watching

Returned ==
  /\ watcher.step = "export" /\ watcher.found = {} /\ watcher.todo = <<>>
  /\ watcher' = Idle
  /\ UNCHANGED <<events, queue, faults>> /\ Watching

handle == ListOwn \/ Enqueue \/ GetPolicy \/ ListAll \/ ListExported \/ Returned

-----------------------------------------------------------------------------
(***************************************************************************)
(* The TestSuite controller, as far as Helm is concerned.                  *)
(***************************************************************************)
At(step, ns, suite) == [step |-> step, ns |-> ns, suite |-> suite, base |-> suite, version |-> 0]

Retry == job' = Idle /\ queue' = queue \cup {job.ns}

\* All a reconcile leaves alone.
Locally == UNCHANGED <<secretFeed, policyFeed, events, watcher, announced, exported, restarts, edits>>

\* The release a suite of namespace ns observes: namespace and name.
Observed(ns, spec) ==
  LET seps == {i \in 1..(Len(spec) - 1) : spec[i] = "/"}
      pos  == Min(seps)
  IN  IF seps = {} THEN <<<<ns>>, spec>>
      ELSE <<SubSeq(spec, 1, pos - 1), SubSeq(spec, pos + 1, Len(spec))>>

IsForeign(spec) == \E i \in 1..(Len(spec) - 1) : spec[i] = "/"

\* Mutant: a release of another namespace is looked up without asking.
notRunning_Unasked(ns, suite) ==
  IF suite.phase = "Running" \/ suite.spec = <<>> THEN Idle ELSE At("list", ns, suite)

\* A release of another namespace has to be exported to the suite's.
notRunning(ns, suite) ==
  IF suite.phase = "Running" \/ suite.spec = <<>> THEN Idle
  ELSE At(IF IsForeign(suite.spec) THEN "policy" ELSE "list", ns, suite)

\* Mutant: a suite that has a label keeps it.
NeedsLabel_IfNone(ns, suite) == suite.spec # <<>> /\ suite.label = <<>>

NeedsLabel(ns, suite) == suite.spec # <<>> /\ suite.label # HelmLabel(ns, suite.spec)

Reconcile ==
  /\ job = Idle
  /\ Len(suiteFeed) <= MaxLag + 1 /\ Len(secretFeed) <= MaxLag + 1 /\ Len(policyFeed) <= MaxLag + 1
  /\ \E ns \in queue :
       /\ queue' = queue \ {ns}
       /\ LET suite == Cached(suiteFeed)[ns]
          IN  job' = IF NeedsLabel(ns, suite) THEN At("label", ns, suite) ELSE notRunning(ns, suite)
  /\ UNCHANGED <<suiteFeed, noticed, faults>> /\ Locally

\* Whether the patch of the label succeeds or not, the reconcile goes on.
PatchLabel ==
  /\ job.step = "label"
  /\ LET stored == Suites[job.ns]
         label  == HelmLabel(job.ns, job.suite.spec)
     IN  \E out \in IF IsLabel(label) THEN Patch(stored, [stored EXCEPT !.label = label])
                    ELSE {[obj |-> stored, res |-> "Invalid"]} :
           /\ Answer(out.res)
           /\ PublishSuite(job.ns, out.obj)
           /\ job' = notRunning(job.ns, IF out.res = "OK" THEN out.obj ELSE job.suite)
  /\ UNCHANGED <<queue, noticed>> /\ Locally

\* "*" is a namespace like any other here.
CheckPolicy ==
  /\ job.step = "policy"
  /\ \/ LET policy == IF Observed(job.ns, job.suite.spec) = <<<<Home>>, <<Release>>>>
                        THEN Cached(policyFeed) ELSE NoPolicy
        IN  /\ job' = IF policy # NoPolicy /\ job.ns \in ToSet(policy)
                        THEN [job EXCEPT !.step = "list"] ELSE Idle
            /\ UNCHANGED <<queue, faults>>
     \/ Retry /\ Fault
  /\ UNCHANGED <<suiteFeed, noticed>> /\ Locally

\* The deployed versions of the release the suite observes.
Releases(ns, spec) ==
  {v \in Versions : /\ Observed(ns, spec) = <<<<Home>>, <<Release>>>>
                    /\ Cached(secretFeed)[v].status = "deployed"
                    /\ ParseHelmReleaseSecret(Cached(secretFeed)[v])}

\* Mutant: the first of the list is taken, whichever it is.
ListReleases_First ==
  /\ job.step = "list"
  /\ \/ /\ LET found == Releases(job.ns, job.suite.spec)
           IN  IF found = {} THEN job' = Idle
               ELSE \E v \in found : job' = [job EXCEPT !.step = "annotate", !.version = v]
        /\ UNCHANGED <<queue, faults>>
     \/ Retry /\ Fault
  /\ UNCHANGED <<suiteFeed, noticed>> /\ Locally

\* The newest version triggers, unless it is the one the suite remembers.
ListReleases ==
  /\ job.step = "list"
  /\ \/ /\ LET found == Releases(job.ns, job.suite.spec)
           IN  job' = IF found = {} \/ Max(found) = job.suite.last THEN Idle
                      ELSE [job EXCEPT !.step = "annotate", !.version = Max(found)]
        /\ UNCHANGED <<queue, faults>>
     \/ Retry /\ Fault
  /\ UNCHANGED <<suiteFeed, noticed>> /\ Locally

\* What is remembered is the annotation named like the version, and so nothing.
AnnotateRelease ==
  /\ job.step = "annotate"
  /\ \E out \in Patch(Suites[job.ns], [Suites[job.ns] EXCEPT !.last = Empty]) :
       /\ Answer(out.res)
       /\ PublishSuite(job.ns, out.obj)
       /\ IF out.res = "OK" THEN job' = [job EXCEPT !.step = "trigger", !.suite = out.obj] /\ UNCHANGED queue
          ELSE Retry
  /\ UNCHANGED noticed /\ Locally

\* The patch is made from the copy the last one was made from: when that brought
\* a new suite back, it only applies to the suite it brought back.
SetRunning ==
  /\ job.step = "trigger"
  /\ LET stored == Suites[job.ns]
     IN  \E out \in IF job.base # job.suite /\ stored # job.suite THEN {[obj |-> stored, res |-> "Conflict"]}
                    ELSE Patch(stored, [stored EXCEPT !.phase = "Running"]) :
           /\ Answer(out.res)
           /\ PublishSuite(job.ns, out.obj)
           /\ noticed' = IF out.obj.phase = "Running" /\ out.res # "Conflict"
                           THEN [noticed EXCEPT ![job.ns] = job.version] ELSE noticed
           /\ IF out.res = "OK" THEN job' = Idle /\ UNCHANGED queue ELSE Retry
  /\ Locally

Controller ==
  \/ Reconcile \/ PatchLabel \/ CheckPolicy \/ ListReleases \/ AnnotateRelease \/ SetRunning

-----------------------------------------------------------------------------
(***************************************************************************)
(* The watches.  Only the creation of a secret calls the handler.          *)
(***************************************************************************)
SuiteEvent ==
  /\ ~Fresh(suiteFeed)
  /\ suiteFeed' = Tail(suiteFeed)
  /\ queue' = queue \cup {ns \in Namespaces : suiteFeed[1][ns] # suiteFeed[2][ns]}
  /\ UNCHANGED <<secretFeed, policyFeed, events, watcher, job, history, bounds>>

\* Mutant: the handler is not called.
SecretEvent_Ignored ==
  /\ ~Fresh(secretFeed)
  /\ secretFeed' = Tail(secretFeed)
  /\ UNCHANGED <<suiteFeed, policyFeed, events, watcher, queue, job, history, bounds>>

SecretEvent ==
  /\ ~Fresh(secretFeed)
  /\ secretFeed' = Tail(secretFeed)
  /\ LET created == {v \in Versions : secretFeed[1][v] = NoSecret /\ secretFeed[2][v] # NoSecret}
     IN  events' = events \o SetToSeq({secret \in {secretFeed[2][v] : v \in created} : isHelmRelease(secret)})
  /\ UNCHANGED <<suiteFeed, policyFeed, watcher, queue, job, history, bounds>>

PolicyEvent ==
  /\ ~Fresh(policyFeed)
  /\ policyFeed' = Tail(policyFeed)
  /\ UNCHANGED <<suiteFeed, secretFeed, events, watcher, queue, job, history, bounds>>

\* The watches begin with everything there is, as if it were new.
Restart ==
  /\ faults + restarts < MaxFaults
  /\ restarts' = restarts + 1
  /\ suiteFeed' = <<Suites>> /\ secretFeed' = <<Secrets>> /\ policyFeed' = <<Stored(policyFeed)>>
  /\ LET present == {v \in Versions : Secrets[v].status \notin {"none", "pruned"}}
     IN  events' = SetToSeq({secret \in {Secrets[v] : v \in present} : isHelmRelease(secret)})
  /\ queue' = Namespaces
  /\ watcher' = Idle /\ job' = Idle
  /\ UNCHANGED <<history, faults, edits>>

-----------------------------------------------------------------------------
(***************************************************************************)
(* The cluster: users, the suites' runs, and Helm, which creates a secret  *)
(* per version, changes its status, and prunes those it replaced.          *)
(***************************************************************************)
Others == UNCHANGED <<events, watcher, queue, job, noticed, faults, restarts>>

SpecEdited(ns, spec) ==
  /\ edits < MaxEdits
  /\ edits' = edits + 1
  /\ PublishSuite(ns, [Suites[ns] EXCEPT !.spec = spec])
  /\ UNCHANGED <<secretFeed, policyFeed, announced, exported>> /\ Others

PolicySet(policy) ==
  /\ edits < MaxEdits
  /\ edits' = edits + 1
  /\ policyFeed' = Publish(policyFeed, policy)
  /\ exported' = exported \cup ToSet(policy)
  /\ UNCHANGED <<suiteFeed, secretFeed, announced>> /\ Others

\* The TestSuite controller sets a suite Ready when its run is finished.
RunFinished(ns) ==
  /\ Suites[ns].phase = "Running"
  /\ PublishSuite(ns, [Suites[ns] EXCEPT !.phase = "Ready"])
  /\ UNCHANGED <<secretFeed, policyFeed, announced, exported, edits>> /\ Others

Becomes(v, kind, status) ==
  /\ secretFeed' = Publish(secretFeed, [Secrets EXCEPT ![v] = [kind |-> kind, status |-> status]])
  /\ UNCHANGED <<suiteFeed, policyFeed, exported, edits>> /\ Others

ReleaseCreated(v, kind) ==
  /\ Secrets[v] = NoSecret /\ \A u \in Versions : u < v => Secrets[u].status \notin {"none", "pending"}
  /\ announced' = IF CreatedAs[v] = "deployed" THEN announced \cup {v} ELSE announced
  /\ Becomes(v, kind, CreatedAs[v])

ReleaseEnded(v, status) ==
  /\ Secrets[v].status = "pending"
  /\ Becomes(v, Secrets[v].kind, status)
  /\ UNCHANGED announced

ReleaseSuperseded(v) ==
  /\ Secrets[v].status = "deployed"
  /\ \E u \in Versions : u > v /\ Secrets[u] = [kind |-> "helm", status |-> "deployed"]
  /\ Becomes(v, Secrets[v].kind, "superseded")
  /\ UNCHANGED announced

ReleasePruned(v) ==
  /\ Secrets[v].status = "superseded"
  /\ Becomes(v, Secrets[v].kind, "pruned")
  /\ UNCHANGED announced

Cluster ==
  \/ /\ Len(suiteFeed) <= MaxBehind
     /\ \E ns \in Namespaces : RunFinished(ns) \/ \E spec \in Specs : SpecEdited(ns, spec)
  \/ /\ Len(policyFeed) <= MaxBehind
     /\ \E policy \in Exports \cup {NoPolicy} : PolicySet(policy)
  \/ /\ Len(secretFeed) <= MaxBehind
     /\ \E v \in Versions :
          \/ \E kind \in Kinds : ReleaseCreated(v, kind)
          \/ ReleaseEnded(v, "deployed") \/ ReleaseEnded(v, "failed")
          \/ ReleaseSuperseded(v) \/ ReleasePruned(v)

-----------------------------------------------------------------------------
Init ==
  /\ \E spec \in InitialSpecs : suiteFeed = <<[ns \in Namespaces |-> NewSuite(spec[ns])]>>
  /\ secretFeed = <<[v \in Versions |-> NoSecret]>>
  /\ policyFeed = <<NoPolicy>>
  /\ events = <<>>
  /\ watcher = Idle /\ job = Idle
  /\ queue = Namespaces
  /\ noticed = [ns \in Namespaces |-> 0]
  /\ announced = {} /\ exported = {}
  /\ faults = 0 /\ restarts = 0 /\ edits = 0

Next ==
  \/ Create \/ handle
  \/ Controller
  \/ SuiteEvent \/ SecretEvent \/ PolicyEvent \/ Restart
  \/ Cluster

Spec == Init /\ [][Next]_vars

-----------------------------------------------------------------------------
(***************************************************************************)
(* What the watcher and the controller promise together, with caches of    *)
(* any age.                                                                *)
(***************************************************************************)
Quiescent ==
  /\ job = Idle /\ queue = {} /\ watcher = Idle /\ events = <<>>
  /\ Fresh(suiteFeed) /\ Fresh(secretFeed) /\ Fresh(policyFeed)

\* A suite of another namespace is triggered by the release only if a policy
\* once named its namespace, and the handler finds it for its queue only if one
\* named it or all namespaces.
ExportedOnly ==
  \A ns \in Namespaces \ {Home} :
    /\ noticed[ns] # 0 => ns \in exported
    /\ watcher # Idle /\ ns \in watcher.found => {ns, "*"} \cap exported # {}

\* A suite is never triggered by an older version than before, although the one
\* that is replaced and the one that replaces it may both be deployed, and the
\* copies that are read may be old.
NeverBackwards == [][\A ns \in Namespaces : noticed'[ns] >= noticed[ns]]_vars

\* With no work left, and no call failed, the label follows the spec through
\* every edit, unless the server would refuse it.
LabelConverged ==
  Quiescent /\ faults = 0 =>
    \A ns \in Namespaces : LET suite == Suites[ns]
                           IN  suite.spec # <<>> /\ IsLabel(HelmLabel(ns, suite.spec))
                                 => suite.label = HelmLabel(ns, suite.spec)

\* With no work left, and no call failed, a suite of the release's namespace is
\* not left waiting for any of these versions.
Awaited(versions) ==
  Quiescent /\ faults = 0 =>
    \A ns \in Namespaces, v \in versions :
      LET suite == Suites[ns]
      IN  /\ suite.phase = "Ready" /\ suite.spec = <<Release>> /\ ns = Home
          /\ Secrets[v] = [kind |-> "helm", status |-> "deployed"]
          => noticed[ns] >= v

\* A release whose secret is created as deployed is noticed, whether the suite
\* had its label by then or not.
CreatedNoticed == Awaited(announced)

-----------------------------------------------------------------------------
(***************************************************************************)
(* Statements of the repository that the code does not keep.               *)
(***************************************************************************)

\* "It only responds to Create and Update events" (EnqueueForHelmTrigger): a
\* release is noticed, too, when its secret is updated to deployed.
ReleaseNoticed == Awaited(Versions)

\* "the HelmPolicy exports to all namespaces ... it should trigger a run"
\* (testsuite_controller_test.go), and to the suite's own namespace: a suite of
\* another namespace is not left waiting for a release that is exported to it.
ExportedNoticed ==
  Quiescent /\ faults = 0 =>
    \A ns \in Namespaces \ {Home}, v \in announced :
      /\ Suites[ns].phase = "Ready" /\ Suites[ns].spec = <<Home, "/", Release>>
      /\ Stored(policyFeed) = <<"*">> \/ ns \in ToSet(Stored(policyFeed))
      /\ Secrets[v] = [kind |-> "helm", status |-> "deployed"]
      => noticed[ns] >= v
=============================================================================

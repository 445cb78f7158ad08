------------------------- MODULE HelmWatcherProofs -------------------------
(***************************************************************************)
(* What HelmWatcher promises, for any number of namespaces and versions,   *)
(* any age of the caches and any number of failures and edits.             *)
(***************************************************************************)
EXTENDS HelmWatcher, KubeApiProofs, FiniteSetTheorems

(***************************************************************************)
(* Two facts about finite sets that the model's operators rest on.         *)
(***************************************************************************)

\* Created secrets are handed to the handler one by one, and none is lost.
LEMMA SeqOfSet ==
  ASSUME NEW S, IsFiniteSet(S)
  PROVE  /\ SetToSeq(S) \in Seq(S)
         /\ ToSet(SetToSeq(S)) = S
<1> DEFINE n == Cardinality(S)
<1>1. n \in Nat /\ ExistsBijection(1..n, S)
  BY FS_CardinalityType
<1>2. PICK g \in [1..n -> S] : IsInjective(g) /\ \A y \in S : \E x \in 1..n : g[x] = y
  BY <1>1 DEF ExistsBijection, Bijection, Injection, Surjection, IsInjective
<1> DEFINE f == SetToSeq(S)
<1>3. f \in [1..n -> S] /\ IsInjective(f)
  BY <1>2 DEF SetToSeq
<1> DEFINE T == {f[x] : x \in 1..n}
<1>4. f \in Bijection(1..n, T)
  BY <1>3 DEF Bijection, Injection, Surjection, IsInjective
<1>5. Cardinality(T) = n
  BY <1>1, <1>4, FS_CountingElements DEF ExistsBijection
<1>6. T = S
  BY <1>3, <1>5, FS_Subset
<1>7. \A y \in S : \E x \in 1..n : f[x] = y
  BY <1>6
<1>8. DOMAIN f = 1..n /\ f \in Seq(S)
  BY <1>1, <1>3
<1> HIDE DEF f, n
<1> QED
  BY <1>3, <1>7, <1>8 DEF ToSet, f

\* A finite set of versions has a newest one.
LEMMA MaxOfSet ==
  ASSUME NEW S \in SUBSET Nat, IsFiniteSet(S), S # {}
  PROVE  Max(S) \in S /\ \A x \in S : Max(S) >= x
<1> DEFINE Above(y) == {x \in S : x > y}
           Count == {Cardinality(Above(y)) : y \in S}
<1>1. \A y \in S : IsFiniteSet(Above(y)) /\ Cardinality(Above(y)) \in Nat
  BY FS_Subset, FS_CardinalityType
<1>2. Count \subseteq Nat /\ Count # {}
  BY <1>1
<1>3. PICK c \in Count : \A d \in Count : ~(<<d, c>> \in OpToRel(<, Nat))
  BY <1>2, NatLessThanWellFounded, WFMin
<1>4. PICK m \in S : c = Cardinality(Above(m))
  OBVIOUS
<1>5. \A y \in S : ~(Cardinality(Above(y)) < Cardinality(Above(m)))
  <2> SUFFICES ASSUME NEW y \in S, Cardinality(Above(y)) < Cardinality(Above(m)) PROVE FALSE
    OBVIOUS
  <2> DEFINE d == Cardinality(Above(y))
  <2>1. d \in Count /\ d \in Nat /\ c \in Nat /\ d < c
    BY <1>1, <1>4
  <2> HIDE DEF d, Count
  <2>2. <<d, c>> \in OpToRel(<, Nat)
    BY <2>1 DEF OpToRel
  <2> QED
    BY <1>3, <2>1, <2>2
<1>6. ASSUME NEW x \in S, x > m PROVE FALSE
  <2>1. /\ \A z \in S : z > x => z > m
        /\ ~(x > x)
    <3> HIDE DEF Count
    <3>1. x \in Nat /\ m \in Nat /\ \A z \in S : z \in Nat
      OBVIOUS
    <3> QED
      BY <1>6, <3>1
  <2>2. Above(x) \subseteq Above(m) /\ x \in Above(m) /\ x \notin Above(x)
    BY <1>6, <2>1
  <2>3. Cardinality(Above(x)) < Cardinality(Above(m))
    BY <1>1, <2>2, FS_Subset
  <2> QED
    BY <1>5, <2>3
<1>7. \A x \in S : m >= x
  BY <1>6
<1> QED
  BY <1>7 DEF Max

-----------------------------------------------------------------------------
(***************************************************************************)
(* The invariants.                                                         *)
(***************************************************************************)
Labels == {<<>>} \cup {HelmLabel(ns, spec) : ns \in Namespaces, spec \in Specs}
SuiteSet == [spec : Specs, label : Labels, last : {Unrecorded, Empty}, phase : {"Ready", "Running"}]
SecretSet == [kind : {"none", "helm", "unlabelled", "opaque"},
              status : {"none", "pending", "deployed", "failed", "superseded", "pruned"}]
Calls == [step : {"own", "policy", "all", "export"}, found : SUBSET Namespaces, todo : Seq(STRING)]
Jobs == [step : {"label", "policy", "list", "annotate", "trigger"}, ns : Namespaces,
         suite : SuiteSet, base : SuiteSet, version : Versions \cup {0}]

\* What the variables hold.
Shape ==
  /\ suiteFeed \in Seq([Namespaces -> SuiteSet]) /\ suiteFeed # <<>>
  /\ secretFeed \in Seq([Versions -> SecretSet]) /\ secretFeed # <<>>
  /\ policyFeed \in Seq(Exports \cup {NoPolicy}) /\ policyFeed # <<>>
  /\ events \in Seq(SecretSet)
  /\ watcher \in Calls \cup {Idle}
  /\ watcher.step = "all" => watcher.found = {}
  /\ queue \subseteq Namespaces
  /\ job \in Jobs \cup {Idle}
  /\ noticed \in [Namespaces -> Versions \cup {0}]
  /\ announced \subseteq Versions
  /\ faults \in Nat /\ restarts \in Nat

(***************************************************************************)
(* For ExportedOnly: whatever policy is read was once set, and what was    *)
(* read is remembered rightly on the way to the queue and to the trigger.  *)
(***************************************************************************)
Allowed(ns) == ns = Home \/ ns \in exported
Reachable(ns) == ns = Home \/ {ns, "*"} \cap exported # {}

KnownPolicies ==
  \A k \in 1..Len(policyFeed) : policyFeed[k] = NoPolicy \/ ToSet(policyFeed[k]) \subseteq exported

CallEntitled ==
  watcher # Idle =>
    /\ \A ns \in watcher.found : Reachable(ns)
    /\ watcher.step = "all" => "*" \in exported
    /\ ToSet(watcher.todo) \subseteq exported

JobEntitled ==
  /\ job.step = "list" /\ Observed(job.ns, job.suite.spec) = <<<<Home>>, <<Release>>>> => Allowed(job.ns)
  /\ job.step \in {"annotate", "trigger"} => Allowed(job.ns)

NoticedEntitled == \A ns \in Namespaces : noticed[ns] # 0 => Allowed(ns)

Entitled == KnownPolicies /\ CallEntitled /\ JobEntitled /\ NoticedEntitled

(***************************************************************************)
(* For NeverBackwards: a deployed version goes only where a newer one is   *)
(* deployed, so every state of the feed has one at least as new as any     *)
(* before it, as any that is being acted on, and as any that was noticed.  *)
(***************************************************************************)
Deployed(secrets) == {v \in Versions : secrets[v].status = "deployed" /\ ParseHelmReleaseSecret(secrets[v])}
Covers(secrets, v) == \E u \in Deployed(secrets) : u >= v

Held(v) == \A k \in 1..Len(secretFeed) : Covers(secretFeed[k], v)

FeedRises ==
  \A i, k \in 1..Len(secretFeed) :
    i <= k => \A v \in Deployed(secretFeed[i]) : Covers(secretFeed[k], v)

NoticedHeld == \A ns \in Namespaces : noticed[ns] # 0 => Held(noticed[ns])

JobHeld == job.step \in {"annotate", "trigger"} => job.version >= noticed[job.ns] /\ Held(job.version)

Rising == FeedRises /\ NoticedHeld /\ JobHeld

(***************************************************************************)
(* For LabelConverged: a suite whose label does not follow its spec is     *)
(* queued, has events to come, or is about to be labelled.                 *)
(***************************************************************************)
Behind(ns) == \E k \in 1..Len(suiteFeed) : suiteFeed[k][ns] # Suites[ns]
Due(ns) == ns \in queue \/ Behind(ns)

Unlabelled(ns) == NeedsLabel(ns, Suites[ns]) /\ IsLabel(HelmLabel(ns, Suites[ns].spec))

Labelling(ns) == job.step = "label" /\ job.ns = ns /\ job.suite = Suites[ns]

Labelled == faults = 0 => \A ns \in Namespaces : Unlabelled(ns) => Due(ns) \/ Labelling(ns)

(***************************************************************************)
(* For CreatedNoticed: a secret that was created as deployed and still is  *)
(* was so in every copy that has it, and a suite it was not noticed for is *)
(* queued, has events to come, is worked on from a current copy, or the    *)
(* handler has not come to it yet.                                         *)
(***************************************************************************)
DeployedSecret == [kind |-> "helm", status |-> "deployed"]

Steady ==
  \A v \in Versions :
    /\ Secrets[v] = NoSecret => \A k \in 1..Len(secretFeed) : secretFeed[k][v] = NoSecret
    /\ v \in announced =>
         /\ Secrets[v].status \in {"deployed", "superseded", "pruned"}
         /\ Secrets[v].status = "deployed" =>
              \A k \in 1..Len(secretFeed) : secretFeed[k][v] \in {NoSecret, Secrets[v]}

Overlooked(v) ==
  /\ v \in announced /\ Secrets[v] = DeployedSecret
  /\ Suites[Home].phase = "Ready" /\ Suites[Home].spec = <<Release>>
  /\ ~(noticed[Home] >= v)

Coming(v) ==
  \/ \E k \in 1..Len(secretFeed) : secretFeed[k][v] = NoSecret
  \/ DeployedSecret \in ToSet(events)
  \/ watcher.step = "own"
  \/ watcher # Idle /\ Home \in watcher.found

Worked(v) ==
  /\ job # Idle
  /\ job.ns = Home /\ job.suite = Suites[Home]
  /\ \/ job.step \in {"label", "list"}
     \/ job.step \in {"annotate", "trigger"} /\ job.version >= v

Pursued ==
  faults = 0 => \A v \in Versions : Overlooked(v) => Due(Home) \/ Coming(v) \/ Worked(v)

-----------------------------------------------------------------------------
(***************************************************************************)
(* Writing suites and secrets.                                             *)
(***************************************************************************)

\* What a suite is made of.
LEMMA SuiteFields ==
  ASSUME NEW suite \in SuiteSet
  PROVE  /\ suite.spec \in Specs /\ suite.label \in Labels
         /\ suite.last \in {Unrecorded, Empty} /\ suite.phase \in {"Ready", "Running"}
         /\ Exists(suite)
  BY DEF SuiteSet, Exists

\* The changes that are made to a suite leave a suite.
LEMMA SuiteChanges ==
  ASSUME NEW suite \in SuiteSet
  PROVE  /\ \A x \in Labels : [suite EXCEPT !.label = x] \in SuiteSet
         /\ \A x \in Specs : [suite EXCEPT !.spec = x] \in SuiteSet
         /\ [suite EXCEPT !.last = Empty] \in SuiteSet
         /\ \A x \in {"Ready", "Running"} : [suite EXCEPT !.phase = x] \in SuiteSet
  BY DEF SuiteSet

\* Suites are not removed, so a patch of one is applied or fails.
LEMMA SuitePatch ==
  ASSUME NEW stored \in SuiteSet, NEW new \in SuiteSet, NEW out \in Patch(stored, new)
  PROVE  /\ out.obj \in {stored, new} /\ out.obj \in SuiteSet
         /\ out.res \in {"OK", "Error"}
         /\ out.res = "OK" => out.obj = new
  BY SuiteFields DEF Patch

\* The cached and the stored states are states of the feeds.
LEMMA Copies ==
  ASSUME Shape
  PROVE  /\ 1 \in 1..Len(suiteFeed) /\ Cached(suiteFeed) = suiteFeed[1]
         /\ Cached(suiteFeed) \in [Namespaces -> SuiteSet]
         /\ Suites \in [Namespaces -> SuiteSet]
         /\ 1 \in 1..Len(secretFeed) /\ Cached(secretFeed) = secretFeed[1]
         /\ Len(secretFeed) \in 1..Len(secretFeed) /\ Secrets = secretFeed[Len(secretFeed)]
         /\ Cached(secretFeed) \in [Versions -> SecretSet]
         /\ Secrets \in [Versions -> SecretSet]
         /\ \A k \in 1..Len(secretFeed) : secretFeed[k] \in [Versions -> SecretSet]
         /\ 1 \in 1..Len(policyFeed) /\ Cached(policyFeed) = policyFeed[1]
         /\ Cached(policyFeed) \in Exports \cup {NoPolicy}
         /\ Stored(policyFeed) \in Exports \cup {NoPolicy}
         /\ \E k \in 1..Len(policyFeed) : Stored(policyFeed) = policyFeed[k]
<1>1. /\ Len(suiteFeed) \in Nat \ {0} /\ Cached(suiteFeed) = suiteFeed[1]
      /\ Cached(suiteFeed) \in [Namespaces -> SuiteSet]
      /\ Suites \in [Namespaces -> SuiteSet]
  BY FeedStates DEF Shape, Suites
<1>2. /\ Len(secretFeed) \in Nat \ {0} /\ Cached(secretFeed) = secretFeed[1]
      /\ Cached(secretFeed) \in [Versions -> SecretSet]
      /\ Secrets = secretFeed[Len(secretFeed)] /\ Secrets \in [Versions -> SecretSet]
  BY FeedStates DEF Shape, Secrets
<1>3. \A k \in 1..Len(secretFeed) : secretFeed[k] \in [Versions -> SecretSet]
  BY ElementOfSeq DEF Shape
<1>4. /\ Len(policyFeed) \in Nat \ {0} /\ Cached(policyFeed) = policyFeed[1]
      /\ Cached(policyFeed) \in Exports \cup {NoPolicy}
      /\ Stored(policyFeed) = policyFeed[Len(policyFeed)]
      /\ Stored(policyFeed) \in Exports \cup {NoPolicy}
  BY FeedStates DEF Shape
<1> QED
  BY <1>1, <1>2, <1>3, <1>4

\* A write of one suite leaves the others, and is an event to come if it changes
\* anything; events that were to come still are.
LEMMA SuiteWritten ==
  ASSUME Shape, NEW ns \in Namespaces, NEW suite \in SuiteSet, PublishSuite(ns, suite)
  PROVE  /\ suiteFeed' \in Seq([Namespaces -> SuiteSet]) /\ suiteFeed' # <<>>
         /\ Suites' = [Suites EXCEPT ![ns] = suite]
         /\ \A m \in Namespaces : Behind(m) => Behind(m)'
         /\ suite # Suites[ns] => Behind(ns)'
<1> DEFINE new == [Suites EXCEPT ![ns] = suite]
<1>1. Suites \in [Namespaces -> SuiteSet] /\ new \in [Namespaces -> SuiteSet]
  BY Copies
<1>2. suiteFeed' = Publish(suiteFeed, new)
  BY DEF PublishSuite
<1> HIDE DEF new
<1>3. /\ suiteFeed' \in Seq([Namespaces -> SuiteSet]) /\ suiteFeed' # <<>>
      /\ Suites' = new
  <2>1. suiteFeed \in Seq([Namespaces -> SuiteSet]) /\ suiteFeed # <<>>
    BY DEF Shape
  <2>2. /\ Publish(suiteFeed, new) \in Seq([Namespaces -> SuiteSet]) /\ Publish(suiteFeed, new) # <<>>
        /\ Stored(Publish(suiteFeed, new)) = new
    BY <1>1, <2>1, PublishStates
  <2> QED
    BY <1>2, <2>2 DEF Suites
<1>4. \A k \in 1..Len(suiteFeed) : k \in 1..Len(suiteFeed') /\ suiteFeed'[k] = suiteFeed[k]
  <2>1. suiteFeed \in Seq([Namespaces -> SuiteSet])
    BY DEF Shape
  <2> QED
    BY <1>2, <2>1, PublishExtends
<1>5. \E k \in 1..Len(suiteFeed) : Suites = suiteFeed[k]
  BY FeedStates DEF Shape, Suites
<1>6. \A m \in Namespaces : m # ns => new[m] = Suites[m]
  BY <1>1 DEF new
<1>7. new[ns] = suite
  BY <1>1 DEF new
<1>8. suite # Suites[ns] => Behind(ns)'
  BY <1>3, <1>4, <1>5, <1>7 DEF Behind
<1>9. suite = Suites[ns] => new = Suites
  BY <1>1 DEF new
<1>10. \A m \in Namespaces : Behind(m) => Behind(m)'
  BY <1>3, <1>4, <1>6, <1>8, <1>9 DEF Behind
<1> QED
  BY <1>3, <1>8, <1>10 DEF new

\* Where no suite is written, suites are as far behind as before.
LEMMA SuitesKept ==
  ASSUME UNCHANGED suiteFeed
  PROVE  Suites' = Suites /\ \A m : Behind(m)' <=> Behind(m)
  BY DEF Suites, Behind

\* A secret's change adds one state to the feed.
LEMMA SecretWritten ==
  ASSUME Shape, NEW v \in Versions, NEW secret \in SecretSet,
         secretFeed' = Publish(secretFeed, [Secrets EXCEPT ![v] = secret])
  PROVE  /\ secretFeed' \in Seq([Versions -> SecretSet]) /\ secretFeed' # <<>>
         /\ Secrets' = [Secrets EXCEPT ![v] = secret]
         /\ \A k \in 1..Len(secretFeed) : k \in 1..Len(secretFeed') /\ secretFeed'[k] = secretFeed[k]
         /\ \A k \in 1..Len(secretFeed') :
              k \in 1..Len(secretFeed) \/ (k = Len(secretFeed) + 1 /\ secretFeed'[k] = Secrets')
<1> DEFINE new == [Secrets EXCEPT ![v] = secret]
<1>1. new \in [Versions -> SecretSet]
  BY Copies
<1> HIDE DEF new
<1>2. secretFeed' = Publish(secretFeed, new)
  BY DEF new
<1>3. /\ secretFeed' \in Seq([Versions -> SecretSet]) /\ secretFeed' # <<>>
      /\ Secrets' = new
  <2>1. secretFeed \in Seq([Versions -> SecretSet]) /\ secretFeed # <<>>
    BY DEF Shape
  <2>2. /\ Publish(secretFeed, new) \in Seq([Versions -> SecretSet]) /\ Publish(secretFeed, new) # <<>>
        /\ Stored(Publish(secretFeed, new)) = new
    BY <1>1, <2>1, PublishStates
  <2> QED
    BY <1>2, <2>2 DEF Secrets
<1>4. /\ \A k \in 1..Len(secretFeed) : k \in 1..Len(secretFeed') /\ secretFeed'[k] = secretFeed[k]
      /\ \A k \in 1..Len(secretFeed') :
           k \in 1..Len(secretFeed) \/ (k = Len(secretFeed) + 1 /\ secretFeed'[k] = new)
  <2>1. secretFeed \in Seq([Versions -> SecretSet])
    BY DEF Shape
  <2> DEFINE feed == Publish(secretFeed, new)
  <2>2. /\ \A k \in 1..Len(secretFeed) : k \in 1..Len(feed) /\ feed[k] = secretFeed[k]
        /\ \A k \in 1..Len(feed) :
             k \in 1..Len(secretFeed) \/ (k = Len(secretFeed) + 1 /\ feed[k] = new)
    BY <2>1, PublishExtends
  <2> QED
    BY <1>2, <2>2
<1> QED
  BY <1>3, <1>4 DEF new

\* The elements of a sequence are its first and those of the rest.
LEMMA HeadAndTail ==
  ASSUME NEW S, NEW s \in Seq(S), s # <<>>
  PROVE  /\ Head(s) \in S /\ Tail(s) \in Seq(S)
         /\ Head(s) \in ToSet(s) /\ ToSet(Tail(s)) \subseteq ToSet(s)
         /\ ToSet(s) \subseteq {Head(s)} \cup ToSet(Tail(s))
<1>1. /\ Head(s) \in S /\ Head(s) = s[1] /\ Tail(s) \in Seq(S) /\ Len(Tail(s)) = Len(s) - 1
      /\ \A k \in 1..Len(Tail(s)) : Tail(s)[k] = s[k + 1]
  BY HeadTailProperties, EmptySeq, ElementOfSeq
<1>2. Len(s) \in Nat /\ Len(s) # 0 /\ DOMAIN s = 1..Len(s) /\ DOMAIN Tail(s) = 1..Len(Tail(s))
  BY <1>1, EmptySeq
<1>3. Head(s) \in ToSet(s)
  BY <1>1, <1>2 DEF ToSet
<1>4. ASSUME NEW x \in ToSet(Tail(s)) PROVE x \in ToSet(s)
  <2>1. PICK k \in 1..Len(Tail(s)) : x = Tail(s)[k]
    BY <1>2 DEF ToSet
  <2>2. k + 1 \in 1..Len(s) /\ x = s[k + 1]
    BY <1>1, <1>2, <2>1
  <2> QED
    BY <1>2, <2>2 DEF ToSet
<1>5. ASSUME NEW x \in ToSet(s) PROVE x = Head(s) \/ x \in ToSet(Tail(s))
  <2>1. PICK k \in 1..Len(s) : x = s[k]
    BY <1>2 DEF ToSet
  <2>2. CASE k = 1
    BY <1>1, <2>1, <2>2
  <2>3. CASE k # 1
    <3>1. k - 1 \in 1..Len(Tail(s)) /\ x = Tail(s)[k - 1]
      BY <1>1, <1>2, <2>1, <2>3
    <3> QED
      BY <1>2, <3>1 DEF ToSet
  <2> QED
    BY <2>2, <2>3
<1> QED
  BY <1>1, <1>3, <1>4, <1>5

\* The handler gets every secret that was created, unless it is not of Helm's type.
LEMMA HandedOver ==
  ASSUME NEW secrets \in [Versions -> SecretSet], NEW V \in SUBSET Versions
  PROVE  LET handed == {secret \in {secrets[v] : v \in V} : isHelmRelease(secret)}
         IN  SetToSeq(handed) \in Seq(SecretSet) /\ ToSet(SetToSeq(handed)) = handed
<1> DEFINE all == {secrets[v] : v \in V}
           handed == {secret \in all : isHelmRelease(secret)}
<1>1. IsFiniteSet(V)
  BY ConstantsAssumption, FS_Subset
<1>2. [v \in V |-> secrets[v]] \in Surjection(V, all)
  BY DEF Surjection
<1>3. IsFiniteSet(all)
  BY <1>1, <1>2, FS_Surjection
<1>4. IsFiniteSet(handed)
  BY <1>3, FS_Subset
<1>5. handed \subseteq SecretSet
  OBVIOUS
<1> HIDE DEF handed
<1>6. SetToSeq(handed) \in Seq(handed) /\ ToSet(SetToSeq(handed)) = handed
  BY <1>4, SeqOfSet
<1>7. SetToSeq(handed) \in Seq(SecretSet)
  BY <1>5, <1>6
<1> QED
  BY <1>6, <1>7 DEF handed

\* What joined sequences hold.
LEMMA Joined ==
  ASSUME NEW S, NEW s \in Seq(S), NEW t \in Seq(S)
  PROVE  s \o t \in Seq(S) /\ ToSet(s \o t) = ToSet(s) \cup ToSet(t)
<1>1. s \o t \in Seq(S) /\ Range(s \o t) = Range(s) \cup Range(t)
  BY ConcatProperties, RangeConcatenation
<1>2. \A u : Range(u) = ToSet(u)
  BY DEF Range, ToSet
<1> QED
  BY <1>1, <1>2

\* A reconcile that goes on from a suite is at the list or at the policy.
LEMMA GoesOn ==
  ASSUME NEW ns \in Namespaces, NEW suite \in SuiteSet
  PROVE  /\ notRunning(ns, suite) \in Jobs \cup {Idle}
         /\ notRunning(ns, suite) # Idle =>
              /\ notRunning(ns, suite).step = IF IsForeign(suite.spec) THEN "policy" ELSE "list"
              /\ notRunning(ns, suite).ns = ns /\ notRunning(ns, suite).suite = suite
         /\ suite.phase # "Running" /\ suite.spec # <<>> => notRunning(ns, suite) # Idle
<1>1. \A step \in {"policy", "list"} :
        /\ At(step, ns, suite) \in Jobs /\ At(step, ns, suite) # Idle
        /\ At(step, ns, suite).step = step
        /\ At(step, ns, suite).ns = ns /\ At(step, ns, suite).suite = suite
  BY DEF At, Jobs, Idle
<1> QED
  BY <1>1 DEF notRunning

-----------------------------------------------------------------------------
(***************************************************************************)
(* Shape is an invariant.                                                  *)
(***************************************************************************)
\* The initial states have the shape.
LEMMA ShapeFirst == Init => Shape
<1> SUFFICES ASSUME Init PROVE Shape
  OBVIOUS
<1>1. PICK spec \in InitialSpecs : suiteFeed = <<[ns \in Namespaces |-> NewSuite(spec[ns])]>>
  BY DEF Init
<1>2. [ns \in Namespaces |-> NewSuite(spec[ns])] \in [Namespaces -> SuiteSet]
  BY ConstantsAssumption DEF NewSuite, SuiteSet, Labels
<1>3. suiteFeed \in Seq([Namespaces -> SuiteSet]) /\ suiteFeed # <<>>
  BY <1>1, <1>2, RestartStates
<1>4. [v \in Versions |-> NoSecret] \in [Versions -> SecretSet]
  BY DEF NoSecret, SecretSet
<1>5. secretFeed \in Seq([Versions -> SecretSet]) /\ secretFeed # <<>>
  BY <1>4, RestartStates DEF Init
<1>6. policyFeed \in Seq(Exports \cup {NoPolicy}) /\ policyFeed # <<>>
  BY RestartStates DEF Init
<1> QED
  BY <1>3, <1>5, <1>6 DEF Init, Shape, Idle

\* The handler's steps keep the shape of its call.
LEMMA ShapeOfWatcher ==
  ASSUME Shape, Create \/ handle
  PROVE  Shape'
<1> USE DEF Shape
<1>1. watcher \in Calls \/ watcher = Idle
  OBVIOUS
<1>2. watcher.step # "idle" => watcher \in Calls
  BY <1>1 DEF Idle
<1>3. \A step \in {"own", "policy", "all", "export"}, found \in SUBSET Namespaces, todo \in Seq(STRING) :
        Calling(step, found, todo) \in Calls
        /\ Calling(step, found, todo).step = step /\ Calling(step, found, todo).found = found
  BY DEF Calling, Calls
<1>4. <<>> \in Seq(STRING) /\ {} \in SUBSET Namespaces /\ Home \in Namespaces
  BY ConstantsAssumption
<1>5. Idle.step = "idle"
  BY DEF Idle
<1>6. Fault => faults' \in Nat
  BY DEF Fault
<1>7. CASE Create
  <2>1. Tail(events) \in Seq(SecretSet)
    BY <1>7, HeadAndTail DEF Create
  <2> QED
    BY <1>3, <1>4, <1>5, <1>7, <2>1 DEF Create, Watching, caches, history
<1>8. CASE ListOwn
  <2> DEFINE own == {ns \in {Home} : Subscribed(ns)}
             call == Calling("policy", own, <<>>)
  <2>1. own \in SUBSET Namespaces
    BY <1>4
  <2>2. call \in Calls /\ call.step = "policy"
    <3> HIDE DEF own
    <3> QED
      BY <1>4, <2>1 DEF Calling, Calls
  <2>3. \/ watcher' = call /\ UNCHANGED faults
        \/ watcher' = Idle /\ Fault
    BY <1>8 DEF ListOwn, Found, Fails
  <2> HIDE DEF call
  <2> QED
    BY <1>5, <1>6, <1>8, <2>2, <2>3 DEF ListOwn, Watching, caches, history
<1>9. CASE Enqueue
  <2>1. watcher \in Calls
    BY <1>1, <1>9 DEF Enqueue
  <2>2. \A ns : [watcher EXCEPT !.found = @ \ {ns}] \in Calls
    BY <2>1 DEF Calls
  <2>3. \A ns : /\ [watcher EXCEPT !.found = @ \ {ns}].step = watcher.step
                /\ [watcher EXCEPT !.found = @ \ {ns}].found = watcher.found \ {ns}
    BY <2>1 DEF Calls
  <2>4. watcher.found \subseteq Namespaces
    BY <2>1 DEF Calls
  <2> QED
    BY <1>9, <2>2, <2>3, <2>4 DEF Enqueue, Watching, caches, history
<1>10. CASE GetPolicy
  <2>1. Cached(policyFeed) # NoPolicy => Cached(policyFeed) \in Seq(STRING)
    BY Copies, ConstantsAssumption
  <2> DEFINE all == Calling("all", {}, <<>>)
             some == Calling("export", {}, Cached(policyFeed))
  <2>2. all \in Calls /\ all.found = {}
    BY <1>3, <1>4
  <2>3. Cached(policyFeed) # NoPolicy => some \in Calls /\ some.found = {}
    BY <1>3, <1>4, <2>1
  <2>4. \/ watcher' \in {Idle, all} /\ UNCHANGED faults
        \/ Cached(policyFeed) # NoPolicy /\ watcher' = some /\ UNCHANGED faults
        \/ watcher' = Idle /\ Fault
    BY <1>10 DEF GetPolicy, Fails
  <2> HIDE DEF all, some
  <2> QED
    BY <1>5, <1>6, <1>10, <2>2, <2>3, <2>4 DEF GetPolicy, Watching, caches, history
<1>11. CASE ListAll
  <2> DEFINE others == {ns \in Namespaces \ {Home} : Subscribed(ns)}
             call == Calling("export", others, <<>>)
  <2>1. others \in SUBSET Namespaces
    OBVIOUS
  <2>2. call \in Calls /\ call.step = "export"
    <3> HIDE DEF others
    <3> QED
      BY <1>4, <2>1 DEF Calling, Calls
  <2>3. watcher' \in {call, Idle} /\ UNCHANGED faults
    BY <1>11 DEF ListAll, Found
  <2> HIDE DEF call
  <2> QED
    BY <1>5, <1>11, <2>2, <2>3 DEF ListAll, Watching, caches, history
<1>12. CASE ListExported
  <2>1. watcher.todo \in Seq(STRING)
    BY <1>2, <1>12 DEF ListExported, Calls
  <2>2. Tail(watcher.todo) \in Seq(STRING)
    BY <1>12, <2>1, HeadAndTail DEF ListExported
  <2> QED
    BY <1>3, <1>4, <1>5, <1>6, <1>12, <2>2 DEF ListExported, Watching, caches, history, Found, Fails
<1>13. CASE Returned
  BY <1>5, <1>13 DEF Returned, Watching, caches, history
<1> QED
  BY <1>7, <1>8, <1>9, <1>10, <1>11, <1>12, <1>13 DEF handle

\* So do the controller's steps and the job.
LEMMA ShapeOfController ==
  ASSUME Shape, Controller
  PROVE  Shape'
<1> USE DEF Shape
<1>1. job.step # "idle" => job \in Jobs
  BY DEF Idle
<1>2. job \in Jobs => job.ns \in Namespaces /\ job.suite \in SuiteSet /\ job.version \in Versions \cup {0}
  BY DEF Jobs
<1>3. Suites \in [Namespaces -> SuiteSet]
  BY Copies
<1>4. Retry /\ job \in Jobs => job' = Idle /\ queue' \subseteq Namespaces
  BY <1>2 DEF Retry
<1>5. Fault => faults' \in Nat
  BY DEF Fault
<1>6. \A res : Answer(res) => faults' \in Nat
  BY <1>5 DEF Answer
<1>7. CASE Reconcile
  <2>1. PICK ns \in queue :
          /\ queue' = queue \ {ns}
          /\ job' = IF NeedsLabel(ns, Cached(suiteFeed)[ns]) THEN At("label", ns, Cached(suiteFeed)[ns])
                    ELSE notRunning(ns, Cached(suiteFeed)[ns])
    BY <1>7 DEF Reconcile
  <2>2. ns \in Namespaces /\ Cached(suiteFeed)[ns] \in SuiteSet
    BY Copies
  <2>3. At("label", ns, Cached(suiteFeed)[ns]) \in Jobs
    BY <2>2 DEF At, Jobs
  <2>4. job' \in Jobs \cup {Idle}
    BY <2>1, <2>2, <2>3, GoesOn
  <2> QED
    BY <1>7, <2>1, <2>4 DEF Reconcile, Locally
<1>8. CASE PatchLabel
  <2> DEFINE stored == Suites[job.ns]
             label == HelmLabel(job.ns, job.suite.spec)
  <2>1. PICK out \in IF IsLabel(label) THEN Patch(stored, [stored EXCEPT !.label = label])
                     ELSE {[obj |-> stored, res |-> "Invalid"]} :
          /\ Answer(out.res)
          /\ PublishSuite(job.ns, out.obj)
          /\ job' = notRunning(job.ns, IF out.res = "OK" THEN out.obj ELSE job.suite)
    BY <1>8 DEF PatchLabel
  <2>2. job.ns \in Namespaces /\ stored \in SuiteSet /\ job.suite \in SuiteSet
    BY <1>1, <1>2, <1>3, <1>8 DEF PatchLabel
  <2>3. label \in Labels
    BY <2>2, SuiteFields DEF Labels
  <2>4. [stored EXCEPT !.label = label] \in SuiteSet
    BY <2>2, <2>3, SuiteChanges
  <2> HIDE DEF stored, label
  <2>5. out.obj \in SuiteSet
    BY <2>1, <2>2, <2>4, SuitePatch
  <2>6. job' \in Jobs \cup {Idle}
    BY <2>1, <2>2, <2>5, GoesOn
  <2>7. suiteFeed' \in Seq([Namespaces -> SuiteSet]) /\ suiteFeed' # <<>>
    BY <2>1, <2>2, <2>5, SuiteWritten
  <2> QED
    BY <1>6, <1>8, <2>1, <2>6, <2>7 DEF PatchLabel, Locally
<1>9. CASE CheckPolicy
  <2>1. job \in Jobs
    BY <1>1, <1>9 DEF CheckPolicy
  <2>2. [job EXCEPT !.step = "list"] \in Jobs
    BY <2>1 DEF Jobs
  <2> QED
    BY <1>4, <1>5, <1>9, <2>1, <2>2 DEF CheckPolicy, Locally
<1>10. CASE ListReleases
  <2>1. job \in Jobs
    BY <1>1, <1>10 DEF ListReleases
  <2> DEFINE found == Releases(job.ns, job.suite.spec)
  <2>2. found # {} => Max(found) \in Versions
    <3>1. found \subseteq Versions /\ Versions \subseteq Nat /\ IsFiniteSet(Versions)
      BY ConstantsAssumption DEF Releases
    <3> HIDE DEF found
    <3>2. IsFiniteSet(found) /\ found \in SUBSET Nat
      BY <3>1, FS_Subset
    <3> QED
      BY <3>1, <3>2, MaxOfSet
  <2> HIDE DEF found
  <2>3. \A v \in Versions : [job EXCEPT !.step = "annotate", !.version = v] \in Jobs
    BY <2>1 DEF Jobs
  <2>4. CASE Retry /\ Fault
    BY <1>4, <1>5, <1>10, <2>1, <2>4 DEF ListReleases, Locally
  <2>5. CASE ~(Retry /\ Fault)
    <3>1. job' \in Jobs \cup {Idle} /\ UNCHANGED <<queue, faults>>
      BY <1>10, <2>2, <2>3, <2>5 DEF ListReleases, found
    <3> QED
      BY <1>10, <3>1 DEF ListReleases, Locally
  <2> QED
    BY <2>4, <2>5
<1>11. CASE AnnotateRelease
  <2>1. job \in Jobs
    BY <1>1, <1>11 DEF AnnotateRelease
  <2> DEFINE stored == Suites[job.ns]
  <2>2. PICK out \in Patch(stored, [stored EXCEPT !.last = Empty]) :
          /\ Answer(out.res)
          /\ PublishSuite(job.ns, out.obj)
          /\ IF out.res = "OK" THEN job' = [job EXCEPT !.step = "trigger", !.suite = out.obj] /\ UNCHANGED queue
             ELSE Retry
    BY <1>11 DEF AnnotateRelease
  <2>3. stored \in SuiteSet /\ [stored EXCEPT !.last = Empty] \in SuiteSet
    BY <1>2, <1>3, <2>1, SuiteChanges
  <2> HIDE DEF stored
  <2>4. out.obj \in SuiteSet
    BY <2>2, <2>3, SuitePatch
  <2>5. [job EXCEPT !.step = "trigger", !.suite = out.obj] \in Jobs
    BY <2>1, <2>4 DEF Jobs
  <2>6. suiteFeed' \in Seq([Namespaces -> SuiteSet]) /\ suiteFeed' # <<>>
    BY <1>2, <2>1, <2>2, <2>4, SuiteWritten
  <2> QED
    BY <1>4, <1>6, <1>11, <2>1, <2>2, <2>5, <2>6 DEF AnnotateRelease, Locally
<1>12. CASE SetRunning
  <2>1. job \in Jobs
    BY <1>1, <1>12 DEF SetRunning
  <2> DEFINE stored == Suites[job.ns]
  <2>2. PICK out \in IF job.base # job.suite /\ stored # job.suite THEN {[obj |-> stored, res |-> "Conflict"]}
                     ELSE Patch(stored, [stored EXCEPT !.phase = "Running"]) :
          /\ Answer(out.res)
          /\ PublishSuite(job.ns, out.obj)
          /\ noticed' = IF out.obj.phase = "Running" /\ out.res # "Conflict"
                           THEN [noticed EXCEPT ![job.ns] = job.version] ELSE noticed
          /\ IF out.res = "OK" THEN job' = Idle /\ UNCHANGED queue ELSE Retry
    BY <1>12 DEF SetRunning
  <2>3. stored \in SuiteSet /\ [stored EXCEPT !.phase = "Running"] \in SuiteSet
    BY <1>2, <1>3, <2>1, SuiteChanges
  <2> HIDE DEF stored
  <2>4. out.obj \in SuiteSet
    BY <2>2, <2>3, SuitePatch
  <2>5. suiteFeed' \in Seq([Namespaces -> SuiteSet]) /\ suiteFeed' # <<>>
    BY <1>2, <2>1, <2>2, <2>4, SuiteWritten
  <2>6. noticed' \in [Namespaces -> Versions \cup {0}]
    BY <1>2, <2>1, <2>2
  <2> QED
    BY <1>4, <1>6, <1>12, <2>1, <2>2, <2>5, <2>6 DEF SetRunning, Locally
<1> QED
  BY <1>7, <1>8, <1>9, <1>10, <1>11, <1>12 DEF Controller

\* And the watches, a restart and the cluster.
LEMMA ShapeOfWatches ==
  ASSUME Shape, SuiteEvent \/ SecretEvent \/ PolicyEvent \/ Restart
  PROVE  Shape'
<1> USE DEF Shape
<1>1. CASE SuiteEvent
  <2>1. Tail(suiteFeed) \in Seq([Namespaces -> SuiteSet]) /\ Tail(suiteFeed) # <<>>
    BY <1>1, EventStates DEF SuiteEvent
  <2> QED
    BY <1>1, <2>1 DEF SuiteEvent, history, bounds
<1>2. CASE SecretEvent
  <2>1. Tail(secretFeed) \in Seq([Versions -> SecretSet]) /\ Tail(secretFeed) # <<>>
    BY <1>2, EventStates DEF SecretEvent
  <2>2. secretFeed[2] \in [Versions -> SecretSet]
    <3>1. Len(secretFeed) \in Nat /\ Len(secretFeed) >= 2
      BY <1>2, EventDrops DEF SecretEvent
    <3> QED
      BY <3>1, Copies
  <2> DEFINE created == {v \in Versions : secretFeed[1][v] = NoSecret /\ secretFeed[2][v] # NoSecret}
             handed == {secret \in {secretFeed[2][v] : v \in created} : isHelmRelease(secret)}
  <2>3. SetToSeq(handed) \in Seq(SecretSet)
    BY <2>2, HandedOver
  <2>4. events' = events \o SetToSeq(handed)
    BY <1>2 DEF SecretEvent
  <2> HIDE DEF handed
  <2>5. events' \in Seq(SecretSet)
    BY <2>3, <2>4, ConcatProperties
  <2> QED
    BY <1>2, <2>1, <2>5 DEF SecretEvent, history, bounds
<1>3. CASE PolicyEvent
  <2>1. Tail(policyFeed) \in Seq(Exports \cup {NoPolicy}) /\ Tail(policyFeed) # <<>>
    BY <1>3, EventStates DEF PolicyEvent
  <2> QED
    BY <1>3, <2>1 DEF PolicyEvent, history, bounds
<1>4. CASE Restart
  <2>1. <<Suites>> \in Seq([Namespaces -> SuiteSet]) /\ <<Suites>> # <<>>
    BY Copies, RestartStates
  <2>2. <<Secrets>> \in Seq([Versions -> SecretSet]) /\ <<Secrets>> # <<>>
    BY Copies, RestartStates
  <2>3. <<Stored(policyFeed)>> \in Seq(Exports \cup {NoPolicy}) /\ <<Stored(policyFeed)>> # <<>>
    BY Copies, RestartStates
  <2> DEFINE present == {v \in Versions : Secrets[v].status \notin {"none", "pruned"}}
             handed == {secret \in {Secrets[v] : v \in present} : isHelmRelease(secret)}
  <2>4. SetToSeq(handed) \in Seq(SecretSet)
    BY Copies, HandedOver
  <2>5. events' = SetToSeq(handed)
    BY <1>4 DEF Restart
  <2> HIDE DEF handed
  <2>6. events' \in Seq(SecretSet)
    BY <2>4, <2>5
  <2> QED
    BY <1>4, <2>1, <2>2, <2>3, <2>6 DEF Restart, history, Idle
<1> QED
  BY <1>1, <1>2, <1>3, <1>4

\* What users, runs and Helm change keeps the shape.
LEMMA ShapeOfCluster ==
  ASSUME Shape, Cluster
  PROVE  Shape'
<1> USE DEF Shape
<1>1. Suites \in [Namespaces -> SuiteSet] /\ Secrets \in [Versions -> SecretSet]
  BY Copies
<1>2. ASSUME NEW ns \in Namespaces, RunFinished(ns) PROVE Shape'
  <2>1. [Suites[ns] EXCEPT !.phase = "Ready"] \in SuiteSet
    BY <1>1, SuiteChanges
  <2>2. suiteFeed' \in Seq([Namespaces -> SuiteSet]) /\ suiteFeed' # <<>>
    BY <1>2, <2>1, SuiteWritten DEF RunFinished
  <2> QED
    BY <1>2, <2>2 DEF RunFinished, Others
<1>3. ASSUME NEW ns \in Namespaces, NEW spec \in Specs, SpecEdited(ns, spec) PROVE Shape'
  <2>1. [Suites[ns] EXCEPT !.spec = spec] \in SuiteSet
    BY <1>1, SuiteChanges
  <2>2. suiteFeed' \in Seq([Namespaces -> SuiteSet]) /\ suiteFeed' # <<>>
    BY <1>3, <2>1, SuiteWritten DEF SpecEdited
  <2> QED
    BY <1>3, <2>2 DEF SpecEdited, Others
<1>4. ASSUME NEW policy \in Exports \cup {NoPolicy}, PolicySet(policy) PROVE Shape'
  <2> DEFINE policies == Exports \cup {NoPolicy}
  <2>1. Publish(policyFeed, policy) \in Seq(policies) /\ Publish(policyFeed, policy) # <<>>
    <3>1. policyFeed \in Seq(policies) /\ policyFeed # <<>> /\ policy \in policies
      OBVIOUS
    <3> HIDE DEF policies
    <3> QED
      BY <3>1, PublishStates
  <2> QED
    BY <1>4, <2>1 DEF PolicySet, Others
<1>5. ASSUME NEW v \in Versions, NEW kind \in {"none", "helm", "unlabelled", "opaque"},
             NEW status \in {"none", "pending", "deployed", "failed", "superseded", "pruned"},
             Becomes(v, kind, status), announced' \subseteq Versions
      PROVE  Shape'
  <2>1. [kind |-> kind, status |-> status] \in SecretSet
    BY DEF SecretSet
  <2>2. secretFeed' \in Seq([Versions -> SecretSet]) /\ secretFeed' # <<>>
    BY <1>5, <2>1, SecretWritten DEF Becomes
  <2> QED
    BY <1>5, <2>2 DEF Becomes, Others
<1>6. \A v \in Versions : Secrets[v].kind \in {"none", "helm", "unlabelled", "opaque"}
  BY <1>1 DEF SecretSet
<1>7. ASSUME NEW v \in Versions,
             \/ \E kind \in Kinds : ReleaseCreated(v, kind)
             \/ ReleaseEnded(v, "deployed") \/ ReleaseEnded(v, "failed")
             \/ ReleaseSuperseded(v) \/ ReleasePruned(v)
      PROVE  Shape'
  <2>1. ASSUME NEW kind \in Kinds, ReleaseCreated(v, kind) PROVE Shape'
    <3>1. kind \in {"none", "helm", "unlabelled", "opaque"}
      BY ConstantsAssumption
    <3>2. CreatedAs[v] \in {"pending", "deployed"}
      BY ConstantsAssumption
    <3>3. announced' \subseteq Versions /\ Becomes(v, kind, CreatedAs[v])
      BY <2>1 DEF ReleaseCreated
    <3> QED
      BY <1>5, <3>1, <3>2, <3>3
  <2>2. CASE ReleaseEnded(v, "deployed") \/ ReleaseEnded(v, "failed")
    BY <1>5, <1>6, <2>2 DEF ReleaseEnded
  <2>3. CASE ReleaseSuperseded(v) \/ ReleasePruned(v)
    BY <1>5, <1>6, <2>3 DEF ReleaseSuperseded, ReleasePruned
  <2> QED
    BY <1>7, <2>1, <2>2, <2>3
<1> QED
  BY <1>2, <1>3, <1>4, <1>7 DEF Cluster

\* Every step keeps the shape of the variables.
LEMMA ShapeNext == Shape /\ [Next]_vars => Shape'
<1>1. ASSUME Shape, UNCHANGED vars PROVE Shape'
  BY <1>1 DEF vars, caches, history, bounds, Shape
<1> QED
  BY <1>1, ShapeOfWatcher, ShapeOfController, ShapeOfWatches, ShapeOfCluster DEF Next

\* Every variable of the watcher keeps its shape (the types of
\* helmrelease_watcher.go and of the suite's status).
THEOREM ShapeInvariant == Spec => []Shape
  BY ShapeFirst, ShapeNext, PTL DEF Spec

-----------------------------------------------------------------------------
(***************************************************************************)
(* ExportedOnly.                                                           *)
(***************************************************************************)
\* At first nothing is exported and nothing asked for.
LEMMA EntitledFirst == Init => Entitled
<1> SUFFICES ASSUME Init PROVE Entitled
  OBVIOUS
<1>1. \A k \in 1..Len(policyFeed) : policyFeed[k] = NoPolicy
  BY DEF Init
<1>2. watcher = Idle /\ job = Idle /\ job.step = "idle"
  BY DEF Init, Idle
<1>3. \A ns \in Namespaces : noticed[ns] = 0
  BY DEF Init
<1> QED
  BY <1>1, <1>2, <1>3 DEF Entitled, KnownPolicies, CallEntitled, JobEntitled, NoticedEntitled

\* The handler goes by policies that were set, and by nothing else.
LEMMA HandlerEntitled ==
  ASSUME Shape, Entitled, Create \/ handle
  PROVE  Entitled'
<1>1. /\ Watching
      /\ UNCHANGED <<policyFeed, job, noticed, exported>>
  BY DEF Create, handle, ListOwn, Enqueue, GetPolicy, ListAll, ListExported, Returned,
         Watching, caches, history
<1>2. KnownPolicies' /\ JobEntitled' /\ NoticedEntitled'
  BY <1>1 DEF Entitled, KnownPolicies, JobEntitled, NoticedEntitled, Allowed
<1> SUFFICES CallEntitled'
  BY <1>2 DEF Entitled
<1>3. \A ns : Reachable(ns)' <=> Reachable(ns)
  BY <1>1 DEF Reachable
<1>4. \A step, found, todo :
        /\ Calling(step, found, todo).step = step
        /\ Calling(step, found, todo).found = found
        /\ Calling(step, found, todo).todo = todo
  BY DEF Calling
<1>5. ToSet(<<>>) = {} /\ ToSet(<<"*">>) = {"*"}
  BY DEF ToSet
<1>6. watcher.step # "idle" => watcher \in Calls
  BY DEF Shape, Idle
<1>7. watcher \in Calls => watcher # Idle
  BY DEF Calls, Idle
<1>8. CallEntitled
  BY DEF Entitled
<1>9. CASE Create
  BY <1>1, <1>4, <1>5, <1>9 DEF Create, CallEntitled
<1>10. CASE ListOwn
  BY <1>1, <1>4, <1>5, <1>10 DEF ListOwn, Found, Fails, CallEntitled, Reachable
<1>11. CASE Enqueue
  <2>1. PICK ns \in watcher.found : watcher' = [watcher EXCEPT !.found = @ \ {ns}]
    BY <1>11 DEF Enqueue
  <2>2. watcher \in Calls
    BY <1>11 DEF Enqueue, Shape
  <2>3. /\ watcher'.step = watcher.step /\ watcher'.todo = watcher.todo
        /\ watcher'.found = watcher.found \ {ns}
    BY <2>1, <2>2 DEF Calls
  <2> QED
    BY <1>1, <1>3, <1>7, <1>8, <2>2, <2>3 DEF CallEntitled
<1>12. CASE GetPolicy
  <2>1. Cached(policyFeed) = NoPolicy \/ ToSet(Cached(policyFeed)) \subseteq exported
    BY Copies DEF Entitled, KnownPolicies
  <2> DEFINE all == Calling("all", {}, <<>>)
             some == Calling("export", {}, Cached(policyFeed))
  <2>2. \/ watcher' = Idle
        \/ Cached(policyFeed) # NoPolicy /\ Cached(policyFeed) = <<"*">> /\ watcher' = all
        \/ Cached(policyFeed) # NoPolicy /\ watcher' = some
    BY <1>12 DEF GetPolicy, Fails
  <2>3. all.step = "all" /\ all.found = {} /\ ToSet(all.todo) = {}
    BY <1>4, <1>5
  <2>4. some.step = "export" /\ some.found = {} /\ some.todo = Cached(policyFeed)
    BY <1>4
  <2> HIDE DEF all, some
  <2> QED
    BY <1>1, <1>5, <2>1, <2>2, <2>3, <2>4 DEF CallEntitled
<1>13. CASE ListAll
  <2>1. "*" \in exported
    BY <1>6, <1>7, <1>8, <1>13 DEF ListAll, CallEntitled
  <2>2. \A ns : Reachable(ns)
    BY <2>1 DEF Reachable
  <2> DEFINE others == {ns \in Namespaces \ {Home} : Subscribed(ns)}
  <2>3. watcher' = Idle \/ watcher' = Calling("export", others, <<>>)
    BY <1>13 DEF ListAll, Found
  <2> HIDE DEF others
  <2> QED
    BY <1>1, <1>3, <1>4, <1>5, <2>1, <2>2, <2>3 DEF CallEntitled
<1>14. CASE ListExported
  <2>1. watcher \in Calls /\ watcher.todo \in Seq(STRING) /\ watcher.todo # <<>>
    BY <1>6, <1>14 DEF ListExported, Calls
  <2>2. ToSet(watcher.todo) \subseteq exported
    BY <1>7, <1>8, <2>1 DEF CallEntitled
  <2>3. Head(watcher.todo) \in exported /\ ToSet(Tail(watcher.todo)) \subseteq exported
    BY <2>1, <2>2, HeadAndTail
  <2> DEFINE here == {ns \in Namespaces : ns = Head(watcher.todo) /\ Subscribed(ns)}
  <2>4. \A ns \in here : Reachable(ns)
    BY <2>3 DEF Reachable
  <2>5. watcher' = Idle \/ watcher' = Calling("export", here, Tail(watcher.todo))
    BY <1>14 DEF ListExported, Found, Fails
  <2> HIDE DEF here
  <2> QED
    BY <1>1, <1>3, <1>4, <2>3, <2>4, <2>5 DEF CallEntitled
<1>15. CASE Returned
  BY <1>15 DEF Returned, CallEntitled
<1> QED
  BY <1>9, <1>10, <1>11, <1>12, <1>13, <1>14, <1>15 DEF handle

\* A suite that looks for a release without a namespace looks in its own.
LEMMA OwnRelease ==
  ASSUME NEW ns, NEW spec, ~IsForeign(spec), Observed(ns, spec) = <<<<Home>>, <<Release>>>>
  PROVE  ns = Home
<1>1. {i \in 1..(Len(spec) - 1) : spec[i] = "/"} = {}
  BY DEF IsForeign
<1>2. Observed(ns, spec) = <<<<ns>>, spec>>
  BY <1>1 DEF Observed
<1> QED
  BY <1>2

\* The controller asks for the policy before it looks into another namespace.
LEMMA ControllerEntitled ==
  ASSUME Shape, Entitled, Controller
  PROVE  Entitled'
<1>1. UNCHANGED <<policyFeed, watcher, exported>>
  BY DEF Controller, Reconcile, PatchLabel, CheckPolicy, ListReleases, AnnotateRelease, SetRunning, Locally
<1>2. KnownPolicies' /\ CallEntitled'
  BY <1>1 DEF Entitled, KnownPolicies, CallEntitled, Reachable
<1>3. \A ns : Allowed(ns)' <=> Allowed(ns)
  BY <1>1 DEF Allowed
<1>4. Idle.step = "idle"
  BY DEF Idle
<1>5. JobEntitled /\ NoticedEntitled
  BY DEF Entitled
<1>6. job.step # "idle" => job \in Jobs
  BY DEF Shape, Idle
<1>7. UNCHANGED noticed => NoticedEntitled'
  BY <1>3, <1>5 DEF NoticedEntitled
<1>8. job' = Idle => JobEntitled'
  BY <1>4 DEF JobEntitled
<1>9. ASSUME NEW ns \in Namespaces, NEW suite \in SuiteSet, job' = notRunning(ns, suite)
      PROVE  JobEntitled'
  <2>1. CASE job' = Idle
    BY <1>8, <2>1
  <2>2. CASE job' # Idle
    <3>1. /\ job'.step = IF IsForeign(suite.spec) THEN "policy" ELSE "list"
          /\ job'.ns = ns /\ job'.suite = suite
      BY <1>9, <2>2, GoesOn
    <3>2. job'.step = "list" /\ Observed(ns, suite.spec) = <<<<Home>>, <<Release>>>> => ns = Home
      BY <3>1, OwnRelease
    <3> QED
      BY <3>1, <3>2 DEF JobEntitled, Allowed
  <2> QED
    BY <2>1, <2>2
<1>10. CASE Reconcile
  <2>1. PICK ns \in queue :
          job' = IF NeedsLabel(ns, Cached(suiteFeed)[ns]) THEN At("label", ns, Cached(suiteFeed)[ns])
                 ELSE notRunning(ns, Cached(suiteFeed)[ns])
    BY <1>10 DEF Reconcile
  <2>2. ns \in Namespaces /\ Cached(suiteFeed)[ns] \in SuiteSet
    BY Copies DEF Shape
  <2>3. job' = At("label", ns, Cached(suiteFeed)[ns]) => JobEntitled'
    BY DEF At, JobEntitled
  <2> QED
    BY <1>7, <1>9, <1>10, <2>1, <2>2, <2>3, <1>2 DEF Reconcile, Entitled
<1>11. CASE PatchLabel
  <2> DEFINE stored == Suites[job.ns]
             label == HelmLabel(job.ns, job.suite.spec)
  <2>1. PICK out \in IF IsLabel(label) THEN Patch(stored, [stored EXCEPT !.label = label])
                     ELSE {[obj |-> stored, res |-> "Invalid"]} :
          job' = notRunning(job.ns, IF out.res = "OK" THEN out.obj ELSE job.suite)
    BY <1>11 DEF PatchLabel
  <2>2. job.ns \in Namespaces /\ job.suite \in SuiteSet
    BY <1>6, <1>11 DEF PatchLabel, Jobs
  <2>3. stored \in SuiteSet
    BY <2>2, Copies
  <2>4. [stored EXCEPT !.label = label] \in SuiteSet
    <3>1. label \in Labels
      BY <2>2, SuiteFields DEF Labels
    <3> QED
      BY <2>3, <3>1, SuiteChanges
  <2> HIDE DEF stored, label
  <2>5. out.obj \in SuiteSet
    BY <2>1, <2>3, <2>4, SuitePatch
  <2>6. JobEntitled'
    BY <1>9, <2>1, <2>2, <2>5
  <2> QED
    BY <1>2, <1>7, <1>11, <2>6 DEF PatchLabel, Entitled
<1>12. CASE CheckPolicy
  <2>1. job \in Jobs
    BY <1>6, <1>12 DEF CheckPolicy
  <2>2. Cached(policyFeed) # NoPolicy => ToSet(Cached(policyFeed)) \subseteq exported
    BY Copies DEF Entitled, KnownPolicies
  <2> DEFINE next == [job EXCEPT !.step = "list"]
  <2>3. next.step = "list" /\ next.ns = job.ns
    BY <2>1 DEF Jobs
  <2> HIDE DEF next
  <2>4. job' = Idle \/ (job' = next /\ Cached(policyFeed) # NoPolicy /\ job.ns \in ToSet(Cached(policyFeed)))
    BY <1>12 DEF CheckPolicy, Retry, next
  <2>5. job' = next => JobEntitled'
    BY <1>1, <1>4, <2>2, <2>3, <2>4 DEF JobEntitled, Allowed
  <2> QED
    BY <1>2, <1>7, <1>8, <1>12, <2>4, <2>5 DEF CheckPolicy, Entitled
<1>13. CASE ListReleases
  <2>1. job \in Jobs
    BY <1>6, <1>13 DEF ListReleases
  <2> DEFINE found == Releases(job.ns, job.suite.spec)
             next == [job EXCEPT !.step = "annotate", !.version = Max(found)]
  <2>2. next.step = "annotate" /\ next.ns = job.ns
    BY <2>1 DEF Jobs
  <2>3. found # {} => Observed(job.ns, job.suite.spec) = <<<<Home>>, <<Release>>>>
    BY DEF Releases
  <2>4. found # {} => Allowed(job.ns)
    BY <1>5, <1>13, <2>3 DEF ListReleases, JobEntitled
  <2> HIDE DEF next, found
  <2>5. job' = Idle \/ (job' = next /\ found # {})
    BY <1>13 DEF ListReleases, Retry, next, found
  <2>6. job' = next /\ found # {} => JobEntitled'
    BY <1>3, <2>2, <2>4 DEF JobEntitled
  <2> QED
    BY <1>2, <1>7, <1>8, <1>13, <2>5, <2>6 DEF ListReleases, Entitled
<1>14. CASE AnnotateRelease
  <2>1. job \in Jobs
    BY <1>6, <1>14 DEF AnnotateRelease
  <2>2. job' = Idle \/ \E suite : job' = [job EXCEPT !.step = "trigger", !.suite = suite]
    BY <1>14 DEF AnnotateRelease, Retry
  <2>3. job' = Idle \/ (job'.step = "trigger" /\ job'.ns = job.ns)
    BY <2>1, <2>2 DEF Jobs
  <2>4. Allowed(job.ns)
    BY <1>5, <1>14 DEF AnnotateRelease, JobEntitled
  <2>5. JobEntitled'
    BY <1>3, <1>8, <2>3, <2>4 DEF JobEntitled
  <2> QED
    BY <1>2, <1>7, <1>14, <2>5 DEF AnnotateRelease, Entitled
<1>15. CASE SetRunning
  <2>1. job \in Jobs
    BY <1>6, <1>15 DEF SetRunning
  <2>2. Allowed(job.ns)
    BY <1>5, <1>15 DEF SetRunning, JobEntitled
  <2>3. job' = Idle
    BY <1>15 DEF SetRunning, Retry
  <2>4. noticed' = noticed \/ noticed' = [noticed EXCEPT ![job.ns] = job.version]
    BY <1>15 DEF SetRunning
  <2>5. NoticedEntitled'
    BY <1>3, <1>5, <2>2, <2>4 DEF NoticedEntitled, Shape
  <2> QED
    BY <1>2, <1>8, <2>3, <2>5 DEF Entitled
<1> QED
  BY <1>10, <1>11, <1>12, <1>13, <1>14, <1>15 DEF Controller

\* Policies are remembered when they are set.
LEMMA EntitledNext == Shape /\ Entitled /\ [Next]_vars => Entitled'
<1> SUFFICES ASSUME Shape, Entitled, [Next]_vars PROVE Entitled'
  OBVIOUS
<1>1. CASE UNCHANGED <<policyFeed, watcher, job, noticed, exported>>
  BY <1>1 DEF Entitled, KnownPolicies, CallEntitled, JobEntitled, NoticedEntitled, Reachable, Allowed
<1>2. CASE PolicyEvent
  <2>1. \A k \in 1..Len(Tail(policyFeed)) : \E m \in 1..Len(policyFeed) : Tail(policyFeed)[k] = policyFeed[m]
    BY <1>2, EventStates DEF PolicyEvent, Shape
  <2>2. KnownPolicies'
    BY <1>2, <2>1 DEF PolicyEvent, Entitled, KnownPolicies, history
  <2> QED
    BY <1>2, <2>2 DEF PolicyEvent, Entitled, CallEntitled, JobEntitled, NoticedEntitled, Reachable,
                      Allowed, history
<1>3. CASE Restart
  <2>1. /\ policyFeed' = <<Stored(policyFeed)>> /\ watcher' = Idle /\ job' = Idle
        /\ UNCHANGED <<noticed, exported>>
    BY <1>3 DEF Restart, history
  <2>2. Stored(policyFeed) = NoPolicy \/ ToSet(Stored(policyFeed)) \subseteq exported
    BY Copies DEF Entitled, KnownPolicies
  <2>3. KnownPolicies'
    BY <2>1, <2>2 DEF KnownPolicies
  <2>4. CallEntitled' /\ JobEntitled'
    BY <2>1 DEF CallEntitled, JobEntitled, Idle
  <2>5. NoticedEntitled'
    BY <2>1 DEF Entitled, NoticedEntitled, Allowed
  <2> QED
    BY <2>3, <2>4, <2>5 DEF Entitled
<1>4. ASSUME NEW policy \in Exports \cup {NoPolicy}, PolicySet(policy) PROVE Entitled'
  <2>1. /\ policyFeed' = Publish(policyFeed, policy)
        /\ exported' = exported \cup ToSet(policy)
        /\ UNCHANGED <<watcher, job, noticed>>
    BY <1>4 DEF PolicySet, Others
  <2>2. \A k \in 1..Len(policyFeed') : policyFeed'[k] = policy \/ \E m \in 1..Len(policyFeed) : policyFeed'[k] = policyFeed[m]
    <3> DEFINE policies == Exports \cup {NoPolicy}
    <3>1. policyFeed \in Seq(policies)
      BY DEF Shape
    <3> HIDE DEF policies
    <3> QED
      BY <2>1, <3>1, PublishKeeps
  <2>3. KnownPolicies'
    BY <2>1, <2>2 DEF Entitled, KnownPolicies
  <2>4. \A ns : (Reachable(ns) => Reachable(ns)') /\ (Allowed(ns) => Allowed(ns)')
    BY <2>1 DEF Reachable, Allowed
  <2>5. CallEntitled'
    BY <2>1, <2>4 DEF Entitled, CallEntitled
  <2>6. JobEntitled' /\ NoticedEntitled'
    BY <2>1, <2>4 DEF Entitled, JobEntitled, NoticedEntitled
  <2> QED
    BY <2>3, <2>5, <2>6 DEF Entitled
<1>5. CASE SuiteEvent \/ SecretEvent
  BY <1>1, <1>5 DEF SuiteEvent, SecretEvent, history
<1>6. CASE Cluster
  <2>1. \/ \E policy \in Exports \cup {NoPolicy} : PolicySet(policy)
        \/ UNCHANGED <<policyFeed, watcher, job, noticed, exported>>
    BY <1>6 DEF Cluster, RunFinished, SpecEdited, ReleaseCreated, ReleaseEnded, ReleaseSuperseded,
                ReleasePruned, Becomes, Others
  <2> QED
    BY <1>1, <1>4, <2>1
<1>7. CASE UNCHANGED vars
  BY <1>1, <1>7 DEF vars, caches, history
<1> QED
  BY <1>2, <1>3, <1>5, <1>6, <1>7, HandlerEntitled, ControllerEntitled DEF Next

\* No step is taken on a policy that was never set.
LEMMA EntitledInvariant == Spec => []Entitled
<1>1. Init => Shape /\ Entitled
  BY ShapeFirst, EntitledFirst
<1>2. Shape /\ Entitled /\ [Next]_vars => (Shape /\ Entitled)'
  BY ShapeNext, EntitledNext
<1> QED
  BY <1>1, <1>2, PTL DEF Spec

\* No suite of another namespace is triggered or queued by a release that was
\* not exported to it (notRunning asks the HelmPolicy, and so does
\* EnqueueForHelmTrigger.handle), however policies change while the two read them.
THEOREM AlwaysExportedOnly == Spec => []ExportedOnly
<1>1. Entitled => ExportedOnly
  BY DEF Entitled, CallEntitled, NoticedEntitled, Reachable, Allowed, ExportedOnly
<1> QED
  BY <1>1, EntitledInvariant, PTL

\* Versions are numbers, whether noticed or acted on.
LEMMA Numbers ==
  ASSUME Shape
  PROVE  /\ \A ns \in Namespaces : noticed[ns] \in Nat
         /\ job.step # "idle" => job \in Jobs /\ job.ns \in Namespaces /\ job.version \in Nat
<1>1. \A v \in Versions \cup {0} : v \in Nat
  BY ConstantsAssumption
<1>2. noticed \in [Namespaces -> Versions \cup {0}]
  BY DEF Shape
<1>3. job.step # "idle" => job \in Jobs
  BY DEF Shape, Idle
<1>4. job \in Jobs => job.ns \in Namespaces /\ job.version \in Versions \cup {0}
  BY DEF Jobs
<1> QED
  BY <1>1, <1>2, <1>3, <1>4

-----------------------------------------------------------------------------
(***************************************************************************)
(* NeverBackwards.                                                         *)
(***************************************************************************)
\* At first nothing is deployed and nothing noticed.
LEMMA RisingFirst == Init => Rising
<1> SUFFICES ASSUME Init PROVE Rising
  OBVIOUS
<1>1. Len(secretFeed) = 1 /\ secretFeed[1] = [v \in Versions |-> NoSecret]
  BY DEF Init
<1>2. Deployed(secretFeed[1]) = {}
  BY <1>1 DEF Deployed, NoSecret
<1>3. FeedRises
  BY <1>1, <1>2 DEF FeedRises
<1>4. NoticedHeld /\ JobHeld
  BY DEF Init, NoticedHeld, JobHeld, Idle
<1> QED
  BY <1>3, <1>4 DEF Rising

\* A state of the cluster that covers the one before it continues the rise.
LEMMA RiseGoesOn ==
  ASSUME Shape, FeedRises, NEW v \in Versions, NEW secret \in SecretSet,
         secretFeed' = Publish(secretFeed, [Secrets EXCEPT ![v] = secret]),
         \A w \in Deployed(Secrets) : Covers(Secrets', w)
  PROVE  FeedRises' /\ \A w \in Nat : Held(w) => Held(w)'
<1>1. /\ \A k \in 1..Len(secretFeed) : k \in 1..Len(secretFeed') /\ secretFeed'[k] = secretFeed[k]
      /\ \A k \in 1..Len(secretFeed') :
           k \in 1..Len(secretFeed) \/ (k = Len(secretFeed) + 1 /\ secretFeed'[k] = Secrets')
  BY SecretWritten
<1>2. Len(secretFeed) \in 1..Len(secretFeed) /\ Secrets = secretFeed[Len(secretFeed)]
  BY Copies
<1>3. Len(secretFeed) \in Nat
  BY DEF Shape
<1>4. \A s : Deployed(s) \subseteq Nat
  BY ConstantsAssumption DEF Deployed
<1>5. ASSUME NEW w \in Nat, Covers(Secrets, w) PROVE Covers(Secrets', w)
  <2>1. PICK u \in Deployed(Secrets) : u >= w
    BY <1>5 DEF Covers
  <2>2. PICK x \in Deployed(Secrets') : x >= u
    BY <2>1 DEF Covers
  <2>3. u \in Nat /\ x \in Nat
    BY <1>4, <2>1, <2>2
  <2>4. x >= w
    BY <2>1, <2>2, <2>3
  <2> QED
    BY <2>2, <2>4 DEF Covers
<1>6. FeedRises'
  <2> SUFFICES ASSUME NEW i \in 1..Len(secretFeed'), NEW k \in 1..Len(secretFeed'), i <= k,
                      NEW w \in Deployed(secretFeed'[i])
               PROVE  Covers(secretFeed'[k], w)
    BY DEF FeedRises, Covers, Deployed
  <2>1. w \in Nat
    BY <1>4
  <2>2. CASE k \in 1..Len(secretFeed)
    <3>1. i \in 1..Len(secretFeed)
      BY <1>1, <1>3, <2>2
    <3> QED
      BY <1>1, <2>2, <3>1 DEF FeedRises
  <2>3. CASE k \notin 1..Len(secretFeed) /\ i \in 1..Len(secretFeed)
    <3>1. i <= Len(secretFeed)
      BY <1>3, <2>3
    <3>2. Covers(secretFeed[Len(secretFeed)], w)
      <4>1. secretFeed'[i] = secretFeed[i]
        BY <1>1, <2>3
      <4>2. w \in Deployed(secretFeed[i])
        BY <4>1
      <4> QED
        BY <1>2, <2>3, <3>1, <4>2 DEF FeedRises
    <3>3. Covers(Secrets, w)
      BY <1>2, <3>2
    <3> QED
      BY <1>1, <1>5, <2>1, <2>3, <3>3
  <2>4. CASE k \notin 1..Len(secretFeed) /\ i \notin 1..Len(secretFeed)
    <3>1. w \in Deployed(secretFeed'[k])
      BY <1>1, <2>4
    <3>2. w >= w
      BY <2>1
    <3> QED
      BY <3>1, <3>2 DEF Covers
  <2> QED
    BY <2>2, <2>3, <2>4
<1>7. ASSUME NEW w \in Nat, Held(w) PROVE Held(w)'
  <2> SUFFICES ASSUME NEW k \in 1..Len(secretFeed') PROVE Covers(secretFeed'[k], w)
    BY DEF Held, Covers, Deployed
  <2>1. Covers(Secrets', w)
    BY <1>2, <1>5, <1>7 DEF Held
  <2> QED
    BY <1>1, <1>7, <2>1 DEF Held
<1> QED
  BY <1>6, <1>7

\* What Helm does to the secret of a version.
Helm(v) ==
  \/ \E kind \in Kinds : ReleaseCreated(v, kind)
  \/ ReleaseEnded(v, "deployed") \/ ReleaseEnded(v, "failed")
  \/ ReleaseSuperseded(v) \/ ReleasePruned(v)

\* Helm writes one secret at a time, and its status only goes on.
LEMMA HelmChanges ==
  ASSUME Shape, NEW v \in Versions, Helm(v)
  PROVE  /\ UNCHANGED <<suiteFeed, policyFeed, exported, events, watcher, queue, job, noticed, faults, restarts>>
         /\ \E secret \in SecretSet :
              /\ secretFeed' = Publish(secretFeed, [Secrets EXCEPT ![v] = secret])
              /\ \/ /\ Secrets[v] = NoSecret /\ secret.status \in {"pending", "deployed"}
                    /\ announced' = IF secret.status = "deployed" THEN announced \cup {v} ELSE announced
                 \/ /\ Secrets[v].status = "pending" /\ secret.status \in {"deployed", "failed"}
                    /\ UNCHANGED announced
                 \/ /\ Secrets[v].status = "deployed" /\ secret.status = "superseded"
                    /\ \E u \in Versions : u > v /\ Secrets[u] = DeployedSecret
                    /\ UNCHANGED announced
                 \/ /\ Secrets[v].status = "superseded" /\ secret.status = "pruned"
                    /\ UNCHANGED announced
<1>1. UNCHANGED <<suiteFeed, policyFeed, exported, events, watcher, queue, job, noticed, faults, restarts>>
  BY DEF Helm, ReleaseCreated, ReleaseEnded, ReleaseSuperseded, ReleasePruned, Becomes, Others
<1>2. Secrets[v].kind \in {"none", "helm", "unlabelled", "opaque"}
  BY Copies DEF SecretSet
<1>3. \A kind \in {"none", "helm", "unlabelled", "opaque"},
         status \in {"pending", "deployed", "failed", "superseded", "pruned"} :
        /\ [kind |-> kind, status |-> status] \in SecretSet
        /\ [kind |-> kind, status |-> status].status = status
  BY DEF SecretSet
<1>4. ASSUME NEW kind \in Kinds, ReleaseCreated(v, kind)
      PROVE  \E secret \in SecretSet :
               /\ secretFeed' = Publish(secretFeed, [Secrets EXCEPT ![v] = secret])
               /\ Secrets[v] = NoSecret /\ secret.status \in {"pending", "deployed"}
               /\ announced' = IF secret.status = "deployed" THEN announced \cup {v} ELSE announced
  <2>1. kind \in {"none", "helm", "unlabelled", "opaque"} /\ CreatedAs[v] \in {"pending", "deployed"}
    BY ConstantsAssumption
  <2> [kind |-> kind, status |-> CreatedAs[v]] \in SecretSet
    BY <1>3, <2>1
  <2> WITNESS [kind |-> kind, status |-> CreatedAs[v]] \in SecretSet
  <2> QED
    BY <1>4, <2>1 DEF ReleaseCreated, Becomes
<1>5. ASSUME NEW status \in {"deployed", "failed"}, ReleaseEnded(v, status)
      PROVE  \E secret \in SecretSet :
               /\ secretFeed' = Publish(secretFeed, [Secrets EXCEPT ![v] = secret])
               /\ Secrets[v].status = "pending" /\ secret.status \in {"deployed", "failed"}
               /\ UNCHANGED announced
  <2> [kind |-> Secrets[v].kind, status |-> status] \in SecretSet
    BY <1>2, <1>3
  <2> WITNESS [kind |-> Secrets[v].kind, status |-> status] \in SecretSet
  <2> QED
    BY <1>5 DEF ReleaseEnded, Becomes
<1>6. ASSUME ReleaseSuperseded(v)
      PROVE  \E secret \in SecretSet :
               /\ secretFeed' = Publish(secretFeed, [Secrets EXCEPT ![v] = secret])
               /\ Secrets[v].status = "deployed" /\ secret.status = "superseded"
               /\ \E u \in Versions : u > v /\ Secrets[u] = DeployedSecret
               /\ UNCHANGED announced
  <2> [kind |-> Secrets[v].kind, status |-> "superseded"] \in SecretSet
    BY <1>2, <1>3
  <2> WITNESS [kind |-> Secrets[v].kind, status |-> "superseded"] \in SecretSet
  <2> QED
    BY <1>6 DEF ReleaseSuperseded, Becomes, DeployedSecret
<1>7. ASSUME ReleasePruned(v)
      PROVE  \E secret \in SecretSet :
               /\ secretFeed' = Publish(secretFeed, [Secrets EXCEPT ![v] = secret])
               /\ Secrets[v].status = "superseded" /\ secret.status = "pruned"
               /\ UNCHANGED announced
  <2> [kind |-> Secrets[v].kind, status |-> "pruned"] \in SecretSet
    BY <1>2, <1>3
  <2> WITNESS [kind |-> Secrets[v].kind, status |-> "pruned"] \in SecretSet
  <2> QED
    BY <1>7 DEF ReleasePruned, Becomes
<1>8. CASE \E kind \in Kinds : ReleaseCreated(v, kind)
  BY <1>1, <1>4, <1>8
<1>9. CASE ReleaseEnded(v, "deployed") \/ ReleaseEnded(v, "failed")
  BY <1>1, <1>5, <1>9
<1>10. CASE ReleaseSuperseded(v)
  BY <1>1, <1>6, <1>10
<1>11. CASE ReleasePruned(v)
  BY <1>1, <1>7, <1>11
<1> QED
  BY <1>8, <1>9, <1>10, <1>11 DEF Helm

\* A deployed version is superseded by a newer one only, so secrets rise.
LEMMA HelmRises ==
  ASSUME Shape, FeedRises, NEW v \in Versions, Helm(v)
  PROVE  FeedRises' /\ \A w \in Nat : Held(w) => Held(w)'
<1>1. PICK secret \in SecretSet :
        /\ secretFeed' = Publish(secretFeed, [Secrets EXCEPT ![v] = secret])
        /\ \/ Secrets[v].status # "deployed"
           \/ \E u \in Versions : u > v /\ Secrets[u] = DeployedSecret
  <2>1. NoSecret.status # "deployed"
    BY DEF NoSecret
  <2> QED
    BY <2>1, HelmChanges
<1>2. Secrets' = [Secrets EXCEPT ![v] = secret] /\ Secrets \in [Versions -> SecretSet]
  BY <1>1, SecretWritten, Copies
<1>3. ASSUME NEW w \in Deployed(Secrets) PROVE Covers(Secrets', w)
  <2>1. w \in Versions /\ w \in Nat /\ v \in Nat
    BY ConstantsAssumption DEF Deployed
  <2>2. CASE w # v
    <3>1. w \in Deployed(Secrets') /\ w >= w
      BY <1>2, <2>1, <2>2 DEF Deployed
    <3> QED
      BY <3>1 DEF Covers
  <2>3. CASE w = v
    <3>1. PICK u \in Versions : u > v /\ Secrets[u] = DeployedSecret
      BY <1>1, <2>3 DEF Deployed
    <3>2. u \in Nat
      BY ConstantsAssumption
    <3>3. u # v /\ u >= w
      BY <2>1, <2>3, <3>1, <3>2
    <3>4. u \in Deployed(Secrets')
      BY <1>2, <3>1, <3>3 DEF Deployed, DeployedSecret, ParseHelmReleaseSecret
    <3> QED
      BY <3>3, <3>4 DEF Covers
  <2> QED
    BY <2>2, <2>3
<1> QED
  BY <1>1, <1>3, RiseGoesOn

\* A watch event and a restart forget states, and add none.
LEMMA RiseForgets ==
  ASSUME Shape, SecretEvent \/ Restart
  PROVE  (FeedRises => FeedRises') /\ \A w : Held(w) => Held(w)'
<1>1. CASE SecretEvent
  <2>1. secretFeed' = Tail(secretFeed) /\ Len(secretFeed) \in Nat
    BY <1>1 DEF SecretEvent, Shape
  <2>2. Len(secretFeed') \in Nat /\
        \A k \in 1..Len(secretFeed') : k + 1 \in 1..Len(secretFeed) /\ secretFeed'[k] = secretFeed[k + 1]
    BY <1>1, <2>1, EventDrops DEF SecretEvent, Shape
  <2>3. FeedRises => FeedRises'
    <3> SUFFICES ASSUME FeedRises, NEW i \in 1..Len(secretFeed'), NEW k \in 1..Len(secretFeed'), i <= k,
                        NEW w \in Deployed(secretFeed'[i])
                 PROVE  Covers(secretFeed'[k], w)
      BY DEF FeedRises, Covers, Deployed
    <3>1. i + 1 <= k + 1
      BY <2>2
    <3> QED
      BY <2>2, <3>1 DEF FeedRises
  <2>4. \A w : Held(w) => Held(w)'
    BY <2>2 DEF Held, Covers, Deployed
  <2> QED
    BY <2>3, <2>4
<1>2. CASE Restart
  <2>1. secretFeed' = <<Secrets>>
    BY <1>2 DEF Restart
  <2>2. Len(secretFeed') = 1 /\ secretFeed'[1] = Secrets
    BY <2>1
  <2>3. Len(secretFeed) \in 1..Len(secretFeed) /\ Secrets = secretFeed[Len(secretFeed)]
    BY Copies
  <2>4. \A w : Held(w) => Held(w)'
    BY <2>2, <2>3 DEF Held, Covers, Deployed
  <2>5. Len(secretFeed) \in Nat
    BY DEF Shape
  <2>6. FeedRises => \A w \in Deployed(Secrets) : Covers(Secrets, w)
    BY <2>3, <2>5 DEF FeedRises
  <2>7. FeedRises => FeedRises'
    BY <2>2, <2>6 DEF FeedRises, Covers, Deployed
  <2> QED
    BY <2>4, <2>7
<1> QED
  BY <1>1, <1>2

\* The newest version of a listing is at least as new as any a suite noticed.
LEMMA ListedRises ==
  ASSUME Shape, Rising, ListReleases
  PROVE  Rising'
<1>1. job \in Jobs
  BY DEF ListReleases, Shape, Idle
<1>2. UNCHANGED <<secretFeed, noticed>>
  BY DEF ListReleases, Locally
<1>3. FeedRises' /\ NoticedHeld' /\ \A w : Held(w)' <=> Held(w)
  BY <1>2 DEF Rising, FeedRises, NoticedHeld, Held, Covers, Deployed
<1> DEFINE found == Releases(job.ns, job.suite.spec)
           next == [job EXCEPT !.step = "annotate", !.version = Max(found)]
<1>4. next.ns = job.ns /\ next.version = Max(found)
  BY <1>1 DEF Jobs
<1>5. found # {} => found = Deployed(secretFeed[1])
  BY Copies DEF Releases, Deployed
<1>6. job.ns \in Namespaces
  BY <1>1 DEF Jobs
<1> HIDE DEF found, next
<1>7. job' = Idle \/ (job' = next /\ found # {})
  BY DEF ListReleases, Retry, next, found
<1>8. CASE job' = Idle
  BY <1>3, <1>8 DEF Rising, JobHeld, Idle
<1>9. CASE job' = next /\ found # {}
  <2>1. found \subseteq Nat /\ IsFiniteSet(found)
    BY <1>5, <1>9, ConstantsAssumption, FS_Subset DEF Deployed
  <2>2. Max(found) \in found /\ \A x \in found : Max(found) >= x
    BY <1>9, <2>1, MaxOfSet
  <2>3. 1 \in 1..Len(secretFeed) /\ Len(secretFeed) \in Nat
    BY Copies DEF Shape
  <2>4. Held(Max(found))
    <3>1. \A k \in 1..Len(secretFeed) : 1 <= k
      BY <2>3
    <3>2. Max(found) \in Deployed(secretFeed[1])
      BY <1>5, <1>9, <2>2
    <3> QED
      BY <2>3, <3>1, <3>2 DEF Held, Rising, FeedRises
  <2>5. noticed[job.ns] \in Nat
    BY <1>6, Numbers
  <2>6. Max(found) >= noticed[job.ns]
    <3>1. CASE noticed[job.ns] = 0
      BY <2>1, <2>2, <3>1
    <3>2. CASE noticed[job.ns] # 0
      <4>1. PICK u \in Deployed(secretFeed[1]) : u >= noticed[job.ns]
        BY <1>6, <2>3, <3>2 DEF Rising, NoticedHeld, Held, Covers
      <4>2. u \in found /\ Max(found) >= u
        BY <1>5, <1>9, <2>2, <4>1
      <4>3. u \in Nat /\ Max(found) \in Nat
        BY <2>1, <2>2, <4>2
      <4> QED
        BY <2>5, <4>1, <4>2, <4>3
    <3> QED
      BY <3>1, <3>2
  <2>7. JobHeld'
    BY <1>2, <1>3, <1>4, <1>9, <2>4, <2>6 DEF JobHeld
  <2> QED
    BY <1>3, <2>7 DEF Rising
<1> QED
  BY <1>7, <1>8, <1>9

\* Every step keeps what is acted on and what was noticed covered.
LEMMA RisingNext == Shape /\ Rising /\ [Next]_vars => Rising'
<1> SUFFICES ASSUME Shape, Rising, [Next]_vars PROVE Rising'
  OBVIOUS
<1>1. UNCHANGED secretFeed => FeedRises' /\ \A w : Held(w) => Held(w)'
  BY DEF Rising, FeedRises, Held, Covers, Deployed
<1>2. ASSUME FeedRises', \A w \in Nat : Held(w) => Held(w)', UNCHANGED noticed,
             job'.step \in {"annotate", "trigger"} =>
               job.step \in {"annotate", "trigger"} /\ job'.ns = job.ns /\ job'.version = job.version
      PROVE  Rising'
  <2>1. \A ns \in Namespaces : noticed[ns] \in Nat
    BY Numbers
  <2>2. NoticedHeld'
    BY <1>2, <2>1 DEF Rising, NoticedHeld
  <2>3. job.step \in {"annotate", "trigger"} => job.version \in Nat
    BY Numbers
  <2>4. JobHeld'
    BY <1>2, <2>3 DEF Rising, JobHeld
  <2> QED
    BY <1>2, <2>2, <2>4 DEF Rising
<1>3. Idle.step = "idle"
  BY DEF Idle
<1>4. CASE Create \/ handle
  <2>1. UNCHANGED <<secretFeed, noticed, job>>
    BY <1>4 DEF Create, handle, ListOwn, Enqueue, GetPolicy, ListAll, ListExported, Returned,
                Watching, caches, history
  <2> QED
    BY <1>1, <1>2, <2>1
<1>5. CASE Reconcile \/ PatchLabel \/ CheckPolicy
  <2>1. UNCHANGED <<secretFeed, noticed>>
    BY <1>5 DEF Reconcile, PatchLabel, CheckPolicy, Locally
  <2>2. \A ns, suite : notRunning(ns, suite).step \in {"idle", "policy", "list"}
    BY <1>3 DEF notRunning, At
  <2>3. \A ns, suite : At("label", ns, suite).step = "label"
    BY DEF At
  <2>4. job'.step \notin {"annotate", "trigger"}
    <3>1. CASE Reconcile
      BY <2>2, <2>3, <3>1 DEF Reconcile
    <3>2. CASE PatchLabel
      BY <2>2, <3>2 DEF PatchLabel
    <3>3. CASE CheckPolicy
      <4>1. job \in Jobs
        BY <1>3, <3>3 DEF CheckPolicy, Shape
      <4>2. [job EXCEPT !.step = "list"].step = "list"
        BY <4>1 DEF Jobs
      <4> QED
        BY <1>3, <3>3, <4>2 DEF CheckPolicy, Retry
    <3> QED
      BY <1>5, <3>1, <3>2, <3>3
  <2> QED
    BY <1>1, <1>2, <2>1, <2>4
<1>6. CASE AnnotateRelease
  <2>1. UNCHANGED <<secretFeed, noticed>>
    BY <1>6 DEF AnnotateRelease, Locally
  <2>2. job \in Jobs /\ job.step = "annotate"
    BY <1>3, <1>6 DEF AnnotateRelease, Shape
  <2>3. job' = Idle \/ \E suite : job' = [job EXCEPT !.step = "trigger", !.suite = suite]
    BY <1>6 DEF AnnotateRelease, Retry
  <2>4. job' = Idle \/ (job'.ns = job.ns /\ job'.version = job.version)
    BY <2>2, <2>3 DEF Jobs
  <2> QED
    BY <1>1, <1>2, <1>3, <2>1, <2>2, <2>4
<1>7. CASE SetRunning
  <2>1. UNCHANGED secretFeed /\ job' = Idle
    BY <1>7 DEF SetRunning, Locally, Retry
  <2>2. noticed' = noticed \/ noticed' = [noticed EXCEPT ![job.ns] = job.version]
    BY <1>7 DEF SetRunning
  <2>3. Held(job.version)
    BY <1>7 DEF SetRunning, Rising, JobHeld
  <2>4. NoticedHeld'
    BY <1>1, <2>1, <2>2, <2>3 DEF Rising, NoticedHeld, Shape
  <2> QED
    BY <1>1, <1>3, <2>1, <2>4 DEF Rising, JobHeld
<1>8. CASE SuiteEvent \/ PolicyEvent \/ UNCHANGED vars
  <2>1. UNCHANGED <<secretFeed, noticed, job>>
    BY <1>8 DEF SuiteEvent, PolicyEvent, vars, caches, history
  <2> QED
    BY <1>1, <1>2, <2>1
<1>9. CASE SecretEvent \/ Restart
  <2>1. UNCHANGED noticed /\ (job' = job \/ job' = Idle)
    BY <1>9 DEF SecretEvent, Restart, history
  <2>2. FeedRises' /\ \A w : Held(w) => Held(w)'
    BY <1>9, RiseForgets DEF Rising
  <2> QED
    BY <1>2, <1>3, <2>1, <2>2
<1>10. CASE Cluster
  <2>1. \/ \E v \in Versions : Helm(v)
        \/ UNCHANGED <<secretFeed, noticed, job>>
    BY <1>10 DEF Cluster, Helm, RunFinished, SpecEdited, PolicySet, Others
  <2>2. ASSUME NEW v \in Versions, Helm(v) PROVE Rising'
    <3>1. UNCHANGED <<noticed, job>>
      BY <2>2, HelmChanges
    <3>2. FeedRises' /\ \A w \in Nat : Held(w) => Held(w)'
      BY <2>2, HelmRises DEF Rising
    <3> QED
      BY <1>2, <3>1, <3>2
  <2> QED
    BY <1>1, <1>2, <2>1, <2>2
<1> QED
  BY <1>4, <1>5, <1>6, <1>7, <1>8, <1>9, <1>10, ListedRises DEF Next, Controller

\* A suite notices a version when it is triggered, and only then.
LEMMA OnlyTriggers ==
  ASSUME [Next]_vars
  PROVE  UNCHANGED noticed \/ SetRunning
<1>1. CASE Create \/ handle
  BY <1>1 DEF Create, handle, ListOwn, Enqueue, GetPolicy, ListAll, ListExported, Returned,
              Watching, history
<1>2. CASE Controller
  BY <1>2 DEF Controller, Reconcile, PatchLabel, CheckPolicy, ListReleases, AnnotateRelease
<1>3. CASE SuiteEvent \/ SecretEvent \/ PolicyEvent \/ Restart \/ UNCHANGED vars
  BY <1>3 DEF SuiteEvent, SecretEvent, PolicyEvent, Restart, vars, history
<1>4. CASE Cluster
  BY <1>4 DEF Cluster, RunFinished, SpecEdited, PolicySet, ReleaseCreated, ReleaseEnded,
              ReleaseSuperseded, ReleasePruned, Becomes, Others
<1> QED
  BY <1>1, <1>2, <1>3, <1>4 DEF Next

\* No deployed version goes before a newer one is deployed.
LEMMA RisingInvariant == Spec => []Rising
<1>1. Init => Shape /\ Rising
  BY ShapeFirst, RisingFirst
<1>2. Shape /\ Rising /\ [Next]_vars => (Shape /\ Rising)'
  BY ShapeNext, RisingNext
<1> QED
  BY <1>1, <1>2, PTL DEF Spec

\* A suite is never triggered by an older version than before (notRunning takes
\* the newest of the deployed releases), although both versions of an upgrade
\* may be deployed and every copy that is read may be old.
THEOREM BackwardsNever == Spec => NeverBackwards
<1>1. Shape /\ Rising /\ [Next]_vars => [\A ns \in Namespaces : noticed'[ns] >= noticed[ns]]_vars
  <2> SUFFICES ASSUME Shape, Rising, Next PROVE \A ns \in Namespaces : noticed'[ns] >= noticed[ns]
    BY DEF Shape
  <2>1. \A ns \in Namespaces : noticed[ns] \in Nat
    BY Numbers
  <2>2. CASE UNCHANGED noticed
    BY <2>1, <2>2
  <2>3. CASE SetRunning
    <3>1. job.version >= noticed[job.ns]
      BY <2>3 DEF SetRunning, Rising, JobHeld
    <3>2. noticed' = noticed \/ noticed' = [noticed EXCEPT ![job.ns] = job.version]
      BY <2>3 DEF SetRunning
    <3>3. noticed \in [Namespaces -> Versions \cup {0}]
      BY DEF Shape
    <3>4. \A ns \in Namespaces : noticed'[ns] = noticed[ns] \/ (ns = job.ns /\ noticed'[ns] = job.version)
      BY <3>2, <3>3
    <3> QED
      BY <2>1, <3>1, <3>4
  <2>4. UNCHANGED noticed \/ SetRunning
    BY OnlyTriggers
  <2> QED
    BY <2>2, <2>3, <2>4
<1> QED
  BY <1>1, ShapeInvariant, RisingInvariant, PTL DEF Spec, NeverBackwards

-----------------------------------------------------------------------------
(***************************************************************************)
(* LabelConverged.                                                         *)
(***************************************************************************)

\* A suite that is written is due, and none that was due is forgotten.
LEMMA WriteQueues ==
  ASSUME Shape, NEW at \in Namespaces, NEW suite \in SuiteSet, PublishSuite(at, suite),
         queue \subseteq queue', NEW ns \in Namespaces
  PROVE  /\ Suites' = [Suites EXCEPT ![at] = suite]
         /\ Suites'[ns] # Suites[ns] => Due(ns)'
         /\ Due(ns) => Due(ns)'
<1>1. Suites \in [Namespaces -> SuiteSet]
  BY Copies
<1>2. /\ Suites' = [Suites EXCEPT ![at] = suite]
      /\ \A m \in Namespaces : Behind(m) => Behind(m)'
      /\ suite # Suites[at] => Behind(at)'
  BY SuiteWritten
<1>3. Suites'[ns] # Suites[ns] => ns = at /\ suite # Suites[at]
  BY <1>1, <1>2
<1> QED
  BY <1>2, <1>3 DEF Due

\* The outcomes of the three patches of the controller.
LEMMA LabelPatched ==
  ASSUME Shape, PatchLabel
  PROVE  \E out \in [obj : SuiteSet, res : {"OK", "Error", "Invalid"}] :
           /\ Answer(out.res)
           /\ PublishSuite(job.ns, out.obj)
           /\ job' = notRunning(job.ns, IF out.res = "OK" THEN out.obj ELSE job.suite)
           /\ out.res = "OK" => out.obj.label = HelmLabel(job.ns, job.suite.spec)
           /\ out.res = "Invalid" => out.obj = Suites[job.ns] /\ ~IsLabel(HelmLabel(job.ns, job.suite.spec))
<1> DEFINE stored == Suites[job.ns]
           label == HelmLabel(job.ns, job.suite.spec)
           new == [stored EXCEPT !.label = label]
<1>1. PICK out \in IF IsLabel(label) THEN Patch(stored, new) ELSE {[obj |-> stored, res |-> "Invalid"]} :
        /\ Answer(out.res)
        /\ PublishSuite(job.ns, out.obj)
        /\ job' = notRunning(job.ns, IF out.res = "OK" THEN out.obj ELSE job.suite)
  BY DEF PatchLabel
<1>2. job \in Jobs /\ job.ns \in Namespaces
  BY Numbers DEF PatchLabel
<1>3. job.suite \in SuiteSet
  BY <1>2 DEF Jobs
<1>4. stored \in SuiteSet
  BY <1>2, Copies
<1>5. label \in Labels
  BY <1>2, <1>3, SuiteFields DEF Labels
<1>6. new \in SuiteSet
  BY <1>4, <1>5, SuiteChanges
<1>7. new.label = label
  BY <1>4 DEF SuiteSet
<1> HIDE DEF stored, label, new
<1>8. CASE IsLabel(label)
  <2>1. out.obj \in SuiteSet /\ out.res \in {"OK", "Error"} /\ (out.res = "OK" => out.obj = new)
    BY <1>1, <1>4, <1>6, <1>8, SuitePatch
  <2>2. out = [obj |-> out.obj, res |-> out.res]
    BY <1>1, <1>8 DEF Patch
  <2>3. out \in [obj : SuiteSet, res : {"OK", "Error", "Invalid"}]
    BY <2>1, <2>2
  <2> QED
    BY <1>1, <1>7, <2>1, <2>3 DEF label
<1>9. CASE ~IsLabel(label)
  <2>1. out.obj = stored /\ out.res = "Invalid" /\ out \in [obj : SuiteSet, res : {"OK", "Error", "Invalid"}]
    BY <1>1, <1>4, <1>9
  <2> QED
    BY <1>1, <1>9, <2>1 DEF stored, label
<1> QED
  BY <1>8, <1>9

\* The patch of the annotation is applied or fails, and is then tried again.
LEMMA ReleaseAnnotated ==
  ASSUME Shape, AnnotateRelease
  PROVE  \E out \in [obj : SuiteSet, res : {"OK", "Error"}] :
           /\ Answer(out.res)
           /\ PublishSuite(job.ns, out.obj)
           /\ IF out.res = "OK" THEN job' = [job EXCEPT !.step = "trigger", !.suite = out.obj] /\ UNCHANGED queue
              ELSE Retry
<1> DEFINE stored == Suites[job.ns]
           new == [stored EXCEPT !.last = Empty]
<1>1. PICK out \in Patch(stored, new) :
        /\ Answer(out.res)
        /\ PublishSuite(job.ns, out.obj)
        /\ IF out.res = "OK" THEN job' = [job EXCEPT !.step = "trigger", !.suite = out.obj] /\ UNCHANGED queue
           ELSE Retry
  BY DEF AnnotateRelease
<1>2. job.ns \in Namespaces
  BY Numbers DEF AnnotateRelease
<1>3. stored \in SuiteSet
  BY <1>2, Copies
<1>4. new \in SuiteSet
  BY <1>3, SuiteChanges
<1> HIDE DEF stored, new
<1>5. out.obj \in SuiteSet /\ out.res \in {"OK", "Error"}
  BY <1>1, <1>3, <1>4, SuitePatch
<1>6. out = [obj |-> out.obj, res |-> out.res]
  BY <1>1 DEF Patch
<1>7. out \in [obj : SuiteSet, res : {"OK", "Error"}]
  BY <1>5, <1>6
<1> QED
  BY <1>1, <1>7

\* The patch of the phase is applied, fails, or conflicts with a suite that was
\* changed since the annotation.
LEMMA SuiteTriggered ==
  ASSUME Shape, SetRunning
  PROVE  \E out \in [obj : SuiteSet, res : {"OK", "Error", "Conflict"}] :
           /\ Answer(out.res)
           /\ PublishSuite(job.ns, out.obj)
           /\ noticed' = IF out.obj.phase = "Running" /\ out.res # "Conflict"
                           THEN [noticed EXCEPT ![job.ns] = job.version] ELSE noticed
           /\ IF out.res = "OK" THEN job' = Idle /\ UNCHANGED queue ELSE Retry
           /\ out.res = "OK" => out.obj.phase = "Running"
<1> DEFINE stored == Suites[job.ns]
           new == [stored EXCEPT !.phase = "Running"]
<1>1. PICK out \in IF job.base # job.suite /\ stored # job.suite THEN {[obj |-> stored, res |-> "Conflict"]}
                   ELSE Patch(stored, new) :
        /\ Answer(out.res)
        /\ PublishSuite(job.ns, out.obj)
        /\ noticed' = IF out.obj.phase = "Running" /\ out.res # "Conflict"
                        THEN [noticed EXCEPT ![job.ns] = job.version] ELSE noticed
        /\ IF out.res = "OK" THEN job' = Idle /\ UNCHANGED queue ELSE Retry
  BY DEF SetRunning
<1>2. job.ns \in Namespaces
  BY Numbers DEF SetRunning
<1>3. stored \in SuiteSet
  BY <1>2, Copies
<1>4. new \in SuiteSet
  BY <1>3, SuiteChanges
<1>5. new.phase = "Running"
  BY <1>3 DEF SuiteSet
<1> HIDE DEF stored, new
<1>6. CASE job.base # job.suite /\ stored # job.suite
  <2>1. out.res = "Conflict" /\ out \in [obj : SuiteSet, res : {"OK", "Error", "Conflict"}]
    BY <1>1, <1>3, <1>6
  <2> QED
    BY <1>1, <2>1
<1>7. CASE ~(job.base # job.suite /\ stored # job.suite)
  <2>1. out.obj \in SuiteSet /\ out.res \in {"OK", "Error"} /\ (out.res = "OK" => out.obj = new)
    BY <1>1, <1>3, <1>4, <1>7, SuitePatch
  <2>2. out = [obj |-> out.obj, res |-> out.res]
    BY <1>1, <1>7 DEF Patch
  <2>3. out \in [obj : SuiteSet, res : {"OK", "Error", "Conflict"}]
    BY <2>1, <2>2
  <2> QED
    BY <1>1, <1>5, <2>1, <2>3
<1> QED
  BY <1>6, <1>7

\* An event that is delivered queues the suites it is about.
LEMMA EventQueues ==
  ASSUME Shape, SuiteEvent, NEW ns \in Namespaces
  PROVE  Suites' = Suites /\ (Due(ns) => Due(ns)')
<1>1. suiteFeed' = Tail(suiteFeed) /\ ~Fresh(suiteFeed)
  BY DEF SuiteEvent
<1>2. suiteFeed \in Seq([Namespaces -> SuiteSet]) /\ suiteFeed # <<>>
  BY DEF Shape
<1>3. Suites' = Suites
  BY <1>1, <1>2, EventStates DEF Suites
<1>4. /\ Len(suiteFeed) \in Nat /\ Len(suiteFeed) >= 2
      /\ \A k \in 2..Len(suiteFeed) : k - 1 \in 1..Len(suiteFeed') /\ suiteFeed'[k - 1] = suiteFeed[k]
  BY <1>1, <1>2, EventDrops
<1>5. ASSUME NEW k \in 2..Len(suiteFeed), suiteFeed[k][ns] # Suites[ns] PROVE Behind(ns)'
  BY <1>3, <1>4, <1>5 DEF Behind
<1>6. queue' = queue \cup {m \in Namespaces : suiteFeed[1][m] # suiteFeed[2][m]}
  BY DEF SuiteEvent
<1>7. ASSUME suiteFeed[1][ns] # Suites[ns] PROVE Due(ns)'
  <2>1. CASE suiteFeed[2][ns] = Suites[ns]
    BY <1>6, <1>7, <2>1 DEF Due
  <2>2. CASE suiteFeed[2][ns] # Suites[ns]
    <3>1. 2 \in 2..Len(suiteFeed)
      BY <1>4
    <3> QED
      BY <1>5, <2>2, <3>1 DEF Due
  <2> QED
    BY <2>1, <2>2
<1>8. Behind(ns) => Due(ns)'
  <2> SUFFICES ASSUME NEW k \in 1..Len(suiteFeed), suiteFeed[k][ns] # Suites[ns] PROVE Due(ns)'
    BY DEF Behind
  <2>1. k = 1 \/ k \in 2..Len(suiteFeed)
    BY <1>4
  <2> QED
    BY <1>5, <1>7, <2>1 DEF Due
<1> QED
  BY <1>3, <1>6, <1>8 DEF Due

\* No step but the one that takes it from the queue forgets a suite that is due,
\* and every change of a suite makes it due.
LEMMA Attention ==
  ASSUME Shape, [Next]_vars, NEW ns \in Namespaces
  PROVE  /\ Suites'[ns] # Suites[ns] => Due(ns)'
         /\ Due(ns) => Due(ns)' \/ Reconcile
<1>1. CASE UNCHANGED suiteFeed /\ queue \subseteq queue'
  BY <1>1, SuitesKept DEF Due
<1>2. ASSUME NEW at \in Namespaces, NEW suite \in SuiteSet, PublishSuite(at, suite), queue \subseteq queue'
      PROVE  /\ Suites'[ns] # Suites[ns] => Due(ns)'
             /\ Due(ns) => Due(ns)'
  BY <1>2, WriteQueues
<1>3. Retry => queue \subseteq queue'
  BY DEF Retry
<1>4. CASE Create \/ handle
  <2>1. UNCHANGED suiteFeed /\ queue \subseteq queue'
    BY <1>4 DEF Create, handle, ListOwn, Enqueue, GetPolicy, ListAll, ListExported, Returned,
                Watching, caches
  <2> QED
    BY <1>1, <2>1
<1>5. CASE Reconcile
  <2>1. UNCHANGED suiteFeed
    BY <1>5 DEF Reconcile
  <2> QED
    BY <1>5, <2>1, SuitesKept
<1>6. CASE PatchLabel
  <2>1. UNCHANGED queue
    BY <1>6 DEF PatchLabel
  <2>2. PICK at \in Namespaces : at = job.ns
    BY <1>6, Numbers DEF PatchLabel
  <2>3. PICK out \in [obj : SuiteSet, res : {"OK", "Error", "Invalid"}] : PublishSuite(at, out.obj)
    BY <1>6, <2>2, LabelPatched
  <2> QED
    BY <1>2, <2>1, <2>3
<1>7. CASE CheckPolicy \/ ListReleases
  <2>1. UNCHANGED suiteFeed /\ queue \subseteq queue'
    BY <1>3, <1>7 DEF CheckPolicy, ListReleases
  <2> QED
    BY <1>1, <2>1
<1>8. CASE AnnotateRelease
  <2>1. PICK at \in Namespaces : at = job.ns
    BY <1>8, Numbers DEF AnnotateRelease
  <2>2. PICK out \in [obj : SuiteSet, res : {"OK", "Error"}] : PublishSuite(at, out.obj) /\ queue \subseteq queue'
    BY <1>3, <1>8, <2>1, ReleaseAnnotated
  <2> QED
    BY <1>2, <2>2
<1>9. CASE SetRunning
  <2>1. PICK at \in Namespaces : at = job.ns
    BY <1>9, Numbers DEF SetRunning
  <2>2. PICK out \in [obj : SuiteSet, res : {"OK", "Error", "Conflict"}] :
          PublishSuite(at, out.obj) /\ queue \subseteq queue'
    BY <1>3, <1>9, <2>1, SuiteTriggered
  <2> QED
    BY <1>2, <2>2
<1>10. CASE SuiteEvent
  BY <1>10, EventQueues
<1>11. CASE SecretEvent \/ PolicyEvent \/ UNCHANGED vars
  BY <1>1, <1>11 DEF SecretEvent, PolicyEvent, vars, caches
<1>12. CASE Restart
  <2>1. ns \in queue'
    BY <1>12 DEF Restart
  <2> QED
    BY <2>1 DEF Due
<1>13. CASE Cluster
  <2>1. ASSUME NEW at \in Namespaces, RunFinished(at)
        PROVE  \E suite \in SuiteSet : PublishSuite(at, suite) /\ UNCHANGED queue
    <3>1. [Suites[at] EXCEPT !.phase = "Ready"] \in SuiteSet
      BY Copies, SuiteChanges
    <3> QED
      BY <2>1, <3>1 DEF RunFinished, Others
  <2>2. ASSUME NEW at \in Namespaces, NEW spec \in Specs, SpecEdited(at, spec)
        PROVE  \E suite \in SuiteSet : PublishSuite(at, suite) /\ UNCHANGED queue
    <3>1. [Suites[at] EXCEPT !.spec = spec] \in SuiteSet
      BY Copies, SuiteChanges
    <3> QED
      BY <2>2, <3>1 DEF SpecEdited, Others
  <2>3. \/ \E at \in Namespaces : RunFinished(at) \/ \E spec \in Specs : SpecEdited(at, spec)
        \/ UNCHANGED <<suiteFeed, queue>>
    BY <1>13 DEF Cluster, PolicySet, ReleaseCreated, ReleaseEnded, ReleaseSuperseded, ReleasePruned,
                 Becomes, Others
  <2> QED
    BY <1>1, <1>2, <2>1, <2>2, <2>3
<1> QED
  BY <1>4, <1>5, <1>6, <1>7, <1>8, <1>9, <1>10, <1>11, <1>12, <1>13 DEF Next, Controller

\* A suite that is taken from the queue is worked on from a current copy, or has
\* events to come.
LEMMA Taken ==
  ASSUME Shape, Reconcile, NEW ns \in Namespaces, Due(ns), ~Due(ns)'
  PROVE  /\ job = Idle /\ Suites' = Suites
         /\ job' = IF NeedsLabel(ns, Suites[ns]) THEN At("label", ns, Suites[ns]) ELSE notRunning(ns, Suites[ns])
<1>1. UNCHANGED suiteFeed /\ job = Idle
  BY DEF Reconcile
<1>2. Suites' = Suites /\ ~Behind(ns)
  BY <1>1, SuitesKept DEF Due
<1>3. Cached(suiteFeed)[ns] = Suites[ns]
  BY <1>2, Copies DEF Behind
<1>4. PICK m \in queue :
        /\ queue' = queue \ {m}
        /\ job' = IF NeedsLabel(m, Cached(suiteFeed)[m]) THEN At("label", m, Cached(suiteFeed)[m])
                  ELSE notRunning(m, Cached(suiteFeed)[m])
  BY DEF Reconcile
<1>5. m = ns
  BY <1>2, <1>4 DEF Due
<1> QED
  BY <1>1, <1>2, <1>3, <1>4, <1>5

\* The job is the controller's alone, and calls that failed are never forgotten.
LEMMA JobKept ==
  ASSUME [Next]_vars, faults \in Nat
  PROVE  /\ UNCHANGED job \/ Controller \/ Restart
         /\ faults' = 0 => faults = 0
<1>1. Fault => faults' = faults + 1
  BY DEF Fault
<1>2. \A res : Answer(res) => faults' \in {faults, faults + 1}
  BY <1>1 DEF Answer
<1>3. faults' \in {faults, faults + 1} => (faults' = 0 => faults = 0)
  OBVIOUS
<1>4. CASE Create \/ handle
  <2>1. UNCHANGED job
    BY <1>4 DEF Create, handle, ListOwn, Enqueue, GetPolicy, ListAll, ListExported, Returned, Watching
  <2>2. faults' \in {faults, faults + 1}
    BY <1>1, <1>4 DEF Create, handle, ListOwn, Enqueue, GetPolicy, ListAll, ListExported, Returned, Found, Fails
  <2> QED
    BY <1>3, <2>1, <2>2
<1>5. CASE Controller
  <2>1. faults' \in {faults, faults + 1}
    BY <1>1, <1>2, <1>5 DEF Controller, Reconcile, PatchLabel, CheckPolicy, ListReleases, AnnotateRelease, SetRunning
  <2> QED
    BY <1>3, <1>5, <2>1
<1>6. CASE SuiteEvent \/ SecretEvent \/ PolicyEvent \/ UNCHANGED vars
  BY <1>6 DEF SuiteEvent, SecretEvent, PolicyEvent, vars, bounds
<1>7. CASE Restart
  BY <1>7 DEF Restart
<1>8. CASE Cluster
  BY <1>8 DEF Cluster, RunFinished, SpecEdited, PolicySet, ReleaseCreated, ReleaseEnded,
              ReleaseSuperseded, ReleasePruned, Becomes, Others
<1> QED
  BY <1>4, <1>5, <1>6, <1>7, <1>8 DEF Next

\* At first every suite is queued.
LEMMA LabelledFirst == Init => Labelled
  BY DEF Init, Labelled, Due

\* No step forgets a suite that lacks its label.
LEMMA LabelledNext == Shape /\ Labelled /\ [Next]_vars => Labelled'
<1> SUFFICES ASSUME Shape, Labelled, [Next]_vars, faults' = 0,
                    NEW ns \in Namespaces, Unlabelled(ns)', ~Due(ns)'
             PROVE  Labelling(ns)'
  BY DEF Labelled
<1>1. faults \in Nat /\ faults = 0
  BY JobKept DEF Shape
<1>2. Suites'[ns] = Suites[ns]
  BY Attention
<1>3. Unlabelled(ns)
  BY <1>2 DEF Unlabelled
<1>4. CASE Reconcile
  <2>1. ~Labelling(ns)
    BY <1>4 DEF Reconcile, Labelling, Idle
  <2>2. Due(ns)
    BY <1>1, <1>3, <2>1 DEF Labelled
  <2>3. job' = At("label", ns, Suites[ns])
    BY <1>3, <1>4, <2>2, Taken DEF Unlabelled
  <2> QED
    BY <1>2, <2>3 DEF At, Labelling
<1>5. CASE ~Reconcile
  <2>1. Labelling(ns)
    BY <1>1, <1>3, <1>5, Attention DEF Labelled
  <2>2. CASE UNCHANGED job
    BY <1>2, <2>1, <2>2 DEF Labelling
  <2>3. ~Restart
    <3>1. Restart => ns \in queue'
      BY DEF Restart
    <3> QED
      BY <3>1 DEF Due
  <2>4. CASE PatchLabel
    <3>1. PICK out \in [obj : SuiteSet, res : {"OK", "Error", "Invalid"}] :
            /\ Answer(out.res)
            /\ PublishSuite(ns, out.obj)
            /\ out.res = "OK" => out.obj.label = HelmLabel(ns, Suites[ns].spec)
            /\ out.res = "Invalid" => ~IsLabel(HelmLabel(ns, Suites[ns].spec))
      BY <2>1, <2>4, LabelPatched DEF Labelling
    <3>2. out.res # "Error"
      BY <1>1, <3>1 DEF Answer, Fault
    <3>3. out.res # "Invalid"
      BY <1>3, <3>1 DEF Unlabelled
    <3>4. Suites' = [Suites EXCEPT ![ns] = out.obj] /\ Suites \in [Namespaces -> SuiteSet]
      BY <3>1, SuiteWritten, Copies
    <3>5. Suites[ns].label = HelmLabel(ns, Suites[ns].spec)
      BY <1>2, <3>1, <3>2, <3>3, <3>4
    <3> QED
      BY <1>3, <3>5 DEF Unlabelled, NeedsLabel
  <2>5. ~(CheckPolicy \/ ListReleases \/ AnnotateRelease \/ SetRunning)
    BY <2>1 DEF CheckPolicy, ListReleases, AnnotateRelease, SetRunning, Labelling
  <2> QED
    BY <1>1, <1>5, <2>2, <2>3, <2>4, <2>5, JobKept DEF Controller
<1> QED
  BY <1>4, <1>5

\* A suite that lacks its label is never forgotten.
LEMMA LabelledInvariant == Spec => []Labelled
<1>1. Init => Shape /\ Labelled
  BY ShapeFirst, LabelledFirst
<1>2. Shape /\ Labelled /\ [Next]_vars => (Shape /\ Labelled)'
  BY ShapeNext, LabelledNext
<1> QED
  BY <1>1, <1>2, PTL DEF Spec

\* In a feed that is current everything there is to know is known.
LEMMA NothingDue ==
  ASSUME Shape, Quiescent, NEW ns
  PROVE  ~Due(ns)
<1>1. Len(suiteFeed) = 1 /\ suiteFeed[1] = Suites
  BY Copies, FreshStates DEF Shape, Quiescent, Fresh, Suites
<1> QED
  BY <1>1 DEF Quiescent, Due, Behind

\* While no call fails, the label of a suite follows every edit of its spec
\* (Reconcile patches the label EnqueueForHelmTrigger.handle selects suites by),
\* with caches of any age.
THEOREM AlwaysLabelConverged == Spec => []LabelConverged
<1>1. Shape /\ Labelled => LabelConverged
  <2> SUFFICES ASSUME Shape, Labelled, Quiescent, faults = 0, NEW ns \in Namespaces,
                      Suites[ns].spec # <<>>, IsLabel(HelmLabel(ns, Suites[ns].spec))
               PROVE  Suites[ns].label = HelmLabel(ns, Suites[ns].spec)
    BY DEF LabelConverged
  <2>1. ~Due(ns)
    BY NothingDue
  <2>2. ~Labelling(ns)
    BY DEF Quiescent, Labelling, Idle
  <2> QED
    BY <2>1, <2>2 DEF Labelled, Unlabelled, NeedsLabel
<1> QED
  BY <1>1, ShapeInvariant, LabelledInvariant, PTL

-----------------------------------------------------------------------------
(***************************************************************************)
(* CreatedNoticed.                                                         *)
(***************************************************************************)
\* At first there is no secret.
LEMMA SteadyFirst == Init => Steady
<1> SUFFICES ASSUME Init PROVE Steady
  OBVIOUS
<1>1. Len(secretFeed) = 1 /\ secretFeed[1] = [v \in Versions |-> NoSecret] /\ announced = {}
  BY DEF Init
<1> QED
  BY <1>1 DEF Steady

\* Steady where secrets are only forgotten.
LEMMA SteadyForgets ==
  ASSUME Steady, Secrets' = Secrets, announced' = announced,
         \A k \in 1..Len(secretFeed') : \E m \in 1..Len(secretFeed) : secretFeed'[k] = secretFeed[m]
  PROVE  Steady'
  BY DEF Steady

\* Helm does not deploy a version twice.
LEMMA SteadyHelm ==
  ASSUME Shape, Steady, NEW w \in Versions, Helm(w)
  PROVE  Steady'
<1>1. PICK secret \in SecretSet :
        /\ secretFeed' = Publish(secretFeed, [Secrets EXCEPT ![w] = secret])
        /\ \/ /\ Secrets[w] = NoSecret /\ secret.status \in {"pending", "deployed"}
              /\ announced' = IF secret.status = "deployed" THEN announced \cup {w} ELSE announced
           \/ /\ Secrets[w].status = "pending" /\ secret.status \in {"deployed", "failed"}
              /\ UNCHANGED announced
           \/ /\ Secrets[w].status = "deployed" /\ secret.status = "superseded"
              /\ UNCHANGED announced
           \/ /\ Secrets[w].status = "superseded" /\ secret.status = "pruned"
              /\ UNCHANGED announced
  BY HelmChanges
<1>2. /\ Secrets' = [Secrets EXCEPT ![w] = secret]
      /\ \A k \in 1..Len(secretFeed') :
           k \in 1..Len(secretFeed) \/ (k = Len(secretFeed) + 1 /\ secretFeed'[k] = Secrets')
      /\ \A k \in 1..Len(secretFeed) : k \in 1..Len(secretFeed') /\ secretFeed'[k] = secretFeed[k]
  BY <1>1, SecretWritten
<1>3. Secrets \in [Versions -> SecretSet]
  BY Copies
<1>4. secret.status # "none" /\ NoSecret.status = "none"
  BY <1>1 DEF NoSecret
<1>5. \A k \in 1..Len(secretFeed') : secretFeed'[k] = Secrets' \/ \E m \in 1..Len(secretFeed) : secretFeed'[k] = secretFeed[m]
  BY <1>2
<1>6. ASSUME NEW v \in Versions, v # w
      PROVE  /\ Secrets'[v] = Secrets[v] /\ (v \in announced' <=> v \in announced)
             /\ \A k \in 1..Len(secretFeed') :
                  secretFeed'[k][v] = Secrets[v] \/ \E m \in 1..Len(secretFeed) : secretFeed'[k][v] = secretFeed[m][v]
  <2>1. Secrets'[v] = Secrets[v]
    BY <1>2, <1>3, <1>6
  <2>2. v \in announced' <=> v \in announced
    BY <1>1, <1>6
  <2> QED
    BY <1>5, <2>1, <2>2
<1>7. Secrets'[w] = secret
  BY <1>2, <1>3
<1>8. w \in announced => Secrets[w].status \in {"deployed", "superseded", "pruned"}
  BY DEF Steady
<1>9. w \in announced' /\ secret.status = "deployed" => Secrets[w] = NoSecret
  BY <1>1, <1>8
<1>10. w \in announced' => secret.status \in {"deployed", "superseded", "pruned"}
  BY <1>1, <1>4, <1>8
<1>11. Secrets[w] = NoSecret =>
         \A k \in 1..Len(secretFeed') : secretFeed'[k][w] = NoSecret \/ secretFeed'[k][w] = Secrets'[w]
  BY <1>5 DEF Steady
<1> SUFFICES ASSUME NEW v \in Versions
             PROVE  /\ Secrets'[v] = NoSecret => \A k \in 1..Len(secretFeed') : secretFeed'[k][v] = NoSecret
                    /\ v \in announced' =>
                         /\ Secrets'[v].status \in {"deployed", "superseded", "pruned"}
                         /\ Secrets'[v].status = "deployed" =>
                              \A k \in 1..Len(secretFeed') : secretFeed'[k][v] \in {NoSecret, Secrets'[v]}
  BY DEF Steady
<1>12. CASE v = w
  BY <1>4, <1>7, <1>9, <1>10, <1>11, <1>12
<1>13. CASE v # w
  <2>1. /\ Secrets'[v] = Secrets[v] /\ (v \in announced' <=> v \in announced)
        /\ \A k \in 1..Len(secretFeed') :
             secretFeed'[k][v] = Secrets[v] \/ \E m \in 1..Len(secretFeed) : secretFeed'[k][v] = secretFeed[m][v]
    BY <1>6, <1>13
  <2> QED
    BY <2>1 DEF Steady
<1> QED
  BY <1>12, <1>13

\* The secrets are Helm's alone.
LEMMA SecretsKept ==
  ASSUME [Next]_vars
  PROVE  \/ UNCHANGED <<secretFeed, announced>>
         \/ SecretEvent \/ Restart
         \/ \E v \in Versions : Helm(v)
<1>1. CASE Create \/ handle
  BY <1>1 DEF Create, handle, ListOwn, Enqueue, GetPolicy, ListAll, ListExported, Returned, Watching, caches, history
<1>2. CASE Controller
  BY <1>2 DEF Controller, Reconcile, PatchLabel, CheckPolicy, ListReleases, AnnotateRelease, SetRunning, Locally
<1>3. CASE SuiteEvent \/ PolicyEvent \/ UNCHANGED vars
  BY <1>3 DEF SuiteEvent, PolicyEvent, vars, caches, history
<1>4. CASE Cluster
  BY <1>4 DEF Cluster, Helm, RunFinished, SpecEdited, PolicySet
<1> QED
  BY <1>1, <1>2, <1>3, <1>4 DEF Next

\* Created secrets wait for the handler until it takes them.
LEMMA EventsKept ==
  ASSUME [Next]_vars
  PROVE  UNCHANGED events \/ Create \/ SecretEvent \/ Restart
<1>1. CASE handle
  BY <1>1 DEF handle, ListOwn, Enqueue, GetPolicy, ListAll, ListExported, Returned
<1>2. CASE Controller
  BY <1>2 DEF Controller, Reconcile, PatchLabel, CheckPolicy, ListReleases, AnnotateRelease, SetRunning, Locally
<1>3. CASE SuiteEvent \/ PolicyEvent \/ UNCHANGED vars
  BY <1>3 DEF SuiteEvent, PolicyEvent, vars
<1>4. CASE Cluster
  BY <1>4 DEF Cluster, RunFinished, SpecEdited, PolicySet, ReleaseCreated, ReleaseEnded,
              ReleaseSuperseded, ReleasePruned, Becomes, Others
<1> QED
  BY <1>1, <1>2, <1>3, <1>4 DEF Next

\* A call of the handler is the handler's alone.
LEMMA WatcherKept ==
  ASSUME [Next]_vars, watcher # Idle
  PROVE  UNCHANGED watcher \/ handle \/ Restart
<1>1. ~Create
  BY DEF Create
<1>2. CASE Controller
  BY <1>2 DEF Controller, Reconcile, PatchLabel, CheckPolicy, ListReleases, AnnotateRelease, SetRunning, Locally
<1>3. CASE SuiteEvent \/ SecretEvent \/ PolicyEvent \/ UNCHANGED vars
  BY <1>3 DEF SuiteEvent, SecretEvent, PolicyEvent, vars
<1>4. CASE Cluster
  BY <1>4 DEF Cluster, RunFinished, SpecEdited, PolicySet, ReleaseCreated, ReleaseEnded,
              ReleaseSuperseded, ReleasePruned, Becomes, Others
<1> QED
  BY <1>1, <1>2, <1>3, <1>4 DEF Next

\* Every step keeps what is known of created secrets.
LEMMA SteadyNext == Shape /\ Steady /\ [Next]_vars => Steady'
<1> SUFFICES ASSUME Shape, Steady, [Next]_vars PROVE Steady'
  OBVIOUS
<1>1. CASE UNCHANGED <<secretFeed, announced>>
  BY <1>1 DEF Steady, Secrets
<1>2. CASE SecretEvent
  <2>1. UNCHANGED announced /\ secretFeed' = Tail(secretFeed)
    BY <1>2 DEF SecretEvent, history
  <2>2. /\ Stored(Tail(secretFeed)) = Stored(secretFeed)
        /\ \A k \in 1..Len(Tail(secretFeed)) : \E m \in 1..Len(secretFeed) : Tail(secretFeed)[k] = secretFeed[m]
    BY <1>2, EventStates DEF SecretEvent, Shape
  <2> QED
    BY <2>1, <2>2, SteadyForgets DEF Secrets
<1>3. CASE Restart
  <2>1. UNCHANGED announced /\ secretFeed' = <<Secrets>>
    BY <1>3 DEF Restart, history
  <2>2. Secrets' = Secrets
    BY <2>1 DEF Secrets, Stored
  <2>3. \A k \in 1..Len(secretFeed') : \E m \in 1..Len(secretFeed) : secretFeed'[k] = secretFeed[m]
    <3>1. Len(secretFeed') = 1 /\ secretFeed'[1] = Secrets
      BY <2>1
    <3> QED
      BY <3>1, Copies
  <2> QED
    BY <2>1, <2>2, <2>3, SteadyForgets
<1> QED
  BY <1>1, <1>2, <1>3, SteadyHelm, SecretsKept

\* A version that is overlooked after a step was before it, unless the step is to
\* be heard of.
LEMMA StillOverlooked ==
  ASSUME Shape, Steady, [Next]_vars, NEW v \in Versions, Overlooked(v)', ~Due(Home)', ~Coming(v)'
  PROVE  Overlooked(v) /\ Suites'[Home] = Suites[Home]
<1>1. Home \in Namespaces
  BY ConstantsAssumption
<1>2. Suites'[Home] = Suites[Home]
  BY <1>1, Attention
<1>3. v \in announced /\ Secrets[v] = DeployedSecret
  <2>1. v \in announced' /\ Secrets'[v] = DeployedSecret
    BY DEF Overlooked
  <2>2. CASE UNCHANGED <<secretFeed, announced>>
    BY <2>1, <2>2 DEF Secrets
  <2>3. CASE SecretEvent
    <3>1. UNCHANGED announced /\ secretFeed' = Tail(secretFeed)
      BY <2>3 DEF SecretEvent, history
    <3>2. Stored(Tail(secretFeed)) = Stored(secretFeed)
      BY <2>3, EventStates DEF SecretEvent, Shape
    <3> QED
      BY <2>1, <3>1, <3>2 DEF Secrets
  <2>4. ~Restart
    <3>1. Restart => Home \in queue'
      BY <1>1 DEF Restart
    <3> QED
      BY <3>1 DEF Due
  <2>5. ASSUME NEW w \in Versions, Helm(w) PROVE v \in announced /\ Secrets[v] = DeployedSecret
    <3>1. PICK secret \in SecretSet :
            /\ secretFeed' = Publish(secretFeed, [Secrets EXCEPT ![w] = secret])
            /\ \/ Secrets[w] = NoSecret /\ announced' \subseteq announced \cup {w}
               \/ Secrets[w].status = "pending" /\ UNCHANGED announced
               \/ secret.status \in {"superseded", "pruned"} /\ UNCHANGED announced
      BY <2>5, HelmChanges
    <3>2. /\ Secrets' = [Secrets EXCEPT ![w] = secret]
          /\ \A k \in 1..Len(secretFeed) : k \in 1..Len(secretFeed') /\ secretFeed'[k] = secretFeed[k]
      BY <3>1, SecretWritten
    <3>3. Secrets \in [Versions -> SecretSet]
      BY Copies
    <3>4. CASE v # w
      BY <2>1, <3>1, <3>2, <3>3, <3>4
    <3>5. CASE v = w
      <4>1. secret = DeployedSecret /\ secret.status = "deployed"
        BY <2>1, <3>2, <3>3, <3>5 DEF DeployedSecret
      <4>2. Secrets[v] # NoSecret
        BY <3>2, Copies DEF Coming
      <4>3. v \in announced /\ Secrets[v].status = "pending"
        BY <2>1, <3>1, <3>5, <4>1, <4>2
      <4> QED
        BY <4>3 DEF Steady
    <3> QED
      BY <3>4, <3>5
  <2> QED
    BY <2>2, <2>3, <2>4, <2>5, SecretsKept
<1>4. noticed'[Home] = noticed[Home]
  <2>1. CASE UNCHANGED noticed
    BY <2>1
  <2>2. CASE SetRunning
    <3>1. PICK at \in Namespaces : at = job.ns
      BY <2>2, Numbers DEF SetRunning
    <3>2. PICK out \in [obj : SuiteSet, res : {"OK", "Error", "Conflict"}] :
            /\ PublishSuite(at, out.obj)
            /\ noticed' = IF out.obj.phase = "Running" /\ out.res # "Conflict"
                            THEN [noticed EXCEPT ![at] = job.version] ELSE noticed
      BY <2>2, <3>1, SuiteTriggered
    <3>3. Suites' = [Suites EXCEPT ![at] = out.obj] /\ Suites \in [Namespaces -> SuiteSet]
      BY <3>2, SuiteWritten, Copies
    <3>4. at = Home => out.obj.phase = "Ready"
      BY <1>1, <3>3 DEF Overlooked
    <3> QED
      BY <1>1, <3>2, <3>4 DEF Shape
  <2>3. UNCHANGED noticed \/ SetRunning
    BY OnlyTriggers
  <2> QED
    BY <2>1, <2>2, <2>3
<1> QED
  BY <1>2, <1>3, <1>4 DEF Overlooked

\* The label the controller gives a suite of the release's namespace is the one
\* the watcher looks for, if release and namespace have the same name.
LEMMA LabelOfRelease ==
  ASSUME Home = Release
  PROVE  HelmLabel(Home, <<Release>>) = LabelValue /\ IsLabel(LabelValue)
<1>1. Release # "." /\ Release # "/" /\ Home # "/"
  BY ConstantsAssumption
<1>2. ToSet(<<Release>>) = {Release}
  BY DEF ToSet
<1>3. HelmLabel(Home, <<Release>>) = <<Home, ".">> \o <<Release>>
  BY <1>1, <1>2 DEF HelmLabel
<1>4. <<Home, ".">> \o <<Release>> = <<Home, ".", Release>>
  <2> DEFINE S == {Home, ".", Release}
  <2>1. <<Home, ".">> \in Seq(S) /\ <<Release>> \in Seq(S) /\ <<Home, ".", Release>> \in Seq(S)
    OBVIOUS
  <2> HIDE DEF S
  <2>2. /\ <<Home, ".">> \o <<Release>> \in Seq(S) /\ Len(<<Home, ".">> \o <<Release>>) = 3
        /\ \A i \in 1..3 : (<<Home, ".">> \o <<Release>>)[i] =
             IF i <= 2 THEN <<Home, ".">>[i] ELSE <<Release>>[i - 2]
    BY <2>1, ConcatProperties, SMT
  <2>3. \A i \in 1..3 : (<<Home, ".">> \o <<Release>>)[i] = <<Home, ".", Release>>[i]
    BY <2>2, SMT
  <2> DEFINE s == <<Home, ".">> \o <<Release>>
             t == <<Home, ".", Release>>
  <2>4. s \in Seq(S) /\ t \in Seq(S) /\ Len(s) = 3 /\ Len(t) = 3 /\ \A i \in 1..3 : s[i] = t[i]
    BY <2>1, <2>2, <2>3
  <2> HIDE DEF s, t
  <2>5. s = t
    BY <2>4, SeqEqual
  <2> QED
    BY <2>5 DEF s, t
<1>5. ToSet(<<Release, ".", Home>>) = {Release, ".", Home}
  BY DEF ToSet
<1> QED
  BY <1>1, <1>3, <1>4, <1>5 DEF LabelValue, IsLabel

\* A reconcile of a suite that is ready for the release goes on to list it.
LEMMA ReadyLists ==
  ASSUME Shape, NEW suite \in SuiteSet, suite.phase = "Ready", suite.spec = <<Release>>
  PROVE  notRunning(Home, suite) = At("list", Home, suite)
<1>1. suite.phase # "Running" /\ suite.spec # <<>>
  OBVIOUS
<1>2. ~IsForeign(suite.spec)
  BY DEF IsForeign
<1> QED
  BY <1>1, <1>2 DEF notRunning

\* A created secret reaches the handler, and the handler the suite, if it has its
\* label; otherwise it is about to get it, and will look for the release itself.
LEMMA StillComing ==
  ASSUME Home = Release, Shape, Labelled, Steady, [Next]_vars, faults' = 0, faults = 0,
         NEW v \in Versions, Overlooked(v), Coming(v), ~Due(Home), ~Due(Home)', ~Coming(v)'
  PROVE  Worked(v) /\ UNCHANGED job
<1>1. Home \in Namespaces
  BY ConstantsAssumption
<1>2. ~Restart
  <2>1. Restart => Home \in queue'
    BY <1>1 DEF Restart
  <2> QED
    BY <2>1 DEF Due
<1>3. ~\E k \in 1..Len(secretFeed) : secretFeed[k][v] = NoSecret
  <2> SUFFICES ASSUME NEW k \in 1..Len(secretFeed), secretFeed[k][v] = NoSecret PROVE FALSE
    OBVIOUS
  <2>1. CASE UNCHANGED secretFeed
    BY <2>1 DEF Coming
  <2>2. ASSUME NEW w \in Versions, Helm(w) PROVE FALSE
    <3>1. PICK secret \in SecretSet : secretFeed' = Publish(secretFeed, [Secrets EXCEPT ![w] = secret])
      BY <2>2, HelmChanges
    <3>2. k \in 1..Len(secretFeed') /\ secretFeed'[k] = secretFeed[k]
      BY <2>2, <3>1, SecretWritten
    <3> QED
      BY <3>2 DEF Coming
  <2>3. CASE SecretEvent
    <3>1. secretFeed' = Tail(secretFeed) /\ ~Fresh(secretFeed)
      BY <2>3 DEF SecretEvent
    <3>2. /\ Len(secretFeed) \in Nat /\ Len(secretFeed) >= 2
          /\ \A m \in 2..Len(secretFeed) : m - 1 \in 1..Len(secretFeed') /\ secretFeed'[m - 1] = secretFeed[m]
      BY <3>1, EventDrops DEF Shape
    <3>3. \A m \in 2..Len(secretFeed) : secretFeed[m][v] # NoSecret
      BY <3>2 DEF Coming
    <3>4. k = 1 \/ k \in 2..Len(secretFeed)
      BY <3>2
    <3>5. 2 \in 1..Len(secretFeed) /\ 2 \in 2..Len(secretFeed)
      BY <3>2
    <3>6. secretFeed[1][v] = NoSecret /\ secretFeed[2][v] # NoSecret
      BY <3>3, <3>4, <3>5
    <3>7. secretFeed[2][v] = DeployedSecret
      BY <3>5, <3>6 DEF Overlooked, Steady, DeployedSecret
    <3> DEFINE created == {u \in Versions : secretFeed[1][u] = NoSecret /\ secretFeed[2][u] # NoSecret}
               handed == {secret \in {secretFeed[2][u] : u \in created} : isHelmRelease(secret)}
    <3>8. isHelmRelease(DeployedSecret)
      BY DEF isHelmRelease, DeployedSecret
    <3>9. DeployedSecret \in handed
      BY <3>6, <3>7, <3>8
    <3>10. events' = events \o SetToSeq(handed)
      BY <2>3 DEF SecretEvent
    <3>11. secretFeed[2] \in [Versions -> SecretSet]
      BY <3>5, Copies
    <3>12. SetToSeq(handed) \in Seq(SecretSet) /\ ToSet(SetToSeq(handed)) = handed
      BY <3>11, HandedOver
    <3> HIDE DEF handed
    <3>13. ToSet(events') = ToSet(events) \cup handed
      BY <3>10, <3>12, Joined DEF Shape
    <3> QED
      BY <3>9, <3>13 DEF Coming
  <2> QED
    BY <1>2, <2>1, <2>2, <2>3, SecretsKept
<1>4. DeployedSecret \notin ToSet(events)
  <2> SUFFICES ASSUME DeployedSecret \in ToSet(events) PROVE FALSE
    OBVIOUS
  <2>1. DeployedSecret \notin ToSet(events')
    BY DEF Coming
  <2>2. CASE Create
    <3>1. events # <<>> /\ events' = Tail(events) /\ events \in Seq(SecretSet)
      BY <2>2 DEF Create, Shape
    <3>2. Head(events) = DeployedSecret
      BY <2>1, <3>1, HeadAndTail
    <3>3. ParseHelmReleaseSecret(Head(events))
      BY <3>2 DEF ParseHelmReleaseSecret, DeployedSecret
    <3>4. watcher'.step = "own"
      BY <2>2, <3>3 DEF Create, Calling
    <3> QED
      BY <3>4 DEF Coming
  <2>3. CASE SecretEvent
    <3>1. secretFeed[2] \in [Versions -> SecretSet]
      <4>1. Len(secretFeed) \in Nat /\ Len(secretFeed) >= 2
        BY <2>3, EventDrops DEF SecretEvent, Shape
      <4> QED
        BY <4>1, Copies
    <3> DEFINE created == {u \in Versions : secretFeed[1][u] = NoSecret /\ secretFeed[2][u] # NoSecret}
               handed == {secret \in {secretFeed[2][u] : u \in created} : isHelmRelease(secret)}
    <3>2. events' = events \o SetToSeq(handed)
      BY <2>3 DEF SecretEvent
    <3>3. SetToSeq(handed) \in Seq(SecretSet)
      BY <3>1, HandedOver
    <3> HIDE DEF handed
    <3>4. ToSet(events) \subseteq ToSet(events')
      BY <3>2, <3>3, Joined DEF Shape
    <3> QED
      BY <2>1, <3>4
  <2>4. UNCHANGED events \/ Create \/ SecretEvent \/ Restart
    BY EventsKept
  <2> QED
    BY <1>2, <2>1, <2>2, <2>3, <2>4
<1>5. watcher.step = "own" \/ (watcher # Idle /\ Home \in watcher.found)
  BY <1>3, <1>4 DEF Coming
<1>6. watcher \in Calls /\ watcher # Idle
  BY <1>5 DEF Shape, Idle
<1>7. watcher' # watcher
  BY <1>5, <1>6 DEF Coming
<1>8. handle
  BY <1>2, <1>6, <1>7, WatcherKept
<1>9. CASE ListOwn
  <2>1. ~Fault
    BY DEF Fault
  <2>2. watcher' = Calling("policy", {ns \in {Home} : Subscribed(ns)}, <<>>)
    BY <1>9, <2>1 DEF ListOwn, Found, Fails
  <2>3. watcher'.found = {ns \in {Home} : Subscribed(ns)} /\ watcher' # Idle
    BY <2>2 DEF Calling, Idle
  <2>4. ~Subscribed(Home)
    BY <2>3 DEF Coming
  <2>5. Suites[Home].label # LabelValue
    BY <2>4, Copies DEF Subscribed, Due, Behind
  <2>6. Suites[Home].spec = <<Release>>
    BY DEF Overlooked
  <2>7. Unlabelled(Home)
    <3>1. <<Release>> # <<>>
      OBVIOUS
    <3> QED
      BY <2>5, <2>6, <3>1, LabelOfRelease DEF Unlabelled, NeedsLabel
  <2>8. Labelling(Home)
    BY <1>1, <2>7 DEF Labelled
  <2>9. UNCHANGED job
    BY <1>9 DEF ListOwn, Watching
  <2> QED
    BY <2>8, <2>9 DEF Labelling, Worked, Idle
<1>10. CASE Enqueue
  <2>1. PICK ns \in watcher.found :
          queue' = queue \cup {ns} /\ watcher' = [watcher EXCEPT !.found = @ \ {ns}]
    BY <1>10 DEF Enqueue
  <2>2. ns # Home
    BY <2>1 DEF Due
  <2>3. watcher'.step = watcher.step /\ watcher'.found = watcher.found \ {ns} /\ watcher' # Idle
    BY <1>6, <2>1 DEF Calls, Idle
  <2> QED
    BY <1>5, <2>2, <2>3 DEF Coming
<1>11. CASE GetPolicy \/ ListAll \/ ListExported \/ Returned
  BY <1>5, <1>11 DEF GetPolicy, ListAll, ListExported, Returned, Shape
<1> QED
  BY <1>8, <1>9, <1>10, <1>11 DEF handle


\* A reconcile that works on the suite goes on to the end.
LEMMA StillWorked ==
  ASSUME Home = Release, Shape, Steady, [Next]_vars, faults' = 0, faults = 0,
         NEW v \in Versions, Overlooked(v), Suites'[Home] = Suites[Home], Worked(v),
         ~Due(Home)', ~Coming(v)'
  PROVE  Worked(v)'
<1>1. Home \in Namespaces /\ v \in Nat
  BY ConstantsAssumption
<1>2. ~Restart
  <2>1. Restart => Home \in queue'
    BY <1>1 DEF Restart
  <2> QED
    BY <2>1 DEF Due
<1>3. ~Fault
  BY DEF Fault
<1>4. /\ job \in Jobs /\ job # Idle /\ job.ns = Home /\ job.suite = Suites[Home]
      /\ job.step \in {"label", "list", "annotate", "trigger"}
      /\ job.step \in {"annotate", "trigger"} => job.version >= v
  BY DEF Worked, Shape
<1>5. Suites[Home] \in SuiteSet /\ Suites[Home].phase = "Ready" /\ Suites[Home].spec = <<Release>>
  BY <1>1, Copies DEF Overlooked
<1>6. ~Retry
  BY <1>4 DEF Retry, Due
<1>7. ~Reconcile /\ ~CheckPolicy
  BY <1>4 DEF Reconcile, CheckPolicy
<1>8. CASE UNCHANGED job
  BY <1>4, <1>8 DEF Worked
<1>9. CASE PatchLabel
  <2>1. PICK out \in [obj : SuiteSet, res : {"OK", "Error", "Invalid"}] :
          /\ Answer(out.res)
          /\ PublishSuite(Home, out.obj)
          /\ job' = notRunning(Home, IF out.res = "OK" THEN out.obj ELSE job.suite)
    BY <1>4, <1>9, LabelPatched
  <2>2. out.obj = Suites[Home]
    BY <1>1, <2>1, SuiteWritten, Copies
  <2>3. job' = notRunning(Home, Suites[Home])
    BY <1>4, <2>1, <2>2
  <2>4. job' = At("list", Home, Suites[Home])
    BY <1>5, <2>3, ReadyLists
  <2> QED
    BY <2>4 DEF Worked, At, Idle
<1>10. CASE ListReleases
  <2> DEFINE found == Releases(Home, <<Release>>)
  <2>1. job' = IF found = {} \/ Max(found) = job.suite.last THEN Idle
               ELSE [job EXCEPT !.step = "annotate", !.version = Max(found)]
    BY <1>3, <1>4, <1>5, <1>10 DEF ListReleases
  <2>2. v \in found
    <3>1. UNCHANGED secretFeed
      BY <1>10 DEF ListReleases, Locally
    <3>2. Cached(secretFeed)[v] = DeployedSecret
      BY <3>1, Copies DEF Coming, Steady, Overlooked, DeployedSecret
    <3>3. Observed(Home, <<Release>>) = <<<<Home>>, <<Release>>>>
      <4>1. \A i \in 1..(Len(<<Release>>) - 1) : FALSE
        OBVIOUS
      <4> QED
        BY <4>1 DEF Observed
    <3> QED
      BY <3>2, <3>3 DEF Releases, ParseHelmReleaseSecret, DeployedSecret
  <2>3. found \subseteq Versions /\ found \subseteq Nat /\ IsFiniteSet(found)
    <3>1. found \subseteq Versions
      BY DEF Releases
    <3> QED
      BY <3>1, ConstantsAssumption, FS_Subset
  <2> HIDE DEF found
  <2>4. Max(found) \in found /\ Max(found) >= v
    BY <2>2, <2>3, MaxOfSet
  <2>5. Max(found) # job.suite.last
    BY <1>4, <1>5, <2>3, <2>4, SuiteFields, ConstantsAssumption DEF Unrecorded, Empty
  <2>6. job' = [job EXCEPT !.step = "annotate", !.version = Max(found)]
    BY <2>1, <2>2, <2>5
  <2>7. job' # Idle /\ job'.ns = Home /\ job'.suite = Suites[Home] /\ job'.step = "annotate" /\ job'.version = Max(found)
    BY <1>4, <2>6 DEF Jobs, Idle
  <2> QED
    BY <2>4, <2>7 DEF Worked
<1>11. CASE AnnotateRelease
  <2>1. PICK out \in [obj : SuiteSet, res : {"OK", "Error"}] :
          /\ PublishSuite(Home, out.obj)
          /\ IF out.res = "OK" THEN job' = [job EXCEPT !.step = "trigger", !.suite = out.obj] /\ UNCHANGED queue
             ELSE Retry
    BY <1>4, <1>11, ReleaseAnnotated
  <2>2. out.obj = Suites[Home]
    BY <1>1, <2>1, SuiteWritten, Copies
  <2>3. job' = [job EXCEPT !.step = "trigger", !.suite = Suites[Home]]
    BY <1>6, <2>1, <2>2
  <2>4. job' # Idle /\ job'.ns = Home /\ job'.suite = Suites[Home] /\ job'.step = "trigger" /\ job'.version = job.version
    BY <1>4, <2>3 DEF Jobs, Idle
  <2>5. job.version >= v
    BY <1>4, <1>11 DEF AnnotateRelease
  <2> QED
    BY <2>4, <2>5 DEF Worked
<1>12. CASE SetRunning
  <2>1. PICK out \in [obj : SuiteSet, res : {"OK", "Error", "Conflict"}] :
          /\ PublishSuite(Home, out.obj)
          /\ IF out.res = "OK" THEN job' = Idle /\ UNCHANGED queue ELSE Retry
          /\ out.res = "OK" => out.obj.phase = "Running"
    BY <1>4, <1>12, SuiteTriggered
  <2>2. out.obj = Suites[Home]
    BY <1>1, <2>1, SuiteWritten, Copies
  <2> QED
    BY <1>5, <1>6, <2>1, <2>2
<1>13. UNCHANGED job \/ Controller
  BY <1>2, JobKept DEF Shape
<1> QED
  BY <1>7, <1>8, <1>9, <1>10, <1>11, <1>12, <1>13 DEF Controller

\* At first no secret is there to be overlooked.
LEMMA PursuedFirst == Init => Pursued
  BY DEF Init, Pursued, Overlooked

\* No step forgets a created release that the suite waits for.
LEMMA PursuedNext ==
  ASSUME Home = Release, Shape, Labelled, Steady, Pursued, [Next]_vars
  PROVE  Pursued'
<1> SUFFICES ASSUME faults' = 0, NEW v \in Versions, Overlooked(v)', ~Due(Home)', ~Coming(v)'
             PROVE  Worked(v)'
  BY DEF Pursued
<1>1. Home \in Namespaces
  BY ConstantsAssumption
<1>2. faults = 0
  BY JobKept DEF Shape
<1>3. Overlooked(v) /\ Suites'[Home] = Suites[Home]
  BY StillOverlooked
<1>4. CASE Due(Home)
  <2>1. Reconcile
    BY <1>1, <1>4, Attention
  <2>2. /\ job' = IF NeedsLabel(Home, Suites[Home]) THEN At("label", Home, Suites[Home])
                  ELSE notRunning(Home, Suites[Home])
    BY <1>1, <1>4, <2>1, Taken
  <2>3. notRunning(Home, Suites[Home]) = At("list", Home, Suites[Home])
    BY <1>1, <1>3, Copies, ReadyLists DEF Overlooked
  <2>4. job' \in {At("label", Home, Suites[Home]), At("list", Home, Suites[Home])}
    BY <2>2, <2>3
  <2> QED
    BY <1>3, <2>4 DEF Worked, At, Idle
<1>5. CASE ~Due(Home)
  <2>1. CASE Coming(v)
    <3>1. Worked(v)
      BY <1>2, <1>3, <1>5, <2>1, StillComing
    <3> QED
      BY <1>2, <1>3, <3>1, StillWorked
  <2>2. CASE Worked(v)
    BY <1>2, <1>3, <2>2, StillWorked
  <2> QED
    BY <1>2, <1>3, <1>5, <2>1, <2>2 DEF Pursued
<1> QED
  BY <1>4, <1>5

\* A created release that the suite waits for is never forgotten.
LEMMA PursuedInvariant == Home = Release => (Spec => []Pursued)
<1> SUFFICES ASSUME Home = Release PROVE Spec => []Pursued
  OBVIOUS
<1>1. Init => Steady /\ Pursued
  BY SteadyFirst, PursuedFirst
<1>2. Shape /\ Labelled /\ Steady /\ Pursued /\ [Next]_vars => Steady' /\ Pursued'
  BY SteadyNext, PursuedNext
<1> QED
  BY <1>1, <1>2, ShapeInvariant, LabelledInvariant, PTL DEF Spec

\* While no call fails, a release whose secret is created as deployed is noticed
\* by the ready suite of its namespace that names it, whenever the secret, the
\* label, the events of both and the reconcile come: between the handler's
\* looking for the label and the controller's listing of the releases nothing
\* is lost.  It needs a release named like its namespace, the only case in which
\* the label the controller writes is the one the handler looks for.
THEOREM AlwaysCreatedNoticed == Home = Release => (Spec => []CreatedNoticed)
<1> SUFFICES ASSUME Home = Release PROVE Spec => []CreatedNoticed
  OBVIOUS
<1>1. Shape /\ Pursued => CreatedNoticed
  <2> SUFFICES ASSUME Shape, Pursued, Quiescent, faults = 0, NEW v \in announced,
                      Suites[Home].phase = "Ready", Suites[Home].spec = <<Release>>,
                      Secrets[v] = DeployedSecret
               PROVE  noticed[Home] >= v
    BY DEF CreatedNoticed, Awaited, DeployedSecret
  <2>1. v \in Versions
    BY DEF Shape
  <2>2. ~Due(Home)
    BY NothingDue
  <2>3. ~Worked(v)
    BY DEF Quiescent, Worked
  <2>4. ~Coming(v)
    <3>1. Len(secretFeed) = 1 /\ secretFeed[1] = Secrets
      BY Copies DEF Quiescent, Fresh
    <3>2. Secrets[v] # NoSecret
      BY DEF DeployedSecret, NoSecret
    <3>3. ToSet(events) = {}
      BY DEF Quiescent, ToSet
    <3> QED
      BY <3>1, <3>2, <3>3 DEF Coming, Quiescent, Idle
  <2> QED
    BY <2>1, <2>2, <2>3, <2>4 DEF Pursued, Overlooked
<1> QED
  BY <1>1, ShapeInvariant, PursuedInvariant, PTL

=============================================================================

--------------------------- MODULE KubeApiProofs ----------------------------
(***************************************************************************)
(* Facts about feeds that the proofs about the controllers rest on: what a *)
(* feed holds, what a write adds to it and what a watch event takes away.  *)
(***************************************************************************)
EXTENDS KubeApi, TLAPS, SequenceTheorems

\* What a controller reads from its cache, and what the server has, are states
\* the feed was made of.
LEMMA FeedStates ==
  ASSUME NEW S, NEW feed \in Seq(S), feed # <<>>
  PROVE  /\ Len(feed) \in Nat \ {0}
         /\ Cached(feed) = feed[1]
         /\ Cached(feed) \in S
         /\ Stored(feed) = feed[Len(feed)]
         /\ Stored(feed) \in S
<1>1. Len(feed) \in Nat /\ Len(feed) # 0
  BY EmptySeq
<1>2. \A k \in 1..Len(feed) : feed[k] \in S
  BY ElementOfSeq
<1> QED
  BY <1>1, <1>2 DEF Cached, Stored

\* A write makes the new state the stored one.
LEMMA PublishStates ==
  ASSUME NEW S, NEW feed \in Seq(S), feed # <<>>, NEW new \in S
  PROVE  /\ Publish(feed, new) \in Seq(S)
         /\ Publish(feed, new) # <<>>
         /\ Stored(Publish(feed, new)) = new
<1>1. CASE new = Stored(feed)
  BY <1>1 DEF Publish
<1>2. CASE new # Stored(feed)
  <2>1. /\ Append(feed, new) \in Seq(S)
        /\ Append(feed, new) # <<>>
        /\ Len(Append(feed, new)) = Len(feed) + 1
        /\ \A k \in 1..Len(feed) : Append(feed, new)[k] = feed[k]
        /\ Append(feed, new)[Len(feed) + 1] = new
    BY AppendProperties
  <2>2. Len(feed) \in Nat
    OBVIOUS
  <2> QED
    BY <1>2, <2>1, <2>2 DEF Publish, Stored
<1> QED
  BY <1>1, <1>2

\* A write keeps the states before it and adds no other.
LEMMA PublishKeeps ==
  ASSUME NEW S, NEW feed \in Seq(S), NEW new, NEW k \in 1..Len(Publish(feed, new))
  PROVE  Publish(feed, new)[k] = new \/ \E m \in 1..Len(feed) : Publish(feed, new)[k] = feed[m]
<1>1. CASE new = Stored(feed)
  BY <1>1 DEF Publish
<1>2. CASE new # Stored(feed)
  <2>1. /\ Len(Append(feed, new)) = Len(feed) + 1
        /\ \A i \in 1..Len(feed) : Append(feed, new)[i] = feed[i]
        /\ Append(feed, new)[Len(feed) + 1] = new
    OBVIOUS
  <2>2. Len(feed) \in Nat
    OBVIOUS
  <2> QED
    BY <1>2, <2>1, <2>2 DEF Publish
<1> QED
  BY <1>1, <1>2

\* A watch event forgets the oldest state and changes nothing on the server.
LEMMA EventStates ==
  ASSUME NEW S, NEW feed \in Seq(S), feed # <<>>, ~Fresh(feed)
  PROVE  /\ Tail(feed) \in Seq(S)
         /\ Tail(feed) # <<>>
         /\ Stored(Tail(feed)) = Stored(feed)
         /\ \A k \in 1..Len(Tail(feed)) : \E m \in 1..Len(feed) : Tail(feed)[k] = feed[m]
<1>1. Len(feed) \in Nat /\ Len(feed) # 0 /\ Len(feed) # 1
  BY EmptySeq DEF Fresh
<1>2. /\ Tail(feed) \in Seq(S)
      /\ Len(Tail(feed)) = Len(feed) - 1
      /\ \A k \in 1..Len(Tail(feed)) : Tail(feed)[k] = feed[k + 1]
  BY HeadTailProperties
<1>3. \A k \in 1..Len(Tail(feed)) : k + 1 \in 1..Len(feed)
  BY <1>1, <1>2
<1> QED
  BY <1>1, <1>2, <1>3, EmptySeq DEF Stored

\* A restarted manager has read the server's state and nothing older.
LEMMA RestartStates ==
  ASSUME NEW S, NEW s \in S
  PROVE  /\ <<s>> \in Seq(S)
         /\ <<s>> # <<>>
         /\ Stored(<<s>>) = s
         /\ \A k \in 1..Len(<<s>>) : <<s>>[k] = s
  BY DEF Stored

\* A cache is current after a write only if it was before and the write, which
\* would have caused an event, changed nothing.
LEMMA PublishFresh ==
  ASSUME NEW S, NEW feed \in Seq(S), feed # <<>>, NEW new \in S, Fresh(Publish(feed, new))
  PROVE  Fresh(feed) /\ new = Stored(feed) /\ Publish(feed, new) = feed
<1>1. CASE new = Stored(feed)
  BY <1>1 DEF Publish
<1>2. CASE new # Stored(feed)
  <2>1. Len(feed) \in Nat /\ Len(feed) # 0
    BY EmptySeq
  <2>2. Len(Append(feed, new)) = Len(feed) + 1
    BY AppendProperties
  <2> QED
    BY <1>2, <2>1, <2>2 DEF Publish, Fresh
<1> QED
  BY <1>1, <1>2

\* What a current cache shows is what the server has.
LEMMA FreshStates ==
  ASSUME NEW S, NEW feed \in Seq(S), feed # <<>>, Fresh(feed)
  PROVE  Cached(feed) = Stored(feed)
  BY FeedStates DEF Fresh

\* A write adds at most one state to a feed, its last, and takes none away.
LEMMA PublishExtends ==
  ASSUME NEW S, NEW feed \in Seq(S), NEW new
  PROVE  /\ \A k \in 1..Len(feed) :
              k \in 1..Len(Publish(feed, new)) /\ Publish(feed, new)[k] = feed[k]
         /\ \A k \in 1..Len(Publish(feed, new)) :
              k \in 1..Len(feed) \/ (k = Len(feed) + 1 /\ Publish(feed, new)[k] = new)
<1>1. Len(feed) \in Nat
  OBVIOUS
<1>2. CASE new = Stored(feed)
  BY <1>2 DEF Publish
<1>3. CASE new # Stored(feed)
  <2>1. /\ Len(Append(feed, new)) = Len(feed) + 1
        /\ \A i \in 1..Len(feed) : Append(feed, new)[i] = feed[i]
        /\ Append(feed, new)[Len(feed) + 1] = new
    OBVIOUS
  <2> QED
    BY <1>1, <1>3, <2>1 DEF Publish
<1> QED
  BY <1>2, <1>3

\* How long a feed is after a write.
LEMMA PublishLength ==
  ASSUME NEW S, NEW feed \in Seq(S), NEW new
  PROVE  /\ Len(feed) \in Nat
         /\ Len(Publish(feed, new)) = IF new = Stored(feed) THEN Len(feed) ELSE Len(feed) + 1
<1>1. Len(feed) \in Nat /\ Len(Append(feed, new)) = Len(feed) + 1
  OBVIOUS
<1> QED
  BY <1>1 DEF Publish

\* A watch event drops the first state of a feed.
LEMMA EventDrops ==
  ASSUME NEW S, NEW feed \in Seq(S), feed # <<>>, ~Fresh(feed)
  PROVE  /\ Len(feed) \in Nat /\ Len(feed) >= 2
         /\ Len(Tail(feed)) = Len(feed) - 1
         /\ \A k \in 1..Len(Tail(feed)) : k + 1 \in 1..Len(feed) /\ Tail(feed)[k] = feed[k + 1]
         /\ \A k \in 2..Len(feed) : k - 1 \in 1..Len(Tail(feed)) /\ Tail(feed)[k - 1] = feed[k]
<1>1. Len(feed) \in Nat /\ Len(feed) # 0 /\ Len(feed) # 1
  BY EmptySeq DEF Fresh
<1>2. /\ Len(Tail(feed)) = Len(feed) - 1
      /\ \A k \in 1..Len(Tail(feed)) : Tail(feed)[k] = feed[k + 1]
  BY HeadTailProperties
<1> QED
  BY <1>1, <1>2

-----------------------------------------------------------------------------
\* What one answer to a patch leaves of an object, and what it says.
LEMMA PatchOutcomes ==
  ASSUME NEW obj, NEW new, NEW out \in Patch(obj, new)
  PROVE  /\ out.res \in {"OK", "Error", "NotFound"} /\ out.obj \in {obj, new}
         /\ out.res = "OK" => Exists(obj) /\ out.obj = new
         /\ out.res = "NotFound" => ~Exists(obj) /\ out.obj = new
  BY DEF Patch

\* Likewise for a patch of the finalizers of a custom resource.
LEMMA FinOutcomes ==
  ASSUME NEW obj, NEW fins, NEW out \in PatchFins(obj, fins, "Resource")
  PROVE  /\ out.res \in {"OK", "Error", "NotFound", "Invalid"}
         /\ out.obj \in {obj, Reaped(WithFins(obj, fins))}
         /\ out.res = "OK" => Exists(obj) /\ out.obj = Reaped(WithFins(obj, fins))
         /\ out.res = "NotFound" => ~Exists(obj)
         /\ out.res = "Invalid" => obj.del /\ ~(fins \subseteq obj.fins) /\ out.obj = obj
<1> DEFINE new == Reaped(WithFins(obj, fins))
<1>1. \/ /\ out \in {[obj |-> obj, res |-> "Invalid"], [obj |-> obj, res |-> "Error"]}
         /\ obj.del /\ ~(fins \subseteq obj.fins)
      \/ out \in Patch(obj, new)
  BY DEF PatchFins, Settled
<1> HIDE DEF new
<1>2. CASE out \in Patch(obj, new)
  BY <1>2, PatchOutcomes DEF new
<1> QED
  BY <1>1, <1>2
=============================================================================

-------------------------- MODULE CompactionProofs --------------------------
(***************************************************************************)
(* What the loop over deleted objects does to lists of any length.         *)
(***************************************************************************)
EXTENDS Compaction, TLAPS, SequenceTheorems, FunctionTheorems, FiniteSetTheorems

Entries == [id : 1..Len(list), del : BOOLEAN]

\* The variables' shapes, and the list as it was read.
Shape ==
  /\ list \in Lists
  /\ items \in Seq(Entries)
  /\ i \in Nat /\ j \in Nat
  /\ pc \in {"outer", "inner", "done", "failed"}

\* The loop neither forges nor doubles an object, and loses none that stays.
Genuine  == \A k \in 1..Len(items) : items[k].del = list[items[k].id].del
Distinct == \A k, m \in 1..Len(items) : items[k].id = items[m].id => k = m
Complete == \A l \in Live : \E k \in 1..Len(items) : items[k].id = l

\* What lies before index i stays.
Settled == \A k \in 1..Len(items) : k <= i => ~items[k].del

\* While a gap is filled, the object in it is released and what lies behind
\* index j is deleted.
Gap ==
  pc = "inner" => /\ items[i + 1].del /\ items[i + 1].id \in released
                  /\ \A k \in 1..Len(items) : k > j + 1 => items[k].del

\* The outer loop ends where the list ends.
Ended == pc = "done" => i >= j /\ j = Len(items) /\ i <= Len(items) + 1

\* Deleted objects only are released, and nothing is changed before the first.
Spared ==
  /\ released \subseteq Dropped
  /\ released = {} => items = list

LoopInv ==
  /\ Shape /\ Genuine /\ Distinct /\ Complete /\ Settled
  /\ Gap /\ Ended /\ Spared /\ InRange

-----------------------------------------------------------------------------
\* A function on the first n numbers is a sequence of length n.
LEMMA FunctionIsSeq ==
  ASSUME NEW S, NEW n \in Nat, NEW f \in [1..n -> S]
  PROVE  f \in Seq(S) /\ Len(f) = n
<1>1. f \in Seq(S)
  BY SeqDef, Zenon
<1> QED
  BY <1>1

\* A list as it is read holds each object once, under its own number.
LEMMA ListFacts ==
  ASSUME list \in Lists
  PROVE  /\ Len(list) \in Nat
         /\ list \in Seq(Entries)
         /\ \A k \in 1..Len(list) : list[k].id = k /\ list[k].del \in BOOLEAN
<1>1. PICK n \in 0..MaxLen : list \in {[k \in 1..n |-> [id |-> k, del |-> del[k]]] : del \in [1..n -> BOOLEAN]}
  BY DEF Lists
<1>2. PICK del \in [1..n -> BOOLEAN] : list = [k \in 1..n |-> [id |-> k, del |-> del[k]]]
  BY <1>1
<1>3. n \in Nat
  BY <1>1, MaxLenAssumption
<1>4. list \in Seq([id : 1..n, del : BOOLEAN]) /\ Len(list) = n
  <2> DEFINE E == [id : 1..n, del : BOOLEAN]
  <2>1. list \in [1..n -> E]
    BY <1>2
  <2> HIDE DEF E
  <2>2. list \in Seq(E) /\ Len(list) = n
    BY <1>3, <2>1, FunctionIsSeq
  <2> QED
    BY <2>2 DEF E
<1>5. \A k \in 1..Len(list) : list[k].id = k /\ list[k].del \in BOOLEAN
  BY <1>2, <1>4
<1> QED
  BY <1>3, <1>4, <1>5 DEF Entries

\* What is left of the list when it is cut after index n.
LEMMA CutOff ==
  ASSUME NEW S, NEW s \in Seq(S), NEW n \in Nat, n <= Len(s)
  PROVE  /\ SubSeq(s, 1, n) \in Seq(S)
         /\ Len(SubSeq(s, 1, n)) = n
         /\ \A k \in 1..n : SubSeq(s, 1, n)[k] = s[k]
<1>1. \A k \in 1..n : s[k] \in S
  BY ElementOfSeq
<1> QED
  BY <1>1, SubSeqProperties

\* What is moved to position g is found there, and only there.
LEMMA Moved ==
  ASSUME NEW S, NEW s \in Seq(S), NEW g \in 1..Len(s), NEW x \in S
  PROVE  /\ [s EXCEPT ![g] = x] \in Seq(S)
         /\ Len([s EXCEPT ![g] = x]) = Len(s)
         /\ \A k \in 1..Len(s) : [s EXCEPT ![g] = x][k] = IF k = g THEN x ELSE s[k]
  BY ExceptSeq

\* Before the first turn nothing is done yet.
LEMMA InitLoop == Init => LoopInv
<1> SUFFICES ASSUME Init PROVE LoopInv
  OBVIOUS
<1>1. /\ list \in Lists /\ items = list /\ i = 0 /\ j = Len(list) /\ pc = "outer" /\ released = {}
  BY DEF Init
<1>2. /\ Len(list) \in Nat /\ list \in Seq(Entries)
      /\ \A k \in 1..Len(list) : list[k].id = k /\ list[k].del \in BOOLEAN
  BY <1>1, ListFacts
<1>3. Shape
  BY <1>1, <1>2 DEF Shape
<1>4. Genuine /\ Distinct /\ Complete /\ Settled
  BY <1>1, <1>2 DEF Genuine, Distinct, Complete, Settled, Live
<1>5. Spared
  BY <1>1 DEF Spared
<1>6. Gap /\ Ended /\ InRange
  BY <1>1, <1>2 DEF Gap, Ended, InRange
<1> QED
  BY <1>3, <1>4, <1>5, <1>6 DEF LoopInv

\* An item that is deleted was deleted when the list was read.
LEMMA WasDeleted ==
  ASSUME Shape, Genuine, NEW k \in 1..Len(items), items[k].del
  PROVE  items[k].id \in Dropped
<1>1. items[k] \in Entries
  BY ElementOfSeq DEF Shape
<1> QED
  BY <1>1 DEF Entries, Dropped, Genuine

\* A turn of either loop keeps the invariant.
LEMMA NextLoop == LoopInv /\ [Next]_vars => LoopInv'
<1> SUFFICES ASSUME LoopInv, [Next]_vars PROVE LoopInv'
  OBVIOUS
<1>1. /\ list \in Lists /\ items \in Seq(Entries) /\ i \in Nat /\ j \in Nat /\ Len(items) \in Nat
      /\ Genuine /\ Distinct /\ Complete /\ Settled /\ Gap /\ Ended /\ Spared /\ InRange
      /\ \A k \in 1..Len(items) : items[k] \in Entries
  BY ElementOfSeq DEF LoopInv, Shape
<1>2. Shape /\ Genuine
  BY DEF LoopInv
<1>3. CASE Keep
  <2>1. /\ pc = "outer" /\ i < j /\ ~items[i + 1].del /\ i' = i + 1
        /\ UNCHANGED <<list, items, j, pc, released>>
    BY <1>3 DEF Keep
  <2>2. Shape' /\ Genuine' /\ Distinct' /\ Complete'
    BY <1>1, <2>1 DEF Shape, Entries, Genuine, Distinct, Complete, Live
  <2>3. Settled'
    BY <1>1, <2>1 DEF Settled
  <2>4. Gap' /\ Ended' /\ InRange'
    BY <1>1, <2>1 DEF Gap, Ended, InRange
  <2>5. Spared'
    BY <1>1, <2>1 DEF Spared, Dropped
  <2> QED
    BY <2>2, <2>3, <2>4, <2>5 DEF LoopInv
<1>4. CASE Release
  <2>1. /\ pc = "outer" /\ i < j /\ items[i + 1].del
        /\ released' = released \cup {items[i + 1].id}
        /\ j' = j - 1 /\ pc' = "inner" /\ UNCHANGED <<list, items, i>>
    BY <1>4 DEF Release
  <2>2. j = Len(items) /\ i + 1 \in 1..Len(items) /\ j' \in Nat
    BY <1>1, <2>1 DEF InRange
  <2>3. Shape' /\ Genuine' /\ Distinct' /\ Complete' /\ Settled'
    BY <1>1, <2>1, <2>2 DEF Shape, Entries, Genuine, Distinct, Complete, Live, Settled
  <2>4. Gap' /\ Ended' /\ InRange'
    BY <1>1, <2>1, <2>2 DEF Gap, Ended, InRange
  <2>5. Spared'
    <3>1. items[i + 1].id \in Dropped
      BY <1>2, <2>1, <2>2, WasDeleted
    <3> QED
      BY <1>1, <2>1, <3>1 DEF Spared, Dropped
  <2> QED
    BY <2>3, <2>4, <2>5 DEF LoopInv
<1>5. CASE ReleaseFails
  <2>1. pc' = "failed" /\ UNCHANGED <<list, items, i, j, released>>
    BY <1>5 DEF ReleaseFails
  <2>2. Shape' /\ Genuine' /\ Distinct' /\ Complete' /\ Settled'
    BY <1>1, <2>1 DEF Shape, Entries, Genuine, Distinct, Complete, Live, Settled
  <2>3. Gap' /\ Ended' /\ InRange' /\ Spared'
    BY <1>1, <2>1 DEF Gap, Ended, InRange, Spared, Dropped
  <2> QED
    BY <2>2, <2>3 DEF LoopInv
<1>6. CASE Move
  <2> DEFINE moved == [items EXCEPT ![i + 1] = items[j + 1]]
  <2>1. /\ pc = "inner" /\ i < j /\ ~items[j + 1].del
        /\ items' = SubSeq(moved, 1, j)
        /\ i' = i + 1 /\ pc' = "outer" /\ UNCHANGED <<list, j, released>>
    BY <1>6 DEF Move
  <2>2. /\ j < Len(items) /\ i + 1 \in 1..Len(items) /\ j + 1 \in 1..Len(items)
        /\ items[i + 1].del /\ \A k \in 1..Len(items) : k > j + 1 => items[k].del
    BY <1>1, <2>1 DEF InRange, Gap
  <2>3. /\ items' \in Seq(Entries) /\ Len(items') = j
        /\ \A k \in 1..j : items'[k] = IF k = i + 1 THEN items[j + 1] ELSE items[k]
    <3>1. /\ moved \in Seq(Entries) /\ Len(moved) = Len(items)
          /\ \A k \in 1..Len(items) : moved[k] = IF k = i + 1 THEN items[j + 1] ELSE items[k]
      BY <1>1, <2>2, Moved
    <3> QED
      BY <1>1, <2>1, <2>2, <3>1, CutOff
  <2>4. Shape'
    BY <1>1, <2>1, <2>3 DEF Shape, Entries
  <2>5. Genuine' /\ Distinct' /\ Settled'
    BY <1>1, <2>1, <2>2, <2>3 DEF Genuine, Distinct, Settled
  <2>6. Complete'
    <3>1. SUFFICES ASSUME NEW l \in Live PROVE \E k \in 1..j : items'[k].id = l
      BY <2>1, <2>3 DEF Complete, Live
    <3>2. PICK k \in 1..Len(items) : items[k].id = l
      BY <1>1 DEF Complete
    <3>3. ~items[k].del
      BY <1>1, <3>2 DEF Genuine, Live
    <3>4. k \in 1..(j + 1) /\ k # i + 1
      BY <1>1, <2>2, <3>3
    <3>5. CASE k = j + 1
      <4>1. items'[i + 1] = items[j + 1] /\ i + 1 \in 1..j
        BY <1>1, <2>1, <2>3
      <4> QED
        BY <3>2, <3>5, <4>1
    <3>6. CASE k \in 1..j
      BY <2>3, <3>2, <3>4, <3>6
    <3> QED
      BY <1>1, <3>4, <3>5, <3>6
  <2>7. Gap' /\ Ended' /\ InRange'
    BY <1>1, <2>1, <2>3 DEF Gap, Ended, InRange
  <2>8. Spared'
    BY <1>1, <2>1, <2>2 DEF Spared, Dropped, Gap
  <2> QED
    BY <2>4, <2>5, <2>6, <2>7, <2>8 DEF LoopInv
<1>7. CASE Skip
  <2>1. /\ pc = "inner" /\ i < j /\ items[j + 1].del
        /\ released' = released \cup {items[i + 1].id}
        /\ j' = j - 1 /\ UNCHANGED <<list, items, i, pc>>
    BY <1>7 DEF Skip
  <2>2. /\ j < Len(items) /\ items[i + 1].id \in released /\ j' \in Nat
        /\ items[i + 1].del /\ \A k \in 1..Len(items) : k > j + 1 => items[k].del
    BY <1>1, <2>1 DEF InRange, Gap
  <2>3. released' = released
    BY <2>1, <2>2
  <2>4. Shape' /\ Genuine' /\ Distinct' /\ Complete' /\ Settled'
    BY <1>1, <2>1, <2>2 DEF Shape, Entries, Genuine, Distinct, Complete, Live, Settled
  <2>5. \A k \in 1..Len(items) : k > j' + 1 => items[k].del
    BY <1>1, <2>1, <2>2
  <2>6. Gap' /\ Ended' /\ InRange'
    BY <1>1, <2>1, <2>2, <2>5 DEF Gap, Ended, InRange
  <2>7. Spared'
    BY <1>1, <2>1, <2>3 DEF Spared, Dropped
  <2> QED
    BY <2>4, <2>6, <2>7 DEF LoopInv
<1>8. CASE Cut
  <2>1. /\ pc = "inner" /\ i >= j /\ items' = SubSeq(items, 1, j)
        /\ i' = i + 1 /\ pc' = "outer" /\ UNCHANGED <<list, j, released>>
    BY <1>8 DEF Cut
  <2>2. /\ j < Len(items) /\ i = j
        /\ items[i + 1].del /\ \A k \in 1..Len(items) : k > j + 1 => items[k].del
    BY <1>1, <2>1 DEF InRange, Gap
  <2>3. /\ items' \in Seq(Entries) /\ Len(items') = j
        /\ \A k \in 1..j : items'[k] = items[k]
    BY <1>1, <2>1, <2>2, CutOff
  <2>4. Shape'
    BY <1>1, <2>1, <2>3 DEF Shape, Entries
  <2>5. Genuine' /\ Distinct' /\ Settled'
    BY <1>1, <2>1, <2>2, <2>3 DEF Genuine, Distinct, Settled
  <2>6. Complete'
    <3>1. SUFFICES ASSUME NEW l \in Live PROVE \E k \in 1..j : items'[k].id = l
      BY <2>1, <2>3 DEF Complete, Live
    <3>2. PICK k \in 1..Len(items) : items[k].id = l
      BY <1>1 DEF Complete
    <3>3. ~items[k].del
      BY <1>1, <3>2 DEF Genuine, Live
    <3>4. k \in 1..j
      BY <1>1, <2>2, <3>3
    <3> QED
      BY <2>3, <3>2, <3>4
  <2>7. Gap' /\ Ended' /\ InRange'
    BY <1>1, <2>1, <2>2, <2>3 DEF Gap, Ended, InRange
  <2>8. Spared'
    BY <1>1, <2>1, <2>2 DEF Spared, Dropped, Gap
  <2> QED
    BY <2>4, <2>5, <2>6, <2>7, <2>8 DEF LoopInv
<1>9. CASE Finish
  <2>1. pc = "outer" /\ i >= j /\ pc' = "done" /\ UNCHANGED <<list, items, i, j, released>>
    BY <1>9 DEF Finish
  <2>2. Shape' /\ Genuine' /\ Distinct' /\ Complete' /\ Settled'
    BY <1>1, <2>1 DEF Shape, Entries, Genuine, Distinct, Complete, Live, Settled
  <2>3. Gap' /\ Ended' /\ InRange' /\ Spared'
    BY <1>1, <2>1 DEF Gap, Ended, InRange, Spared, Dropped
  <2> QED
    BY <2>2, <2>3 DEF LoopInv
<1>10. CASE UNCHANGED vars
  BY <1>10 DEF vars, LoopInv, Shape, Entries, Genuine, Distinct, Complete, Live, Settled, Gap,
               Ended, InRange, Spared, Dropped
<1> QED
  BY <1>3, <1>4, <1>5, <1>6, <1>7, <1>8, <1>9, <1>10 DEF Next

\* The loop's invariant holds for lists of every length.
THEOREM LoopInvariant == Spec => []LoopInv
  BY InitLoop, NextLoop, PTL DEF Spec

\* No turn of either loop reads an item past the end of the list, however
\* often the list was cut: the code cannot panic here.
THEOREM AlwaysInRange == Spec => []InRange
<1>1. LoopInv => InRange
  BY DEF LoopInv
<1> QED
  BY <1>1, LoopInvariant, PTL

\* At the end there is one item for each object that stays.
LEMMA LeftOver ==
  ASSUME LoopInv, pc = "done"
  PROVE  /\ Len(items) = Cardinality(Live)
         /\ {items[k].id : k \in 1..Len(items)} = Live
         /\ \A k \in 1..Len(items) : ~items[k].del
<1> DEFINE f == [k \in 1..Len(items) |-> items[k].id]
<1>1. /\ Len(items) \in Nat /\ i \in Nat /\ j = Len(items) /\ i >= j
      /\ Genuine /\ Distinct /\ Complete /\ Settled
      /\ \A k \in 1..Len(items) : items[k] \in Entries
  BY ElementOfSeq DEF LoopInv, Shape, Ended
<1>2. \A k \in 1..Len(items) : ~items[k].del
  BY <1>1 DEF Settled
<1>3. \A k \in 1..Len(items) : items[k].id \in Live
  BY <1>1, <1>2 DEF Genuine, Live, Entries
<1>4. f \in Bijection(1..Len(items), Live)
  <2>1. f \in [1..Len(items) -> Live]
    BY <1>3
  <2>2. \A a, b \in 1..Len(items) : f[a] = f[b] => a = b
    BY <1>1 DEF Distinct
  <2>3. \A l \in Live : \E k \in 1..Len(items) : f[k] = l
    BY <1>1 DEF Complete
  <2> QED
    BY <2>1, <2>2, <2>3, Fun_IsBij
<1>5. Len(items) = Cardinality(Live)
  BY <1>1, <1>4, FS_CountingElements DEF ExistsBijection
<1> QED
  BY <1>1, <1>2, <1>3, <1>5 DEF Complete

\* Whatever is deleted in a list of any length, the loop leaves exactly the
\* other objects, each of them once: closing gaps from the end of the list
\* loses and doubles none.
THEOREM AlwaysLeavesLive == Spec => []LeavesLive
<1>1. LoopInv => LeavesLive
  BY LeftOver DEF LeavesLive
<1> QED
  BY <1>1, LoopInvariant, PTL

\* The finalizer is taken from deleted objects only, and a loop that ends has
\* taken it from one if there was any: otherwise nothing was moved or cut, and
\* the list it leaves would still have a deleted object.
THEOREM AlwaysReleasesDeleted == Spec => []ReleasesDeleted
<1>1. ASSUME LoopInv PROVE ReleasesDeleted
  <2>1. released \subseteq Dropped
    BY <1>1 DEF LoopInv, Spared
  <2>2. ASSUME pc = "done", released = {}
        PROVE  Dropped = {}
    <3>1. \A k \in 1..Len(items) : ~items[k].del
      BY <1>1, <2>2, LeftOver
    <3> QED
      BY <1>1, <2>2, <3>1 DEF LoopInv, Spared, Dropped
  <2> QED
    BY <2>1, <2>2 DEF ReleasesDeleted
<1> QED
  BY <1>1, LoopInvariant, PTL
=============================================================================

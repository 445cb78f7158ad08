----------------------------- MODULE Compaction -----------------------------
(***************************************************************************)
(* The loop both testrun_controller.go (Tests of a run) and                *)
(* testsuite_controller.go (TestRuns of a suite) run over the objects they *)
(* control: take the finalizer from the deleted ones and close the gaps    *)
(* with objects from the end of the list.                                  *)
(*                                                                         *)
(* The indices i and j are the code's, so the item at index k is           *)
(* items[k + 1].                                                           *)
(***************************************************************************)
EXTENDS Naturals, Sequences, FiniteSets

CONSTANT MaxLen   \* length of the longest list

ASSUME MaxLenAssumption == MaxLen \in Nat

VARIABLES
  list,      \* the list as it was read
  items,     \* the list the loop works on
  i, j,      \* the loop's indices
  pc,        \* "outer", "inner", "done" or "failed"
  released   \* the objects whose finalizer was removed

vars == <<list, items, i, j, pc, released>>

Lists == UNION {{[k \in 1..n |-> [id |-> k, del |-> del[k]]] : del \in [1..n -> BOOLEAN]} : n \in 0..MaxLen}

Live    == {k \in 1..Len(list) : ~list[k].del}
Dropped == {k \in 1..Len(list) : list[k].del}

Init ==
  /\ list \in Lists
  /\ items = list
  /\ i = 0
  /\ j = Len(list)
  /\ pc = "outer"
  /\ released = {}

\* Mutant: the index does not advance.
Keep_Again ==
  /\ pc = "outer" /\ i < j
  /\ ~items[i + 1].del
  /\ UNCHANGED vars

\* The outer loop meets an object that stays.
Keep ==
  /\ pc = "outer" /\ i < j
  /\ ~items[i + 1].del
  /\ i' = i + 1
  /\ UNCHANGED <<list, items, j, pc, released>>

\* Mutant: the last object is released instead.
Release_Last ==
  /\ pc = "outer" /\ i < j
  /\ items[i + 1].del
  /\ released' = released \cup {items[j].id}
  /\ j' = j - 1
  /\ pc' = "inner"
  /\ UNCHANGED <<list, items, i>>

\* The outer loop meets a deleted object: release it and look for another.
Release ==
  /\ pc = "outer" /\ i < j
  /\ items[i + 1].del
  /\ released' = released \cup {items[i + 1].id}
  /\ j' = j - 1
  /\ pc' = "inner"
  /\ UNCHANGED <<list, items, i>>

\* The call that removes the finalizer fails and the reconcile returns.
ReleaseFails ==
  /\ \/ pc = "outer" /\ i < j /\ items[i + 1].del
     \/ pc = "inner" /\ i < j /\ items[j + 1].del
  /\ pc' = "failed"
  /\ UNCHANGED <<list, items, i, j, released>>

\* Mutants: the moved object is not cut off; it is cut off and not moved.
Move_NotCut ==
  /\ pc = "inner" /\ i < j
  /\ ~items[j + 1].del
  /\ items' = [items EXCEPT ![i + 1] = items[j + 1]]
  /\ i' = i + 1
  /\ pc' = "outer"
  /\ UNCHANGED <<list, j, released>>
Move_CutOnly ==
  /\ pc = "inner" /\ i < j
  /\ ~items[j + 1].del
  /\ items' = SubSeq(items, 1, j)
  /\ i' = i + 1
  /\ pc' = "outer"
  /\ UNCHANGED <<list, j, released>>

\* The inner loop finds an object that stays and moves it to the gap.
Move ==
  /\ pc = "inner" /\ i < j
  /\ ~items[j + 1].del
  /\ items' = SubSeq([items EXCEPT ![i + 1] = items[j + 1]], 1, j)
  /\ i' = i + 1
  /\ pc' = "outer"
  /\ UNCHANGED <<list, j, released>>

\* The inner loop finds another deleted object.  What it releases is the one
\* at index i, which is released already, and not the one at index j.
Skip ==
  /\ pc = "inner" /\ i < j
  /\ items[j + 1].del
  /\ released' = released \cup {items[i + 1].id}
  /\ j' = j - 1
  /\ UNCHANGED <<list, items, i, pc>>

\* The inner loop finds nothing: the list ends at the gap.
Cut ==
  /\ pc = "inner" /\ i >= j
  /\ items' = SubSeq(items, 1, j)
  /\ i' = i + 1
  /\ pc' = "outer"
  /\ UNCHANGED <<list, j, released>>

Finish ==
  /\ pc = "outer" /\ i >= j
  /\ pc' = "done"
  /\ UNCHANGED <<list, items, i, j, released>>

Next == Keep \/ Release \/ ReleaseFails \/ Move \/ Skip \/ Cut \/ Finish

Spec == Init /\ [][Next]_vars

FairSpec == Spec /\ WF_vars(Next)

-----------------------------------------------------------------------------
\* Both indices stay within the list they index, in either loop: no item is
\* read past the end of a list that was cut.
InRange ==
  /\ pc = "outer" => i <= Len(items) + 1 /\ j = Len(items)
  /\ pc = "inner" => i <= j /\ j < Len(items)

\* The loop leaves exactly the objects that are not deleted, each of them once.
LeavesLive ==
  pc = "done" =>
    /\ Len(items) = Cardinality(Live)
    /\ {items[k].id : k \in 1..Len(items)} = Live

\* The finalizer is taken from deleted objects only, and a loop that ends has
\* taken it from one if there was any.  (From every one, the comments say: that
\* is ReleasesAll below, which the code does not keep.)
ReleasesDeleted ==
  /\ released \subseteq Dropped
  /\ pc = "done" /\ Dropped # {} => released # {}

\* The loop ends.
Terminates == <>(pc \in {"done", "failed"})

-----------------------------------------------------------------------------
(***************************************************************************)
(* A statement of the repository that the code does not keep.              *)
(***************************************************************************)

\* "This test is also deleted, remove the finalizer and continue iterating
\* down" (testrun_controller.go, testsuite_controller.go): at the end every
\* deleted object is released.
ReleasesAll == pc = "done" => released = Dropped
=============================================================================

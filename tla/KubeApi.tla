------------------------------ MODULE KubeApi ------------------------------
(***************************************************************************)
(* The Kubernetes API as konfirm's controllers use it: objects with        *)
(* finalizers, merge patches, deletion, and the watch-fed cache every Get  *)
(* and List of a controller reads.  The three helpers of                   *)
(* controllers/helpers.go that change objects (addFinalizer,               *)
(* removeFinalizer, cleanUp) are here too, as the sets of outcomes one     *)
(* call can have.                                                          *)
(*                                                                         *)
(* An object is a record with at least                                     *)
(*   phase - its status.phase, or "Unborn" before it is created and "Gone" *)
(*           after the server removed it (names are never reused),         *)
(*   del   - metadata.deletionTimestamp is set,                            *)
(*   fins  - the set metadata.finalizers.                                  *)
(*                                                                         *)
(* A kind of objects is a feed: the sequence of the server's states from   *)
(* the one the controller's cache shows (the first) to the server's own    *)
(* (the last).  A write appends, a watch event drops the first, so a cache *)
(* goes through every state of its kind, in order, at its own pace.        *)
(***************************************************************************)
EXTENDS Naturals, Sequences

Cached(feed) == Head(feed)
Stored(feed) == feed[Len(feed)]
Fresh(feed) == Len(feed) = 1

\* A write that changes nothing is not a new version and causes no event.
Publish(feed, state) == IF state = Stored(feed) THEN feed ELSE Append(feed, state)

-----------------------------------------------------------------------------
Exists(obj) == obj.phase \notin {"Unborn", "Gone"}

\* A custom resource disappears with its last finalizer once it is deleted.
Reaped(obj) ==
  IF Exists(obj) /\ obj.del /\ obj.fins = {}
    THEN [obj EXCEPT !.phase = "Gone"] ELSE obj

\* What the server makes of an object after a write: a Pod that is deleted and
\* has no finalizer stays until its node lets go.
Settled(kind, obj) == IF kind = "Pod" THEN obj ELSE Reaped(obj)

Deleted(obj) == IF Exists(obj) THEN [obj EXCEPT !.del = TRUE] ELSE obj

WithFins(obj, fins) == IF Exists(obj) THEN [obj EXCEPT !.fins = fins] ELSE obj

(***************************************************************************)
(* The outcomes of one patch that turns obj into new: applied, refused as  *)
(* NotFound, or failed - before the server applied it or after (the reply  *)
(* is lost).                                                               *)
(***************************************************************************)
Patch(obj, new) ==
  {[obj |-> x, res |-> "Error"] : x \in {obj, new}}
    \cup {[obj |-> new, res |-> IF Exists(obj) THEN "OK" ELSE "NotFound"]}

\* A merge patch carries the fields in which new differs from the copy it was
\* made from, and leaves what obj has in the others.
Merged(obj, copy, new) ==
  IF Exists(obj) THEN [f \in DOMAIN obj |-> IF new[f] = copy[f] THEN obj[f] ELSE new[f]] ELSE obj

\* The patch carries the whole list computed from the caller's copy, so it
\* overwrites what others did to the list; a deleted object gains none.
PatchFins(obj, fins, kind) ==
  IF Exists(obj) /\ obj.del /\ ~(fins \subseteq obj.fins)
    THEN {[obj |-> obj, res |-> "Invalid"], [obj |-> obj, res |-> "Error"]}
    ELSE Patch(obj, Settled(kind, WithFins(obj, fins)))

addFinalizer(copy, obj, fin, kind) == PatchFins(obj, copy.fins \cup {fin}, kind)

removeFinalizer(copy, obj, fin, kind) == PatchFins(obj, copy.fins \ {fin}, kind)

(***************************************************************************)
(* cleanUp deletes obj unless the caller's copy says it is deleted, then   *)
(* removes the finalizer if the copy has it.  A NotFound of the delete     *)
(* ends it without error, a NotFound of the patch is returned.             *)
(***************************************************************************)
cleanUp(copy, obj, fin, kind) ==
  LET deleted == IF copy.del THEN obj ELSE Settled(kind, Deleted(obj))
      failed  == IF copy.del THEN {} ELSE {[obj |-> x, res |-> "Error"] : x \in {obj, deleted}}
      patched == IF fin \in copy.fins /\ (copy.del \/ Exists(obj))
                   THEN PatchFins(deleted, copy.fins \ {fin}, kind)
                   ELSE {[obj |-> deleted, res |-> "OK"]}
  IN  failed \cup patched
=============================================================================

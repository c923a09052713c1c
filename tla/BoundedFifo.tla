---------------------------- MODULE BoundedFifo ----------------------------
(***************************************************************************)
(* What FixLenLockFreeQueue promises: a bounded first-in first-out queue.  *)
(* An item takes its place first and becomes ready later; only a ready     *)
(* item at the front can be taken.                                         *)
(***************************************************************************)
EXTENDS Integers, Sequences

CONSTANTS Value, Capacity

VARIABLE items   \* [value, ready], front first

Init == items = <<>>

Reserve(v) ==
  /\ Len(items) < Capacity
  /\ items' = Append(items, [value |-> v, ready |-> FALSE])

Publish(i) ==
  /\ ~items[i].ready
  /\ items' = [items EXCEPT ![i].ready = TRUE]

Take ==
  /\ items # <<>>
  /\ items[1].ready
  /\ items' = Tail(items)

Next == \/ \E v \in Value : Reserve(v)
        \/ \E i \in DOMAIN items : Publish(i)
        \/ Take

Spec == Init /\ [][Next]_items
=============================================================================

----------------------------- MODULE BoundedFifo -----------------------------
(***************************************************************************)
(* What a single-ended ring promises: a first-in first-out queue of at most *)
(* capacity entries.  out records what was removed, in order.              *)
(***************************************************************************)
EXTENDS Naturals, Sequences

CONSTANTS Values, Capacities

VARIABLES items, capacity, out

Init == items = <<>> /\ out = <<>> /\ capacity \in Capacities

Insert(v) ==
  /\ Len(items) < capacity
  /\ items' = Append(items, v)
  /\ UNCHANGED <<capacity, out>>

Remove ==
  /\ items # <<>>
  /\ out' = Append(out, Head(items))
  /\ items' = Tail(items)
  /\ UNCHANGED capacity

(* A smaller queue keeps its oldest entries.                                *)
Resize(n) ==
  /\ capacity' = n
  /\ items' = SubSeq(items, 1, IF Len(items) < n THEN Len(items) ELSE n)
  /\ UNCHANGED out

Next == \/ \E v \in Values : Insert(v)
        \/ Remove
        \/ \E n \in Capacities : Resize(n)

Spec == Init /\ [][Next]_<<items, capacity, out>>
=============================================================================

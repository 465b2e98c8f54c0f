----------------------------- MODULE TicketFifo -----------------------------
(***************************************************************************)
(* What a multi-producer single-consumer ticket queue promises, without a  *)
(* ring, indices or flags.  Places are handed out in arrival order and     *)
(* filled in any order; only the entry at the front, and only once it is   *)
(* filled, reaches the consumer, who takes or discards it.  Nothing else   *)
(* is lost, repeated, overtaken or seen half-filled.                       *)
(***************************************************************************)
EXTENDS Naturals, Sequences

CONSTANTS
  Values,  \* what producers put into the queue
  Unread   \* stands in out for an entry that was discarded

VARIABLES
  queue,   \* the places in order: their value and whether it is filled in
  out      \* what the consumer got, in order

Init == queue = <<>> /\ out = <<>>

(* A producer gets the place at the back for its value v.                   *)
Reserve(v) ==
  /\ queue' = Append(queue, [val |-> v, ready |-> FALSE])
  /\ UNCHANGED out

(* The value of place i is complete.                                        *)
Publish(i) ==
  /\ ~queue[i].ready
  /\ queue' = [queue EXCEPT ![i].ready = TRUE]
  /\ UNCHANGED out

(* The consumer removes the front entry, with or without its value.         *)
Remove ==
  /\ queue # <<>> /\ Head(queue).ready
  /\ queue' = Tail(queue)
  /\ \/ out' = Append(out, Head(queue).val)
     \/ out' = Append(out, Unread)

Next ==
  \/ \E v \in Values : Reserve(v)
  \/ \E i \in DOMAIN queue : Publish(i)
  \/ Remove

Spec == Init /\ [][Next]_<<queue, out>>
=============================================================================

----------------------------- MODULE MCTicketQueue ----------------------------
(* Instances of TicketQueue for TLC: p, q and c use the ring under the lock, *)
(* or p emplaces and c pops without it.                                     *)
EXTENDS TicketQueue

CONSTANTS p, q, c, v1, v2

OneProducer == {p}
TwoProducers == {p, q}
OneConsumer == {c}
ThreeThreads == {p, q, c}
EitherBuild == BOOLEAN
TwoValues == {v1, v2}
SmallDepths == 0..2
=============================================================================

---------------------------- MODULE MCMpscQueue ----------------------------
(* Instances of MpscQueue for TLC: a ring shorter than the number of        *)
(* producers, so that tickets are taken while the ring is full and every    *)
(* entry is used more than once.                                            *)
EXTENDS MpscQueue, TLC

CONSTANTS p1, p2, p3, o1, v1, v2

TwoProducers == {p1, p2}
ThreeProducers == {p1, p2, p3}
OneObserver == {o1}
OneValue == {v1}
TwoValues == {v1, v2}
SourceOrder == {TRUE}
EitherOrder == BOOLEAN

AnyProducer == Permutations(ThreeProducers)
=============================================================================

------------------------- MODULE MCSplitTicketQueue -------------------------
(* Instances of SplitTicketQueue for TLC.                                   *)
EXTENDS SplitTicketQueue, TLC

CONSTANTS p, q, c, d

TwoProducers == {p, q}
TwoConsumers == {c, d}
=============================================================================

------------------------------ MODULE MCRwLock ------------------------------
(* Instances of RwLock for TLC: three threads that are readers or writers   *)
(* call by call.                                                            *)
EXTENDS RwLock, TLC

CONSTANTS a, b, c

TwoThreads == {a, b}
ThreeThreads == {a, b, c}
=============================================================================

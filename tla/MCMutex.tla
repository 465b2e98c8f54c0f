------------------------------ MODULE MCMutex ------------------------------
(* Instances of Mutex for TLC: four contenders, so that a loser's unit     *)
(* meets an owner and somebody who tries in between.                        *)
EXTENDS Mutex, TLC

CONSTANTS a, b, c, d

FourThreads == {a, b, c, d}
=============================================================================

-------------------------- MODULE MCStackAllocator --------------------------
(* Instances of StackAllocator for TLC.                                     *)
EXTENDS StackAllocator, TLC

CONSTANTS a, b, c

TwoThreads == {a, b}
ThreeThreads == {a, b, c}
OneOrTwo == {1, 2}
OneOrSix == {1, 6}
Interchangeable == Permutations(Threads)
=============================================================================

---------------------- MODULE MCScalablePageAllocator ----------------------
(* Instances of ScalablePageAllocator for TLC: one class of small pages,    *)
(* and large pages that can be divided.                                     *)
EXTENDS ScalablePageAllocator, TLC

CONSTANTS a, b

TwoThreads == {a, b}
OneClass == <<3>>
SmallAndLarge == {2, 3, 8}
Interchangeable == Permutations(Threads)
=============================================================================

--------------------------- MODULE MCMemoryManager ---------------------------
(* Two processes, two names in shared memory, one url of private memory, an  *)
(* allocator with an embedded one and one without, and fewer segments than   *)
(* urls in use, so that memory is reused.                                    *)
EXTENDS MemoryManager, TLC

CONSTANTS p, q, s, t, m, g1, g2, g3

TwoProcesses == {p, q}
TwoNames == {s, t}
OneUrl == {m}
NoUrl == {}
TwoIds == {<<0, 2>>, <<1, 1>>}
OnePageId == {<<0, 2>>}
ThreeSegments == {g1, g2, g3}
Symmetry == Permutations(TwoProcesses) \cup Permutations(ThreeSegments)
=============================================================================

---------------------------- MODULE AbstractLock ----------------------------
(***************************************************************************)
(* What a mutual-exclusion lock promises, without its implementation: the  *)
(* set of owners has at most one member, a thread becomes the owner only   *)
(* of a free lock, and only the owner gives it up.                         *)
(***************************************************************************)
CONSTANT Threads

VARIABLE owners

Init == owners = {}

Acquire(t) == owners = {} /\ owners' = {t}

Release(t) == owners = {t} /\ owners' = {}

Next == \E t \in Threads : Acquire(t) \/ Release(t)

Spec == Init /\ [][Next]_owners
=============================================================================

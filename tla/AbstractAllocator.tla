-------------------------- MODULE AbstractAllocator --------------------------
(***************************************************************************)
(* What an allocator promises to its callers: the blocks in use lie inside  *)
(* its region and no byte belongs to two of them.  Which block a request    *)
(* receives, and whether it receives one, is left open.                     *)
(***************************************************************************)
EXTENDS Integers

CONSTANTS RegionBegin,  \* the first byte of the region
          RegionEnd     \* the first byte behind the region

VARIABLE used           \* the blocks in use: records with an offset and a size

Separate(b, c) == b.off + b.size <= c.off \/ c.off + c.size <= b.off

Init == used = {}

Allocate(b) ==
  /\ b \in [off : Nat, size : Nat]
  /\ RegionBegin <= b.off /\ b.off + b.size <= RegionEnd
  /\ \A c \in used : Separate(b, c)
  /\ used' = used \cup {b}

Free(b) == b \in used /\ used' = used \ {b}

(* The block is any one that the implementation's step brings into use.     *)
Next == \/ \E b \in used' \ used : Allocate(b)
        \/ \E b \in used \ used' : Free(b)

Spec == Init /\ [][Next]_used
=============================================================================

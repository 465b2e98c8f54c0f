----------------------------- MODULE HeapBlocks -----------------------------
(***************************************************************************)
(* Blocks of shared memory and the headers of containers that own them.  A  *)
(* block is a sequence of slots; what was never stored, or lies in memory   *)
(* that was given back, reads as Raw.  A call on a container is one step.    *)
(***************************************************************************)
EXTENDS Integers, Sequences, FiniteSets, SequencesExt

CONSTANTS Blocks,     \* 1..n: blocks the allocator may return
          Objects,    \* the containers
          Values,     \* what a slot holds
          Literals,   \* contents of standard library objects
          Allocators, \* identifiers of the allocators of the containers
          MaxLength,  \* bound on lengths asked for
          Null, Raw

VARIABLE store

RawSlots(n) == [i \in 1..n |-> Raw]

(* q, cut off at or filled with v up to n slots                             *)
Padded(q, n, v) ==
  IF n <= Len(q) THEN SubSeq(q, 1, n) ELSE q \o [i \in 1..(n - Len(q)) |-> v]

EmptyStore(a, headers) ==
  [mem |-> [b \in Blocks |-> <<>>], live |-> {}, hdr |-> headers, alloc |-> a]

Room(t) == Cardinality(Blocks \ t.live)
FreeBlock(t) == CHOOSE b \in Blocks \ t.live :
                  \A c \in Blocks \ t.live : b <= c

(* A block that receives the slots q, and a block that is given back.       *)
Allocate(t, q) ==
  [t EXCEPT !.live = @ \cup {FreeBlock(t)}, !.mem[FreeBlock(t)] = q]
Release(t, b) == [t EXCEPT !.live = @ \ {b}, !.mem[b] = <<>>]

(* The effect of a call that needs at most need blocks.                     *)
Becomes(t, need) == Room(store) >= need /\ store' = t
=============================================================================

------------------------------ MODULE Containers ------------------------------
(***************************************************************************)
(* The data structures that live in memory of an Allocator.  A behaviour    *)
(* uses objects of one kind.  A call on an object is one step: none of them *)
(* is thread safe.                                                         *)
(***************************************************************************)
EXTENDS Buffers

CONSTANTS
  Cells,                 \* entries of linked containers
  Keys, BucketCounts, MaxEntries

ASSUME ContainersAssumption ==
  /\ IsFiniteSet(Cells) /\ Cells \subseteq Nat /\ Null \notin Cells
  /\ BucketCounts \subseteq Nat \ {0} /\ Keys \subseteq Nat /\ MaxEntries \in Nat

containersVars == <<store, kind>>

Linked == INSTANCE LinkedLists WITH Lists <- Objects
Map    == INSTANCE UnorderedMap

ContainersInit ==
  \/ Linked!KindInit
  \/ BuffersInit
  \/ Map!Init /\ kind = "map"

ContainersNext ==
  /\ \/ kind \in Linked!Kinds /\ Linked!Next
     \/ kind \in BufferKinds  /\ BuffersNext
     \/ kind = "map"          /\ Map!Next
  /\ UNCHANGED kind

ContainersSpec == ContainersInit /\ [][ContainersNext]_containersVars

-----------------------------------------------------------------------------
(* The cells or blocks an object owns.                                      *)
Owned(o) == CASE kind \in Linked!Kinds -> Linked!Entries(o)
              [] kind \in BufferKinds  -> BufferOwned(o)
              [] kind = "map"          -> Map!ArrayOwned(o)

(* No memory leaks, is given back while in use or has two owners: entries,  *)
(* arrays, a map's too, elements' blocks, texts, buffers and objects        *)
(* through growth, erasure, copies and moves within and across allocators,  *)
(* and the end of a map that has entries (SoundDestroy: the code leaks the  *)
(* buckets of one that has none).                                          *)
OwnedOnce ==
  /\ store.live = UNION {Range(Owned(o)) : o \in Objects}
  /\ \A o \in Objects : Len(Owned(o)) = Cardinality(Range(Owned(o)))
  /\ \A o, p \in Objects : o # p => Range(Owned(o)) \cap Range(Owned(p)) = {}

(* What a header says of the memory it leads to is right: lengths, both     *)
(* links and the tail of a list, capacities, the two forms of an address,   *)
(* the bucket of a key.  So none of the modelled calls reads or writes       *)
(* outside of a block or finds an object that was never constructed; those  *)
(* that Insertable and SoundSizes leave out do.                             *)
HeadersAgree == \A o \in Objects :
  CASE kind \in Linked!Kinds -> Linked!Fits(o)
    [] kind \in BufferKinds  -> BufferFits(o)
    [] kind = "map"          -> Map!Fits(o)

(* Every call changes the contents that a caller sees the way it should,    *)
(* and those of no other object: sequences of values (the entries           *)
(* themselves in an iqueue), and in a map the value of each key.            *)
Sequences_ == INSTANCE AbstractSequences WITH
  Values <- Values \cup Cells,
  fills <- IF kind \in BufferKinds THEN Fills ELSE {},
  content <- [o \in Objects |-> CASE kind \in Linked!Kinds -> Linked!Contents(o)
                                  [] kind \in BufferKinds  -> BufferContents(o)
                                  [] kind = "map"          -> <<>>]
Map_ == INSTANCE AbstractMap WITH
  content <- [o \in Objects |-> IF kind = "map" THEN Map!Contents(o) ELSE <<>>]
ImplementsContents == Sequences_!Spec /\ Map_!Spec

(* A forward iteration of a map that other calls change meanwhile (as in    *)
(* the loops of unordered_map.h:210) visits every entry that stays, and     *)
(* twice only what was replaced.                                           *)
IterationComplete == [][kind = "map" => \A o \in Objects : Map!Complete(o)]_containersVars
=============================================================================

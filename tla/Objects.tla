------------------------------- MODULE Objects -------------------------------
(***************************************************************************)
(* Objects that an Allocator makes for its callers (allocator.h): arrays in  *)
(* an LArray, which holds the block as shm_ (here ptr) and as ptr_ of this  *)
(* process and the size; and single objects in a unique pointer             *)
(* (smart_ptr_base.h), which owns its object or is an alias of it.         *)
(***************************************************************************)
EXTENDS HeapBlocks

Array == [ptr |-> Null, local |-> Null, size |-> 0]

Pointer == [ptr |-> Null, owned |-> FALSE]

InitWith(header) == \E a \in [Objects -> Allocators] :
  store = EmptyStore(a, [o \in Objects |-> header])

(* Convert: the address in this process of a block                          *)
Convert(b) == b

Slots(t, o) == IF t.hdr[o].ptr = Null THEN <<>> ELSE t.mem[t.hdr[o].ptr]

(* AllocatePtr of a block with the slots q                                  *)
AllocatePtr(t, o, q) ==
  LET b == FreeBlock(t)
  IN [Allocate(t, q) EXCEPT !.hdr[o] = [ptr |-> b, local |-> Convert(b), size |-> Len(q)]]

(* ConstructObjs: the slots behind the first old                            *)
ConstructObjs(t, o, old, v) ==
  [t EXCEPT !.mem[t.hdr[o].local] = IF old >= Len(@) THEN @ ELSE Padded(SubSeq(@, 1, old), Len(@), v)]

AllocateObjs(t, o, n) == AllocatePtr(t, o, RawSlots(n))

NewObjs(t, o, n, v) == ConstructObjs(AllocateObjs(t, o, n), o, 0, v)

(* Free of the block.  The caller forgets the pointer, which the code keeps. *)
FreePtr(t, o) == [Release(t, t.hdr[o].ptr) EXCEPT !.hdr[o] = Array]

(* ReallocatePtr: of a null pointer it is an allocation, else the slots of  *)
(* the old block are copied and that is freed.                              *)
ReallocatePtr(t, o, n) ==
  LET u == AllocatePtr(t, o, Padded(Slots(t, o), n, Raw))
  IN IF t.hdr[o].ptr = Null THEN u ELSE Release(u, t.hdr[o].ptr)

ReallocateObjs(t, o, n, v) ==
  ConstructObjs(ReallocatePtr(t, o, n), o, t.hdr[o].size, v)

(* FreeDestructObjs: the objects own no memory.                             *)
FreeObjs(t, o) == FreePtr(t, o)

NextArray == \E o \in Objects :
  \/ /\ store.hdr[o].ptr = Null
     /\ \E n \in 1..MaxLength, v \in Values : Becomes(NewObjs(store, o, n, v), 1)
  \/ \E n \in 1..MaxLength, v \in Values : Becomes(ReallocateObjs(store, o, n, v), 1)
  \/ store.hdr[o].ptr # Null /\ Becomes(FreeObjs(store, o), 0)

-----------------------------------------------------------------------------
(* Unique pointers.  An assignment does not look at what the pointer owned: *)
(* callers assign to pointers that own nothing.                             *)

ShmInit(t, o, v) ==
  [Allocate(t, <<v>>) EXCEPT !.hdr[o] = [ptr |-> FreeBlock(t), owned |-> TRUE]]

(* The destructor, and the pointers that must not be used afterwards.       *)
Destruct(t, o) ==
  LET gone == t.hdr[o].ptr
      Dropped(h) == IF h.ptr = gone THEN Pointer ELSE h
  IN IF ~t.hdr[o].owned THEN [t EXCEPT !.hdr[o] = Pointer]
     ELSE [Release(t, gone) EXCEPT !.hdr = [p \in Objects |-> Dropped(t.hdr[p])]]

(* A copy, or what is deserialized from a serialized pointer.               *)
Alias(t, o, p) == [t EXCEPT !.hdr[o] = [ptr |-> t.hdr[p].ptr, owned |-> FALSE]]

Move(t, o, p) == [t EXCEPT !.hdr[o] = t.hdr[p], !.hdr[p].owned = FALSE]

NextPointer == \E o \in Objects :
  \/ /\ ~store.hdr[o].owned
     /\ \/ \E v \in Values : Becomes(ShmInit(store, o, v), 1)
        \/ \E p \in Objects \ {o} : Becomes(Alias(store, o, p), 0) \/ Becomes(Move(store, o, p), 0)
  \/ Becomes(Destruct(store, o), 0)
  \/ store.hdr[o].ptr # Null /\ \E v \in Values :
       Becomes([store EXCEPT !.mem[store.hdr[o].ptr] = <<v>>], 0)

-----------------------------------------------------------------------------
Owner(o) == "owned" \notin DOMAIN store.hdr[o] \/ store.hdr[o].owned

Contents(o) == IF Owner(o) THEN Slots(store, o) ELSE <<>>

Owned(o) == IF Owner(o) /\ store.hdr[o].ptr # Null THEN <<store.hdr[o].ptr>> ELSE <<>>

(* Both forms of an array's address and its size agree with the block, and  *)
(* every object in it is constructed; a pointer leads to an object.         *)
FitsArray(o) ==
  /\ store.hdr[o].local = store.hdr[o].ptr
  /\ store.hdr[o].size = Len(Slots(store, o))
  /\ Range(Slots(store, o)) \subseteq Values

FitsPointer(o) == store.hdr[o].ptr # Null => Len(Slots(store, o)) = 1
=============================================================================

------------------------------- MODULE Vector -------------------------------
(***************************************************************************)
(* The vector of ipc/vector.h.  Elements are plain values, or containers    *)
(* that own a block each (shm types); header fields are named as in the     *)
(* code: vec_ptr_, max_length_, length_.                                    *)
(***************************************************************************)
EXTENDS HeapBlocks

CONSTANT GrowthStep   \* the least growth: 10 in the code

VARIABLE elements     \* "pod" or "shm": the type of the vectors' elements

EmptyHeader == [ptr |-> Null, max |-> 0, length |-> 0]

Slots(t, o) == IF t.hdr[o].ptr = Null THEN <<>> ELSE t.mem[t.hdr[o].ptr]

Contents(t, o) == [i \in 1..t.hdr[o].length |->
  LET slot == Slots(t, o)[i]
  IN IF elements = "pod" \/ slot = Raw THEN slot
     ELSE IF t.mem[slot] = <<>> THEN Raw ELSE t.mem[slot][1]]

(* HSHM_MAKE_AR, HSHM_DESTROY_AR on slot i                                  *)
MakeAr(t, o, i, v) ==
  IF elements = "pod" THEN [t EXCEPT !.mem[t.hdr[o].ptr][i] = v]
  ELSE [Allocate(t, <<v>>) EXCEPT !.mem[t.hdr[o].ptr][i] = FreeBlock(t)]

DestroyAr(t, o, i) ==
  IF elements = "pod" \/ Slots(t, o)[i] = Raw THEN t
  ELSE Release(t, Slots(t, o)[i])

(* Slots behind the length are nobody's.                                   *)
SetLength(t, o, n) ==
  IF t.hdr[o].ptr = Null THEN [t EXCEPT !.hdr[o].length = n]
  ELSE [t EXCEPT !.hdr[o].length = n,
                 !.mem[t.hdr[o].ptr] = Padded(SubSeq(@, 1, n), Len(@), Raw)]

\* Faulty variant: nothing is added to a short vector, which stays full.
GrowthQuarter(max) == (5 * max) \div 4

Growth(max) == LET m == (5 * max) \div 4
               IN IF m <= max + GrowthStep THEN m + GrowthStep ELSE m

\* Faulty variant: the old array is not given back.
MoveArrayLeaks(t, o, max) ==
  LET u == Allocate(t, Padded(SubSeq(Slots(t, o), 1, t.hdr[o].length), max, Raw))
  IN [u EXCEPT !.hdr[o] = [@ EXCEPT !.ptr = FreeBlock(t), !.max = max]]

(* A new array with the old elements; the old array is given back.          *)
MoveArray(t, o, max) ==
  LET u == Allocate(t, Padded(SubSeq(Slots(t, o), 1, t.hdr[o].length), max, Raw))
      w == IF t.hdr[o].ptr = Null THEN u ELSE Release(u, t.hdr[o].ptr)
  IN [w EXCEPT !.hdr[o] = [@ EXCEPT !.ptr = FreeBlock(t), !.max = max]]

(* grow_vector: fill is the sequence of values the new slots receive.       *)
GrowVector(t, o, max, fill) ==
  LET made[i \in 0..Len(fill)] ==
        IF i = 0 THEN MoveArray(t, o, max)
        ELSE MakeAr(made[i - 1], o, t.hdr[o].length + i, fill[i])
  IN IF max < t.hdr[o].max THEN t ELSE made[Len(fill)]

Reserve(t, o, n) == IF n = 0 THEN t ELSE GrowVector(t, o, n, <<>>)

Resize(t, o, n, v) ==
  IF n = 0 THEN SetLength(t, o, 0)
  ELSE SetLength(GrowVector(t, o, n, [i \in 1..(n - t.hdr[o].length) |-> v]), o, n)

MakeRoom(t, o) == IF t.hdr[o].length = t.hdr[o].max
                  THEN GrowVector(t, o, Growth(t.hdr[o].max), <<>>) ELSE t

EmplaceBack(t, o, v) ==
  LET n == t.hdr[o].length
  IN [MakeAr(MakeRoom(t, o), o, n + 1, v) EXCEPT !.hdr[o].length = n + 1]

\* Faulty variant: the last element is not moved.
ShiftRightShort(t, o, i) ==
  LET n == t.hdr[o].length
  IN [t EXCEPT !.mem[t.hdr[o].ptr] =
        SubSeq(@, 1, i) \o SubSeq(@, i, n - 1) \o SubSeq(@, n + 1, Len(@))]

(* Elements from position i on move by one slot; memcpy of their bits.      *)
ShiftRight(t, o, i) ==
  LET n == t.hdr[o].length
  IN [t EXCEPT !.mem[t.hdr[o].ptr] =
        SubSeq(@, 1, i) \o SubSeq(@, i, n) \o SubSeq(@, n + 2, Len(@))]

Emplace(t, o, i, v) ==
  IF i > t.hdr[o].length THEN EmplaceBack(t, o, v)
  ELSE [MakeAr(ShiftRight(MakeRoom(t, o), o, i), o, i, v)
          EXCEPT !.hdr[o].length = @ + 1]

(* count elements from position i on are destroyed, the rest moves up.      *)
ShiftLeft(t, o, i, count) ==
  LET n == t.hdr[o].length
      destroyed[k \in 0..count] ==
        IF k = 0 THEN t ELSE DestroyAr(destroyed[k - 1], o, i + k - 1)
  IN [destroyed[count] EXCEPT !.mem[t.hdr[o].ptr] = SubSeq(@, 1, i - 1) \o
        SubSeq(@, i + count, n) \o SubSeq(@, n - count + 1, Len(@))]

(* erase(first, last) of positions i up to but not including j              *)
Erase(t, o, i, j) ==
  LET n == t.hdr[o].length
      count == (IF j > n THEN n + 1 ELSE j) - i
  IN IF i > n \/ count = 0 THEN t
     ELSE SetLength(ShiftLeft(t, o, i, count), o, n - count)

ShmDestroy(t, o) ==
  IF t.hdr[o].ptr = Null THEN t
  ELSE [Release(Erase(t, o, 1, t.hdr[o].length + 1), t.hdr[o].ptr)
          EXCEPT !.hdr[o] = EmptyHeader]

(* shm_strong_copy_main on an empty vector                                  *)
AppendCopy(t, o, q) ==
  LET copied[i \in 0..Len(q)] == IF i = 0 THEN Reserve(t, o, Len(q))
                                 ELSE EmplaceBack(copied[i - 1], o, q[i])
  IN copied[Len(q)]

Assign(t, o, q) == AppendCopy(ShmDestroy(t, o), o, q)

Move(t, o, p) ==
  LET d == ShmDestroy(t, o)
  IN IF t.alloc[o] = t.alloc[p]
     THEN [d EXCEPT !.hdr[o] = t.hdr[p], !.hdr[p] = EmptyHeader]
     ELSE ShmDestroy(AppendCopy(d, o, Contents(t, p)), p)

-----------------------------------------------------------------------------
(* Calls.  Room for the array and the elements of one call is left free.    *)

Length(o) == store.hdr[o].length

Call(t) == /\ \A o \in Objects : t.hdr[o].max <= MaxLength
           /\ Becomes(t, MaxLength + 1)

EmplaceCall(o, i, v) == Call(Emplace(store, o, i, v))

EraseCall(o, i, j) == i <= j /\ Call(Erase(store, o, i, j))

ReserveCall(o, n) == Call(Reserve(store, o, n))

ResizeCall(o, n, v) == Call(Resize(store, o, n, v))

(* Assignment to an element, which frees what it holds, and replace(pos) of *)
(* one that owns nothing.  replace of one that owns memory is left out: it   *)
(* runs the destructor ~T() only, which does not free.                      *)
Modify(o, i, v) == Call(MakeAr(DestroyAr(store, o, i), o, i, v))

AssignStd(o, q) == Call(Assign(store, o, q))

CopyAssign(o, p) == Call(Assign(store, o, Contents(store, p)))

MoveAssign(o, p) == Call(Move(store, o, p))

(* The sizes for which resize constructs every element it adds and destroys *)
(* what it cuts off: at least the capacity, or fewer elements than now      *)
(* where elements own no memory.                                           *)
SoundSizes(o) == {n \in 0..MaxLength :
  \/ n >= store.hdr[o].max /\ n > 0
  \/ n = Length(o)
  \/ n < Length(o) /\ elements = "pod"}

Next == \E o \in Objects :
  \/ \E i \in 1..(Length(o) + 1), v \in Values : EmplaceCall(o, i, v)
  \/ \E i, j \in 1..(Length(o) + 1) : EraseCall(o, i, j)
  \/ \E n \in 0..MaxLength : ReserveCall(o, n)
  \/ \E n \in SoundSizes(o), v \in Values : ResizeCall(o, n, v)
  \/ \E i \in 1..Length(o), v \in Values : Modify(o, i, v)
  \/ \E q \in Literals : AssignStd(o, q)
  \/ \E p \in Objects \ {o} : CopyAssign(o, p) \/ MoveAssign(o, p)

Init == \E a \in [Objects -> Allocators] :
  store = EmptyStore(a, [o \in Objects |-> EmptyHeader])

-----------------------------------------------------------------------------
(* The blocks an object owns: its array and its elements' blocks.           *)
Owned(o) ==
  IF store.hdr[o].ptr = Null THEN <<>>
  ELSE <<store.hdr[o].ptr>> \o
       (IF elements = "pod" THEN <<>> ELSE SubSeq(Slots(store, o), 1, Length(o)))

(* The capacity is that of the array, and every element is constructed.     *)
Fits(o) == /\ Length(o) <= store.hdr[o].max
           /\ Len(Slots(store, o)) = store.hdr[o].max
           /\ \A i \in 1..Length(o) : Contents(store, o)[i] \in Values
=============================================================================

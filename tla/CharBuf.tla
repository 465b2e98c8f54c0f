------------------------------- MODULE CharBuf -------------------------------
(***************************************************************************)
(* The byte buffer of containers/charbuf.h, which owns a block or refers to *)
(* bytes of somebody else (outside).                                        *)
(***************************************************************************)
EXTENDS HeapBlocks

EmptyHeader == [ptr |-> Null, outside |-> <<>>, size |-> 0, total |-> 0,
                destructable |-> FALSE]

Data(t, o) == IF t.hdr[o].destructable THEN t.mem[t.hdr[o].ptr]
              ELSE t.hdr[o].outside

Contents(t, o) == SubSeq(Data(t, o), 1, t.hdr[o].size)

Free(t, o) == IF t.hdr[o].destructable /\ t.hdr[o].total # 0
              THEN Release(t, t.hdr[o].ptr) ELSE t

(* Allocate(alloc, size) and the copy of the bytes                          *)
Create(t, o, q) ==
  IF q = <<>> THEN [t EXCEPT !.hdr[o] = EmptyHeader]
  ELSE [Allocate(t, q) EXCEPT !.hdr[o] =
          [ptr |-> FreeBlock(t), outside |-> <<>>, size |-> Len(q),
           total |-> Len(q), destructable |-> TRUE]]

\* Faulty variant: the moved-from buffer keeps its ownership.
MoveShares(t, o, p) ==
  [Free(t, o) EXCEPT !.hdr[o] = t.hdr[p], !.hdr[p].size = 0]

Move(t, o, p) ==
  [Free(t, o) EXCEPT !.hdr[o] = t.hdr[p], !.hdr[p].size = 0, !.hdr[p].total = 0,
                     !.hdr[p].destructable = FALSE]

(* A new block; only an own one is copied.                                  *)
Grow(t, o, n, v) ==
  LET old == IF t.hdr[o].destructable THEN Data(t, o) ELSE <<>>
      u == Allocate(t, Padded(old, n, v))
  IN [IF t.hdr[o].destructable THEN Release(u, t.hdr[o].ptr) ELSE u
        EXCEPT !.hdr[o] = [ptr |-> FreeBlock(t), outside |-> <<>>, size |-> n,
                           total |-> n, destructable |-> TRUE]]

Resize(t, o, n, v) ==
  IF n <= t.hdr[o].total THEN [t EXCEPT !.hdr[o].size = n] ELSE Grow(t, o, n, v)

-----------------------------------------------------------------------------
Call(t) == Becomes(t, 1)

(* charbuf(data, size): the buffer refers to the bytes q of the caller.     *)
Refer(o, q) ==
  Call([Free(store, o) EXCEPT !.hdr[o] =
    [ptr |-> Null, outside |-> q, size |-> Len(q), total |-> Len(q),
     destructable |-> FALSE]])

AssignStd(o, q) == Call(Create(Free(store, o), o, q))

CopyAssign(o, p) == Call(Create(Free(store, o), o, Contents(store, p)))

MoveAssign(o, p) == Call(Move(store, o, p))

ResizeCall(o, n, v) == Call(Resize(store, o, n, v))

Modify(o, i, v) == /\ store.hdr[o].destructable
                   /\ Call([store EXCEPT !.mem[store.hdr[o].ptr][i] = v])

(* A reference that grows loses what it referred to ("destroy and resize"). *)
SoundSizes(o) == {n \in 0..MaxLength :
  store.hdr[o].destructable \/ n <= store.hdr[o].total \/ store.hdr[o].size = 0}

Next == \E o \in Objects :
  \/ \E q \in Literals : Refer(o, q) \/ AssignStd(o, q)
  \/ \E p \in Objects \ {o} : CopyAssign(o, p) \/ MoveAssign(o, p)
  \/ \E n \in SoundSizes(o), v \in Values : ResizeCall(o, n, v)
  \/ \E i \in 1..store.hdr[o].size, v \in Values : Modify(o, i, v)

Init == \E a \in [Objects -> Allocators] :
  store = EmptyStore(a, [o \in Objects |-> EmptyHeader])

-----------------------------------------------------------------------------
Owned(o) == IF store.hdr[o].destructable THEN <<store.hdr[o].ptr>> ELSE <<>>

Fits(o) == /\ store.hdr[o].size <= store.hdr[o].total
           /\ store.hdr[o].destructable => Len(Data(store, o)) = store.hdr[o].total
=============================================================================

------------------------------ MODULE ShmString ------------------------------
(***************************************************************************)
(* The string of ipc/string.h: short contents lie in the header (sso_),     *)
(* contents of SSO bytes or more in a block (text_).  The byte behind the   *)
(* contents is not modelled.                                               *)
(***************************************************************************)
EXTENDS HeapBlocks

CONSTANT SSO

EmptyHeader == [length |-> 0, ptr |-> Null, sso |-> RawSlots(SSO)]

Data(t, o) == IF t.hdr[o].length < SSO THEN t.hdr[o].sso ELSE t.mem[t.hdr[o].ptr]

Contents(t, o) == SubSeq(Data(t, o), 1, t.hdr[o].length)

(* _create_str; the text_ of a short string stays what it was.              *)
CreateStr(t, o, q) ==
  IF Len(q) < SSO
  THEN [t EXCEPT !.hdr[o] = [@ EXCEPT !.length = Len(q), !.sso = Padded(q, SSO, Raw)]]
  ELSE [Allocate(t, q) EXCEPT !.hdr[o] = [@ EXCEPT !.length = Len(q), !.ptr = FreeBlock(t)]]

SetNull(t, o) == [t EXCEPT !.hdr[o] = EmptyHeader]

\* Faulty variant: a string of exactly SSO bytes is taken for a short one.
ShmDestroyBoundary(t, o) ==
  IF t.hdr[o].length = 0 THEN t
  ELSE SetNull(IF t.hdr[o].length > SSO THEN Release(t, t.hdr[o].ptr) ELSE t, o)

ShmDestroy(t, o) ==
  IF t.hdr[o].length = 0 THEN t
  ELSE SetNull(IF t.hdr[o].length >= SSO THEN Release(t, t.hdr[o].ptr) ELSE t, o)

Assign(t, o, q) == CreateStr(ShmDestroy(t, o), o, q)

Move(t, o, p) ==
  LET d == ShmDestroy(t, o)
  IN IF t.alloc[o] = t.alloc[p] THEN SetNull([d EXCEPT !.hdr[o] = t.hdr[p]], p)
     ELSE ShmDestroy(CreateStr(d, o, Contents(t, p)), p)

(* Allocator::Reallocate(text_, n): a new block with the old bytes; the     *)
(* bytes behind them hold anything, here v.                                 *)
Reallocate(t, o, n, v) ==
  LET text == t.hdr[o].ptr
      old == IF text = Null THEN <<>> ELSE t.mem[text]
      u == Allocate(t, Padded(old, n, v))
  IN [IF text = Null THEN u ELSE Release(u, text) EXCEPT !.hdr[o].ptr = FreeBlock(t)]

Resize(t, o, n, v) ==
  IF t.hdr[o].length = 0 THEN CreateStr(t, o, [i \in 1..n |-> v])
  ELSE IF t.hdr[o].length < n THEN [Reallocate(t, o, n, v) EXCEPT !.hdr[o].length = n]
  ELSE [t EXCEPT !.hdr[o].length = n]

-----------------------------------------------------------------------------
Length(o) == store.hdr[o].length

Call(t) == Becomes(t, 1)

AssignStd(o, q) == Call(Assign(store, o, q))

CopyAssign(o, p) == Call(Assign(store, o, Contents(store, p)))

MoveAssign(o, p) == Call(Move(store, o, p))

ResizeCall(o, n, v) == Call(Resize(store, o, n, v))

(* operator[], in the header or in the block                                *)
Modify(o, i, v) ==
  Call(IF Length(o) < SSO THEN [store EXCEPT !.hdr[o].sso[i] = v]
          ELSE [store EXCEPT !.mem[store.hdr[o].ptr][i] = v])

(* The sizes that keep the contents where they are: in the header or not.   *)
SoundSizes(o) == {n \in 0..MaxLength :
  Length(o) = 0 \/ (Length(o) < SSO /\ n <= Length(o)) \/ (Length(o) >= SSO /\ n >= SSO)}

Next == \E o \in Objects :
  \/ \E q \in Literals : AssignStd(o, q)
  \/ \E p \in Objects \ {o} : CopyAssign(o, p) \/ MoveAssign(o, p)
  \/ \E n \in SoundSizes(o), v \in Values : ResizeCall(o, n, v)
  \/ \E i \in 1..Length(o), v \in Values : Modify(o, i, v)

Init == \E a \in [Objects -> Allocators] :
  store = EmptyStore(a, [o \in Objects |-> EmptyHeader])

-----------------------------------------------------------------------------
Owned(o) == IF Length(o) < SSO THEN <<>> ELSE <<store.hdr[o].ptr>>

Fits(o) == Length(o) <= Len(Data(store, o))
=============================================================================

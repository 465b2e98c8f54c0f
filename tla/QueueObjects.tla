----------------------------- MODULE QueueObjects -----------------------------
(***************************************************************************)
(* The queues as objects that are constructed, copied, moved and destroyed  *)
(* between calls of one thread: a vector of entries and two tokens around   *)
(* it.  mpsc_queue and mpsc_ptr_queue mark the entries that are ready;       *)
(* spsc_queue, and through it ticket_queue and ticket_stack, do not.  What  *)
(* threads do to a queue at the same time is in MpscQueue and TicketQueue.  *)
(***************************************************************************)
EXTENDS HeapBlocks

CONSTANT GrowthStep

VARIABLES
  marked,    \* whether the queues mark their entries: never changes
  elements   \* of their vectors: "pod"

V == INSTANCE Vector

MaxToken == 2 * (MaxLength - 1)   \* bound: two laps of the longest ring

EmptyHeader == [ptr |-> Null, max |-> 0, length |-> 0, head |-> 0, tail |-> 0]

(* The header of the vector with the tokens next to it.                     *)
WithTokens(t, o, head, tail) ==
  [t EXCEPT !.hdr[o] = [ptr  |-> @.ptr, max |-> @.max, length |-> @.length,
                        head |-> head, tail |-> tail]]

Size(t, o) == t.hdr[o].tail - t.hdr[o].head

Index(t, o, token) == (token % t.hdr[o].length) + 1

Contents(t, o) ==
  [i \in 1..Size(t, o) |-> V!Slots(t, o)[Index(t, o, t.hdr[o].head + i - 1)]]

(* Null is the entry without a mark, or the one never written.              *)
Construct(t, o, depth) == WithTokens(V!Resize(t, o, depth, Null), o, 0, 0)

ShmDestroy(t, o) ==
  IF t.hdr[o].ptr = Null THEN t ELSE WithTokens(V!ShmDestroy(t, o), o, 0, 0)

Store(t, o, v) ==
  [t EXCEPT !.mem[t.hdr[o].ptr][Index(t, o, t.hdr[o].tail)] = v, !.hdr[o].tail = @ + 1]

(* Without marks a full ring refuses the value.                            *)
EmplacePlain(t, o, v) == IF Size(t, o) >= t.hdr[o].length THEN t ELSE Store(t, o, v)

PopPlain(t, o) == IF Size(t, o) = 0 THEN t ELSE [t EXCEPT !.hdr[o].head = @ + 1]

(* A ring with marks makes a caller wait for room, which nobody else makes  *)
(* here: only calls that find some are made.                                *)
EmplaceMarked(t, o, v) == Store(t, o, v)

PopMarked(t, o) ==
  IF Size(t, o) = 0 \/ V!Slots(t, o)[Index(t, o, t.hdr[o].head)] = Null THEN t
  ELSE [t EXCEPT !.mem[t.hdr[o].ptr][Index(t, o, t.hdr[o].head)] = Null,
                 !.hdr[o].head = @ + 1]

Copy(t, o, p) ==
  WithTokens(V!Assign(t, o, V!Contents(t, p)), o, t.hdr[p].head, t.hdr[p].tail)

\* Faulty variant: the entries move without their tokens.
MoveForgetsTokens(t, o, p) ==
  WithTokens(WithTokens(V!Move(t, o, p), o, 0, 0), p, 0, 0)

Move(t, o, p) ==
  WithTokens(WithTokens(V!Move(t, o, p), o, t.hdr[p].head, t.hdr[p].tail), p, 0, 0)

-----------------------------------------------------------------------------
Call(t) == Becomes(t, 1)

ConstructCall(o, depth) == store.hdr[o].ptr = Null /\ Call(Construct(store, o, depth))

DestroyCall(o) == Call(ShmDestroy(store, o))

EmplaceCall(o, v) ==
  /\ store.hdr[o].tail < MaxToken
  /\ \/ ~marked /\ Call(EmplacePlain(store, o, v))
     \/ marked /\ Size(store, o) < store.hdr[o].length /\ Call(EmplaceMarked(store, o, v))

PopCall(o) == Call(IF marked THEN PopMarked(store, o) ELSE PopPlain(store, o))

CopyAssign(o, p) == Call(Copy(store, o, p))

MoveAssign(o, p) == Call(Move(store, o, p))

Next == \E o \in Objects :
  \/ \E depth \in 1..(MaxLength - 1) : ConstructCall(o, depth)
  \/ \E v \in Values : EmplaceCall(o, v)
  \/ PopCall(o) \/ DestroyCall(o)
  \/ \E p \in Objects \ {o} : CopyAssign(o, p) \/ MoveAssign(o, p)

Init == \E a \in [Objects -> Allocators] :
  store = EmptyStore(a, [o \in Objects |-> EmptyHeader])

-----------------------------------------------------------------------------
Owned(o) == IF store.hdr[o].ptr = Null THEN <<>> ELSE <<store.hdr[o].ptr>>

(* The tokens stay within the ring, and the entries between them, in a ring *)
(* with marks no others, are ready to be read.                              *)
Fits(o) ==
  /\ Size(store, o) \in 0..store.hdr[o].length
  /\ Len(V!Slots(store, o)) = store.hdr[o].max
  /\ Range(Contents(store, o)) \subseteq Values
  /\ marked => Size(store, o) = Cardinality({i \in 1..store.hdr[o].length :
                                               V!Slots(store, o)[i] \in Values})
=============================================================================

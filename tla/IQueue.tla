------------------------------- MODULE IQueue -------------------------------
(***************************************************************************)
(* The intrusive queue of ipc/iqueue.h: entries belong to the callers, who  *)
(* lend them to a queue; the link lies in the entry.  It is last in, first  *)
(* out.  store.live are the entries that are in a queue; what a caller      *)
(* makes of an entry it got back is its own affair.                        *)
(***************************************************************************)
EXTENDS LinkedCells

(* SetNull leaves head_ptr_ alone: an empty queue may have a stale head.    *)
SetNullLength(t, l) == [t EXCEPT !.length[l] = 0]

Enqueue(t, l, c) ==
  [t EXCEPT !.next[c] = t.head[l], !.head[l] = c, !.length[l] = @ + 1,
            !.live = @ \cup {c}]

DequeueFirst(t, l) ==
  IF t.length[l] = 0 THEN t
  ELSE FreeCells([t EXCEPT !.head[l] = t.next[t.head[l]], !.length[l] = @ - 1],
                 {t.head[l]})

\* Faulty variant: the length is not taken down.
DequeueAtCounts(t, l, prior, c) ==
  IF prior = Null THEN DequeueFirst(t, l)
  ELSE FreeCells([t EXCEPT !.next[prior] = t.next[c]], {c})

(* dequeue(pos): pos is an iterator, with the entry it came from.           *)
DequeueAt(t, l, prior, c) ==
  IF prior = Null THEN DequeueFirst(t, l)
  ELSE FreeCells([t EXCEPT !.next[prior] = t.next[c], !.length[l] = @ - 1], {c})

(* clear: dequeue until the length is 0                                     *)
Clear(t, l) ==
  FoldLeft(LAMBDA u, i : DequeueFirst(u, l), t, [i \in 1..t.length[l] |-> i])

ShmDestroy(t, l) == IF t.length[l] = 0 THEN t ELSE SetNullLength(Clear(t, l), l)

(* Move: the header is copied with its head and length, whatever the        *)
(* allocator, and the other queue keeps a stale head.                       *)
Move(t, l, p) ==
  LET d == ShmDestroy(t, l)
  IN SetNullLength([d EXCEPT !.head[l] = d.head[p], !.length[l] = d.length[p]], p)

-----------------------------------------------------------------------------
EnqueueCall(l, c) == c \notin store.live /\ store' = Enqueue(store, l, c)

DequeueCall(l) == store' = DequeueFirst(store, l)

(* Iterators reach the entries that the length counts.                      *)
DequeueIterator(l, i) ==
  LET c == After(store, First(store, l), i)
      prior == IF i = 0 THEN Null ELSE After(store, First(store, l), i - 1)
  IN store' = DequeueAt(store, l, prior, c)

MoveAssign(l, p) == store' = Move(store, l, p)

Destroy(l) == store' = ShmDestroy(store, l)

Next == \E l \in Lists :
  \/ \E c \in Cells : EnqueueCall(l, c)
  \/ DequeueCall(l)
  \/ \E i \in 0..(store.length[l] - 1) : DequeueIterator(l, i)
  \/ \E p \in Lists \ {l} : MoveAssign(l, p)
  \/ Destroy(l)
=============================================================================

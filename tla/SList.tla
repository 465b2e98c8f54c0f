-------------------------------- MODULE SList --------------------------------
(***************************************************************************)
(* The singly linked list of ipc/slist.h.  Operators turn a store into the   *)
(* store after a call; an iterator is the cell it points to, Null the end.  *)
(***************************************************************************)
EXTENDS LinkedCells

IsBegin(t, l, pos) == pos # Null /\ pos = t.head[l]

(* The entry before pos: found by a walk from the first entry.              *)
FindPrior(t, l, pos) ==
  LET cells == Walk(t, l)
      n == SelectInSeq(cells, LAMBDA c : c = pos)
  IN CASE pos = Null                      -> IF t.length[l] = 0 THEN Null ELSE t.tail[l]
       [] pos # Null /\ IsBegin(t, l, pos) -> Null
       [] OTHER                           -> IF n = 0 THEN cells[Len(cells)] ELSE cells[n - 1]

LinkOnly(t, l, e) == [t EXCEPT !.head[l] = e, !.tail[l] = e]

LinkFront(t, l, e) == [t EXCEPT !.next[e] = t.head[l], !.head[l] = e]

LinkBack(t, l, e) == [t EXCEPT !.next[t.tail[l]] = e, !.tail[l] = e]

LinkAt(t, l, pos, e) ==
  [t EXCEPT !.next[e] = t.next[pos], !.next[FindPrior(t, l, pos)] = e]

Emplace(t, l, pos, v) ==
  LET e == FreeCell(t)
      u == [CreateEntry(t, e, v) EXCEPT !.length[l] = @ + 1]
  IN CASE t.length[l] = 0                       -> LinkOnly(u, l, e)
       [] t.length[l] # 0 /\ IsBegin(t, l, pos) -> LinkFront(u, l, e)
       [] t.length[l] # 0 /\ pos = Null         -> LinkBack(u, l, e)
       [] OTHER                                 -> LinkAt(u, l, pos, e)

\* Faulty variant: tail_ptr_ keeps the erased entry.
EraseKeepsTail(t, l, first, last) ==
  IF first = Null THEN t ELSE
  LET gone  == Range(Visited(t, first, last))
      prior == FindPrior(t, l, first)
      freed == FreeCells([t EXCEPT !.length[l] = @ - Cardinality(gone)], gone)
  IN IF prior = Null THEN [freed EXCEPT !.head[l] = last]
                     ELSE [freed EXCEPT !.next[prior] = last]

(* erase(first, last): the predecessor is found before the entries are      *)
(* freed, the gap is closed afterwards.                                     *)
Erase(t, l, first, last) ==
  IF first = Null THEN t ELSE
  LET gone  == Range(Visited(t, first, last))
      prior == FindPrior(t, l, first)
      freed == FreeCells([t EXCEPT !.length[l] = @ - Cardinality(gone)], gone)
      ahead == IF prior = Null THEN [freed EXCEPT !.head[l] = last]
                               ELSE [freed EXCEPT !.next[prior] = last]
  IN IF last = Null THEN [ahead EXCEPT !.tail[l] = prior] ELSE ahead

Clear(t, l) == Erase(t, l, First(t, l), Null)

ShmDestroy(t, l) == IF t.length[l] = 0 THEN t ELSE SetNull(Clear(t, l), l)

(* emplace_back of every entry of another list                              *)
AppendAll(t, l, values) == FoldLeft(LAMBDA u, v : Emplace(u, l, Null, v), t, values)

Copy(t, l, p) ==
  LET d == ShmDestroy(t, l) IN AppendAll(d, l, Data(d, Walk(d, p)))

Move(t, l, p) ==
  LET d == ShmDestroy(t, l)
  IN IF t.alloc[l] = t.alloc[p]
     THEN SetNull(TakeHeader(d, l, p), p)
     ELSE ShmDestroy(AppendAll(d, l, Data(d, Walk(d, p))), p)

-----------------------------------------------------------------------------
(* Calls.  Positions are what begin() + i reaches; i = size() is the end.   *)

EmplaceCall(l, i, v) ==
  /\ Room(store) > 0
  /\ store' = Emplace(store, l, After(store, First(store, l), i), v)

EraseRange(l, i, j) ==
  /\ i <= j
  /\ store' = Erase(store, l, After(store, First(store, l), i),
                            After(store, First(store, l), j))

EraseValue(l, v) ==
  LET pos == Find(store, l, v)
  IN store' = Erase(store, l, pos, Succ(store, pos))

Modify(l, i, v) ==
  LET c == After(store, First(store, l), i)
  IN c # Null /\ store' = [store EXCEPT !.data[c] = v]

CopyAssign(l, p) ==
  /\ Room(store) + store.length[l] >= store.length[p]
  /\ store' = Copy(store, l, p)

(* From a std::list.                                                       *)
AssignStd(l, q) ==
  /\ Room(store) + store.length[l] >= Len(q)
  /\ store' = AppendAll(ShmDestroy(store, l), l, q)

MoveAssign(l, p) ==
  /\ \/ store.alloc[l] = store.alloc[p]
     \/ Room(store) + store.length[l] >= store.length[p]
  /\ store' = Move(store, l, p)

(* Insertion at either end.                                                 *)
Insertable(l) == {0, store.length[l]}

Next ==
  \E l \in Lists :
    \/ \E i \in Insertable(l), v \in Values : EmplaceCall(l, i, v)
    \/ \E i, j \in 0..store.length[l] : EraseRange(l, i, j)
    \/ \E v \in Values : EraseValue(l, v)
    \/ \E i \in 0..(store.length[l] - 1), v \in Values : Modify(l, i, v)
    \/ \E q \in Literals : AssignStd(l, q)
    \/ \E p \in Lists \ {l} : CopyAssign(l, p) \/ MoveAssign(l, p)
=============================================================================

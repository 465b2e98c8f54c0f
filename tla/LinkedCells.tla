----------------------------- MODULE LinkedCells -----------------------------
(***************************************************************************)
(* Entries of linked containers in shared memory.  A store holds the links  *)
(* and data of every cell the allocator can hand out, the cells that are    *)
(* allocated (live), and the headers of the containers.  The containers are *)
(* not thread safe: a call is one step, and its effect a store.             *)
(***************************************************************************)
EXTENDS Integers, Sequences, FiniteSets, SequencesExt

CONSTANTS Cells,      \* offsets an allocation may return: integers
          Lists,      \* the container objects
          Values,
          Allocators, \* identifiers of the allocators of the containers
          Literals,   \* contents of a std::list that is copied from
          Null

VARIABLE store

Links == Cells \cup {Null}

Stores == [next : [Cells -> Links], prior : [Cells -> Links],
           data : [Cells -> Values \cup {Null}], live : SUBSET Cells,
           head : [Lists -> Links], tail : [Lists -> Links],
           length : [Lists -> 0..Cardinality(Cells)],
           alloc : [Lists -> Allocators]]

Init == \E a \in [Lists -> Allocators] :
  store = [next   |-> [c \in Cells |-> Null], prior |-> [c \in Cells |-> Null],
           data   |-> [c \in Cells |-> Null], live |-> {},
           head   |-> [l \in Lists |-> Null], tail |-> [l \in Lists |-> Null],
           length |-> [l \in Lists |-> 0], alloc |-> a]

(* begin() and the iterator i steps behind it: operator++ stays at the end. *)
First(t, l) == IF t.length[l] = 0 THEN Null ELSE t.head[l]
Succ(t, c) == IF c = Null THEN Null ELSE t.next[c]
After(t, c, i) == LET f[j \in 0..i] == IF j = 0 THEN c ELSE Succ(t, f[j - 1])
                  IN f[i]

(* The entries a forward iteration visits; a cycle makes it longer than     *)
(* there are cells.                                                        *)
Walk(t, l) == SelectSeq([i \in 1..(Cardinality(Cells) + 1) |->
                           After(t, First(t, l), i - 1)], LAMBDA c : c # Null)

Data(t, cells) == [i \in DOMAIN cells |-> t.data[cells[i]]]

(* _create_entry: which free cell the allocator picks makes no difference.  *)
FreeCell(t) == CHOOSE c \in Cells \ t.live : \A d \in Cells \ t.live : c <= d
CreateEntry(t, e, v) ==
  [t EXCEPT !.live = @ \cup {e}, !.data[e] = v, !.next[e] = Null, !.prior[e] = Null]

(* Memory that is freed holds nothing a container may rely on.              *)
FreeCells(t, cells) ==
  [t EXCEPT !.live  = @ \ cells,
            !.next  = [c \in Cells |-> IF c \in cells THEN Null ELSE @[c]],
            !.prior = [c \in Cells |-> IF c \in cells THEN Null ELSE @[c]],
            !.data  = [c \in Cells |-> IF c \in cells THEN Null ELSE @[c]]]

(* The entries an erase visits from first up to but not including last.    *)
Visited(t, first, last) ==
  LET cells == [i \in 1..Cardinality(Cells) |-> After(t, first, i - 1)]
      n == Cardinality({i \in DOMAIN cells :
             \A j \in 1..i : cells[j] \notin {Null, last}})
  IN SubSeq(cells, 1, n)

(* hshm::find(begin(), end(), v)                                            *)
Find(t, l, v) ==
  LET hits == SelectSeq(Walk(t, l), LAMBDA c : t.data[c] = v)
  IN IF hits = <<>> THEN Null ELSE hits[1]

SetNull(t, l) ==
  [t EXCEPT !.length[l] = 0, !.head[l] = Null, !.tail[l] = Null]

(* memcpy of a header between containers of one allocator                   *)
TakeHeader(t, l, p) ==
  [t EXCEPT !.length[l] = t.length[p], !.head[l] = t.head[p], !.tail[l] = t.tail[p]]

Room(t) == Cardinality(Cells \ t.live)
=============================================================================

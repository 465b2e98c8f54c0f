---------------------------- MODULE UnorderedMap ----------------------------
(***************************************************************************)
(* ipc/unordered_map.h: a vector of buckets, each a list of (key, value)    *)
(* pairs that is used at its end and by iterators only, so here it is the   *)
(* sequence SList is shown to implement.  A call is one step; a forward     *)
(* iteration is not, and the map changes under it.  The array of buckets is *)
(* a block of memory, known by a number that a larger one takes over; an    *)
(* entry's memory is its list's.                                           *)
(***************************************************************************)
EXTENDS Integers, Sequences, FiniteSets, SequencesExt

CONSTANTS
  Objects,      \* the maps
  Keys,         \* numbers: std::hash of an integer is the integer
  Values,
  Allocators,
  BucketCounts, \* num_buckets of the constructor
  MaxEntries    \* bound: entries of all maps, which an emplace or copy may reach

VARIABLE store

Pair(k, v) == [key |-> k, val |-> v]

NewBuckets(n) == [b \in 1..n |-> <<>>]

NoIterator == [bucket |-> 0]

NoArray == 0

Init == \E a \in [Objects -> Allocators], n \in [Objects -> BucketCounts],
           own \in Injection(Objects, 1..Cardinality(Objects)) :
  store = [buckets |-> [o \in Objects |-> NewBuckets(n[o])],
           length  |-> [o \in Objects |-> 0],
           array   |-> own,
           live    |-> Range(own),
           alloc   |-> a,
           iter    |-> [o \in Objects |-> NoIterator]]

Count(t, o) == Len(t.buckets[o])

(* Hash{}(key) % buckets.size()                                             *)
BucketOf(t, o, k) == (k % Count(t, o)) + 1

(* find_collision: where the key is in its bucket, or 0                     *)
FindCollision(t, o, k) ==
  SelectInSeq(t.buckets[o][BucketOf(t, o, k)], LAMBDA e : e.key = k)

EntriesOf(t, o) == FlattenSeq(t.buckets[o])

KeysOf(t, o) == {e.key : e \in UNION {Range(t.buckets[o][b]) : b \in 1..Count(t, o)}}

(* An object that has no array of buckets is given a new one.               *)
Allocate(t, o) ==
  LET block == CHOOSE b \in 1..Cardinality(t.live) + 1 : b \notin t.live
  IN IF t.array[o] # NoArray THEN t
     ELSE [t EXCEPT !.array[o] = block, !.live = @ \cup {block}]

-----------------------------------------------------------------------------
RemoveEntry(t, o, k) ==
  [t EXCEPT !.buckets[o][BucketOf(t, o, k)] = RemoveAt(@, FindCollision(t, o, k)),
            !.length[o] = @ - 1]

PutBack(t, o, k, v) ==
  [t EXCEPT !.buckets[o][BucketOf(t, o, k)] = Append(@, Pair(k, v)),
            !.length[o] = @ + 1]

(* emplace_templ<modify_existing>: the old entry of the key goes first.     *)
Emplace(t, o, k, v) ==
  IF FindCollision(t, o, k) = 0 THEN PutBack(t, o, k, v)
  ELSE PutBack(RemoveEntry(t, o, k), o, k, v)

TryEmplace(t, o, k, v) ==
  IF FindCollision(t, o, k) = 0 THEN PutBack(t, o, k, v) ELSE t

Erase(t, o, k) == IF FindCollision(t, o, k) = 0 THEN t ELSE RemoveEntry(t, o, k)

Clear(t, o) ==
  [t EXCEPT !.buckets[o] = NewBuckets(Count(t, o)), !.length[o] = 0]

(* shm_destroy of the vector of buckets                                     *)
FreeBuckets(t, o) ==
  [t EXCEPT !.buckets[o] = <<>>, !.array[o] = NoArray, !.live = @ \ {t.array[o]}]

(* shm_destroy: a map without entries keeps its buckets.                    *)
ShmDestroy(t, o) ==
  IF t.length[o] = 0 THEN t ELSE [FreeBuckets(t, o) EXCEPT !.length[o] = 0]

(* resize of the vector of buckets, none of which holds anything: to 0, it  *)
(* keeps its array.                                                        *)
Resize(t, o, n) ==
  [IF n = 0 THEN t ELSE Allocate(t, o) EXCEPT !.buckets[o] = NewBuckets(n)]

(* shm_strong_copy_op into a destroyed map                                  *)
Copy(t, o, p) ==
  FoldLeft(LAMBDA u, e : Emplace(u, o, e.key, e.val),
           Resize(t, o, Count(t, p)), EntriesOf(t, p))

\* Faulty variant: the buckets of an empty map are overwritten, not freed.
MoveOverwrites(t, o, p) ==
  LET d == ShmDestroy(t, o)
  IN IF t.alloc[o] = t.alloc[p]
     THEN [d EXCEPT !.buckets[o] = t.buckets[p], !.buckets[p] = <<>>,
                    !.array[o] = t.array[p], !.array[p] = NoArray,
                    !.length[o] = t.length[p], !.length[p] = 0]
     ELSE ShmDestroy(Copy(d, o, p), p)

(* A map that was moved from in one allocator is left without buckets; the  *)
(* assignment to the vector of the other frees what that still had.         *)
Move(t, o, p) ==
  LET d == ShmDestroy(t, o)
  IN IF t.alloc[o] = t.alloc[p]
     THEN [FreeBuckets(d, o) EXCEPT
             !.buckets[o] = t.buckets[p], !.buckets[p] = <<>>,
             !.array[o] = t.array[p], !.array[p] = NoArray,
             !.length[o] = t.length[p], !.length[p] = 0]
     ELSE ShmDestroy(Copy(d, o, p), p)

(* The constructor, in memory where a map may have been.                    *)
Construct(t, o, n) == Resize([t EXCEPT !.array[o] = NoArray, !.length[o] = 0], o, n)

-----------------------------------------------------------------------------
(* A forward iteration: the bucket and the key the iterator is at, 0 and no *)
(* key for none.  History of the iteration: the keys that were there when   *)
(* it began and have been ever since (stayed), and of those the ones that   *)
(* were visited (seen), visited again, and replaced (moved).                *)

Iterating(t, o) == t.iter[o].bucket # 0

\* Faulty variant: one empty bucket is skipped, not all of them.
MakeCorrectOnce(t, o, b, i) ==
  IF i <= Len(t.buckets[o][b]) THEN <<b, i>>
  ELSE IF b = Count(t, o) \/ t.buckets[o][b + 1] = <<>> THEN <<0, 0>> ELSE <<b + 1, 1>>

(* make_correct: entry i of bucket b, or the first one behind it.           *)
MakeCorrect(t, o, b, i) ==
  LET later == {c \in (b + 1)..Count(t, o) : t.buckets[o][c] # <<>>}
  IN IF i <= Len(t.buckets[o][b]) THEN <<b, i>>
     ELSE IF later = {} THEN <<0, 0>>
     ELSE <<CHOOSE c \in later : \A d \in later : c <= d, 1>>

(* The iterator comes to stand at an entry, whose pair the loop reads.      *)
Visit(t, o, at, history) ==
  LET key == t.buckets[o][at[1]][at[2]].key
  IN [history EXCEPT !.bucket = at[1], !.key = key,
        !.seen  = @ \cup ({key} \cap history.stayed),
        !.again = @ \cup ({key} \cap history.seen)]

Finished(t, o) == [t EXCEPT !.iter[o] = NoIterator]

Begin(t, o) ==
  LET at == MakeCorrect(t, o, 1, 1)
      none == [bucket |-> 0, key |-> 0, stayed |-> KeysOf(t, o),
               seen |-> {}, again |-> {}, moved |-> {}]
  IN IF at[1] = 0 THEN t ELSE [t EXCEPT !.iter[o] = Visit(t, o, at, none)]

(* ++iter: the end iterator, or the next entry.                             *)
Advance(t, o) ==
  LET it == t.iter[o]
      at == MakeCorrect(t, o, it.bucket, FindCollision(t, o, it.key) + 1)
  IN IF at[1] = 0 THEN Finished(t, o) ELSE [t EXCEPT !.iter[o] = Visit(t, o, at, it)]

(* A change by a call while the iteration stands still.                     *)
Noted(t, o, moved) ==
  IF ~Iterating(t, o) THEN t
  ELSE LET stayed == t.iter[o].stayed \cap KeysOf(t, o) IN
       [t EXCEPT !.iter[o].stayed = stayed,
                 !.iter[o].seen = @ \cap stayed, !.iter[o].again = @ \cap stayed,
                 !.iter[o].moved = (@ \cup moved) \cap stayed]

(* The entry an iterator is at may not be erased or replaced.               *)
Unused(o, k) == Iterating(store, o) => store.iter[o].key # k

-----------------------------------------------------------------------------
(* Calls.  A map without buckets has no bucket for a key: % 0.              *)
HasBuckets(o) == Count(store, o) > 0

Call(t) ==
  /\ MapThenSumSet(LAMBDA o : t.length[o], Objects) <= MaxEntries
  /\ store' = t

EmplaceCall(o, k, v) ==
  /\ HasBuckets(o) /\ Unused(o, k)
  /\ Call(Noted(Emplace(store, o, k, v), o, {k}))

TryEmplaceCall(o, k, v) ==
  /\ HasBuckets(o)
  /\ Call(TryEmplace(store, o, k, v))

(* erase of a key, and at an iterator that find returned                    *)
EraseCall(o, k) ==
  /\ HasBuckets(o) /\ Unused(o, k)
  /\ store' = Noted(Erase(store, o, k), o, {})

ClearCall(o) == store' = Finished(Clear(store, o), o)

(* operator[] and find, and an assignment to the value of the pair          *)
Modify(o, k, v) ==
  /\ HasBuckets(o) /\ FindCollision(store, o, k) # 0
  /\ store' = [store EXCEPT !.buckets[o][BucketOf(store, o, k)]
                               [FindCollision(store, o, k)].val = v]

CopyAssign(o, p) ==
  Call(Finished(Copy(ShmDestroy(store, o), o, p), o))

MoveAssign(o, p) == store' = Finished(Finished(Move(store, o, p), o), p)

(* An input that is left out: an object that ends without an entry, but     *)
(* with buckets.                                                           *)
SoundDestroy(o) == store.length[o] # 0 \/ store.array[o] = NoArray

(* The end of an object, and a new one in its place.                        *)
Renew(o, n) ==
  /\ SoundDestroy(o)
  /\ store' = Finished(Construct(ShmDestroy(store, o), o, n), o)

(* One iteration at a time.                                                *)
BeginCall(o) ==
  /\ HasBuckets(o) /\ \A p \in Objects : ~Iterating(store, p)
  /\ store' = Begin(store, o)

AdvanceCall(o) == Iterating(store, o) /\ store' = Advance(store, o)

Next == \E o \in Objects :
  \/ \E k \in Keys, v \in Values :
       EmplaceCall(o, k, v) \/ TryEmplaceCall(o, k, v) \/ Modify(o, k, v)
  \/ \E k \in Keys : EraseCall(o, k)
  \/ ClearCall(o)
  \/ \E n \in BucketCounts : Renew(o, n)
  \/ \E p \in Objects \ {o} : CopyAssign(o, p) \/ MoveAssign(o, p)
  \/ BeginCall(o) \/ AdvanceCall(o)

-----------------------------------------------------------------------------
ArrayOwned(o) == IF store.array[o] = NoArray THEN <<>> ELSE <<store.array[o]>>

(* length_ counts the entries, no key has two, and each entry is in the     *)
(* bucket where find looks for it.                                         *)
Fits(o) ==
  LET entries == EntriesOf(store, o) IN
  /\ store.length[o] = Len(entries)
  /\ Cardinality(KeysOf(store, o)) = Len(entries)
  /\ \A k \in KeysOf(store, o) : FindCollision(store, o, k) # 0

(* The function a caller sees.                                              *)
Contents(o) == [k \in KeysOf(store, o) |->
  LET entries == EntriesOf(store, o)
  IN entries[SelectInSeq(entries, LAMBDA e : e.key = k)].val]

(* An iteration that comes to its end has visited every entry that was      *)
(* there all the time, also one that was replaced, and none of them twice   *)
(* but one that was replaced.                                              *)
Complete(o) ==
  Iterating(store, o) /\ store' = Advance(store, o) /\ ~Iterating(store', o) =>
    /\ store.iter[o].stayed \subseteq store.iter[o].seen
    /\ store.iter[o].again \subseteq store.iter[o].moved
=============================================================================

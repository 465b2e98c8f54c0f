---------------------------- MODULE VectorProofs ----------------------------
(***************************************************************************)
(* Proofs about containers that keep all they own in one block: first what *)
(* they have in common, then vectors of plain elements and the rings of    *)
(* queues, which are vectors with two tokens.  For each kind there is an   *)
(* inductive invariant (VecInv, RingInv), with lemmas that it holds at     *)
(* first, that every call keeps it, and that it implies what Containers    *)
(* promises of the blocks.  The other kinds and the theorems are in        *)
(* ContainersProofs.                                                       *)
(***************************************************************************)
EXTENDS Buffers, FiniteSetTheorems, TLAPS

(* A set of natural numbers that is not empty has a least element.         *)
LEMMA LeastElement ==
  ASSUME NEW T, T \subseteq Nat, T # {}
  PROVE  \E i \in T : \A j \in T : i <= j
<1>1. PICK i \in T : \A j \in T : ~ (<<j, i>> \in OpToRel(<, Nat))
  BY NatLessThanWellFounded, WFMin
<1>2. \A j \in T : ~ (j < i)
  BY <1>1 DEF OpToRel
<1> QED
  BY <1>2

(* Induction over an interval, for a set instead of a predicate.           *)
LEMMA IntervalInduction ==
  ASSUME NEW n \in Nat, NEW T, 0 \in T,
         \A i \in 0..(n - 1) : i \in T => i + 1 \in T
  PROVE  \A i \in 0..n : i \in T
<1> DEFINE S == {i \in 0..n : i \notin T}
<1>1. SUFFICES ASSUME S # {} PROVE FALSE
  OBVIOUS
<1>2. S \subseteq Nat
  OBVIOUS
<1>3. PICK i \in S : \A j \in S : i <= j
  BY <1>1, <1>2, LeastElement
<1>4. i # 0 /\ i - 1 \in 0..(n - 1) /\ i - 1 \notin S
  BY <1>3
<1> QED
  BY <1>4

(* Which free block or cell an allocator picks: one that is not live.      *)
LEMMA FreeIsFree ==
  ASSUME NEW S, S \subseteq Nat, S # {}
  PROVE  (CHOOSE b \in S : \A c \in S : b <= c) \in S
BY LeastElement

(* An object that owns one block, or none.                                 *)
One(b) == IF b = Null THEN <<>> ELSE <<b>>

(* The blocks of such an object are different ones.                        *)
LEMMA OneRange ==
  ASSUME NEW b
  PROVE  /\ Range(One(b)) = {b} \ {Null}
         /\ Len(One(b)) = Cardinality(Range(One(b)))
<1>1. CASE b = Null
  <2>1. One(b) = <<>> /\ Range(One(b)) = {}
    BY <1>1 DEF One, Range
  <2> QED
    BY <1>1, <2>1, FS_EmptySet
<1>2. CASE b # Null
  <2>1. One(b) = <<b>> /\ Range(One(b)) = {b}
    BY <1>2 DEF One, Range
  <2> QED
    BY <1>2, <2>1, FS_Singleton
<1> QED
  BY <1>1, <1>2

(* What Containers.OwnedOnce and Containers.HeadersAgree say of the objects*)
(* that keep their contents in one block.                                  *)
BlocksOwnedOnce ==
  /\ store.live = UNION {Range(BufferOwned(o)) : o \in Objects}
  /\ \A o \in Objects : Len(BufferOwned(o)) = Cardinality(Range(BufferOwned(o)))
  /\ \A o, p \in Objects : o # p => Range(BufferOwned(o)) \cap Range(BufferOwned(p)) = {}

BlocksFit == \A o \in Objects : BufferFits(o)

(* So the blocks are owned once if live are those that objects refer to,   *)
(* each by one of them.                                                    *)
LEMMA OneBlockEach ==
  ASSUME NEW own,
         \A o \in Objects : BufferOwned(o) = One(own[o]),
         \A o \in Objects : own[o] # Null => own[o] \in store.live,
         \A b \in store.live : b # Null /\ \E o \in Objects : own[o] = b,
         \A o, p \in Objects : o # p /\ own[o] = own[p] => own[o] = Null
  PROVE  BlocksOwnedOnce
<1>1. \A o \in Objects : Range(BufferOwned(o)) = {own[o]} \ {Null}
  BY OneRange
<1>2. \A o \in Objects : Len(BufferOwned(o)) = Cardinality(Range(BufferOwned(o)))
  BY OneRange
<1>3. store.live = UNION {Range(BufferOwned(o)) : o \in Objects}
  BY <1>1
<1>4. \A o, p \in Objects : o # p => Range(BufferOwned(o)) \cap Range(BufferOwned(p)) = {}
  BY <1>1
<1> QED
  BY <1>2, <1>3, <1>4 DEF BlocksOwnedOnce

-----------------------------------------------------------------------------
(* Stores of containers that keep slots from S in their blocks.            *)
HeapStores(S, headers) ==
  [mem : [Blocks -> Seq(S)], live : SUBSET Blocks,
   hdr : [Objects -> headers], alloc : [Objects -> Allocators]]

(* Nothing is a sequence over any set.                                     *)
LEMMA EmptyIsSeq == \A S : <<>> \in Seq(S)
OBVIOUS

(* What the fields of such a store are.                                    *)
LEMMA StoreParts ==
  ASSUME NEW S, NEW H, NEW t \in HeapStores(S, H)
  PROVE  /\ t.mem \in [Blocks -> Seq(S)] /\ t.live \subseteq Blocks
         /\ t.hdr \in [Objects -> H] /\ t.alloc \in [Objects -> Allocators]
BY DEF HeapStores

(* A sequence whose members are from T is one over T.                      *)
LEMMA SeqOver ==
  ASSUME NEW S, NEW T, NEW q \in Seq(S), \A i \in 1..Len(q) : q[i] \in T
  PROVE  q \in Seq(T)
<1>1. q \in [1..Len(q) -> S] /\ Len(q) \in Nat
  OBVIOUS
<1>2. q \in [1..Len(q) -> T]
  BY <1>1
<1> QED
  BY <1>1, <1>2

(* A slot of two sequences put together is a slot of one of them.          *)
LEMMA ConcatAt ==
  ASSUME NEW S, NEW a \in Seq(S), NEW b \in Seq(S), NEW j \in 1..(Len(a) + Len(b))
  PROVE  (a \o b)[j] = IF j <= Len(a) THEN a[j] ELSE b[j - Len(a)]
OBVIOUS

(* A sequence cut off at or filled up to n slots.                          *)
LEMMA PaddedSlots ==
  ASSUME NEW S, NEW q \in Seq(S), NEW n \in Nat, NEW v \in S
  PROVE  LET r == IF n <= Len(q) THEN SubSeq(q, 1, n)
                  ELSE q \o [i \in 1..(n - Len(q)) |-> v] IN
         /\ r \in Seq(S) /\ Len(r) = n
         /\ \A i \in 1..n : r[i] = IF i <= Len(q) THEN q[i] ELSE v
<1>1. CASE n <= Len(q)
  BY <1>1
<1>2. CASE ~(n <= Len(q))
  <2> DEFINE w == [i \in 1..(n - Len(q)) |-> v]
  <2>1. n - Len(q) \in Nat
    BY <1>2
  <2>2. w \in Seq(S) /\ Len(w) = n - Len(q) /\ \A i \in 1..(n - Len(q)) : w[i] = v
    BY <2>1
  <2> HIDE DEF w
  <2>3. q \o w \in Seq(S) /\ Len(q \o w) = n
    BY <2>1, <2>2
  <2>4. \A i \in 1..n : (q \o w)[i] = IF i <= Len(q) THEN q[i] ELSE v
    BY <2>1, <2>2
  <2> QED
    BY <1>2, <2>3, <2>4 DEF w
<1> QED
  BY <1>1, <1>2

-----------------------------------------------------------------------------
(* A loop whose i-th round takes T[i - 1] to T[i]: the function that the   *)
(* model defines by recursion exists, and its values are in T.             *)
Loop(n, X, T, step, a) ==
  /\ n \in Nat /\ a \in T[0]
  /\ \A i \in 0..n : T[i] \subseteq X
  /\ \A i \in 1..n : \A u \in T[i - 1] : step[i][u] \in T[i]

(* The rounds of such a loop can all be made.                              *)
LEMMA LoopExists ==
  ASSUME NEW n, NEW X, NEW T, NEW step, NEW a, Loop(n, X, T, step, a)
  PROVE  \E f \in [0..n -> X] :
           f[0] = a /\ \A i \in 1..n : f[i - 1] \in T[i - 1] /\ f[i] = step[i][f[i - 1]]
<1>0. /\ n \in Nat /\ a \in T[0]
      /\ \A i \in 0..n : T[i] \subseteq X
      /\ \A i \in 1..n : \A u \in T[i - 1] : step[i][u] \in T[i]
  BY DEF Loop
<1> USE <1>0
<1> DEFINE Is(f, k) ==
             f[0] = a /\ \A i \in 1..k : f[i - 1] \in T[i - 1] /\ f[i] = step[i][f[i - 1]]
           R == {k \in 0..n : \E f \in [0..k -> X] : Is(f, k) /\ f[k] \in T[k]}
<1>1. 0 \in R
  <2> DEFINE g == [i \in 0..0 |-> a]
  <2>1. g \in [0..0 -> X] /\ g[0] = a
    OBVIOUS
  <2> HIDE DEF g
  <2>2. Is(g, 0)
    BY <2>1
  <2> QED
    BY <2>1, <2>2
<1>2. ASSUME NEW k \in 0..(n - 1), k \in R PROVE k + 1 \in R
  <2>1. PICK f \in [0..k -> X] : Is(f, k) /\ f[k] \in T[k]
    BY <1>2
  <2> DEFINE x == step[k + 1][f[k]]
             g == [i \in 0..(k + 1) |-> IF i = k + 1 THEN x ELSE f[i]]
  <2>2. k + 1 \in 1..n /\ k + 1 \in 0..n /\ (k + 1) - 1 = k
    OBVIOUS
  <2>3. x \in T[k + 1] /\ x \in X
    BY <2>1, <2>2
  <2> HIDE DEF x
  <2>4. g \in [0..(k + 1) -> X] /\ g[k + 1] = x /\ \A i \in 0..k : g[i] = f[i]
    BY <2>3
  <2> HIDE DEF g
  <2>5. ASSUME NEW i \in 1..(k + 1)
        PROVE  g[i - 1] \in T[i - 1] /\ g[i] = step[i][g[i - 1]]
    <3>1. CASE i = k + 1
      <4>1. g[i] = step[i][f[k]] /\ g[i - 1] = f[k]
        BY <2>2, <2>4, <3>1 DEF x
      <4> QED
        BY <2>1, <2>2, <3>1, <4>1
    <3>2. CASE i # k + 1
      <4>1. i \in 1..k /\ i \in 0..k /\ i - 1 \in 0..k
        BY <3>2
      <4>2. g[i] = f[i] /\ g[i - 1] = f[i - 1]
        BY <2>4, <4>1
      <4>3. f[i - 1] \in T[i - 1] /\ f[i] = step[i][f[i - 1]]
        BY <2>1, <4>1
      <4> QED
        BY <4>2, <4>3
    <3> QED
      BY <3>1, <3>2
  <2>6. g[0] = a
    BY <2>1, <2>4
  <2>7. Is(g, k + 1)
    BY <2>5, <2>6
  <2> HIDE DEF Is
  <2> QED
    BY <2>2, <2>3, <2>4, <2>7
<1> HIDE DEF R
<1>3. \A k \in 0..n : k \in R
  BY <1>1, <1>2, IntervalInduction
<1>4. n \in R
  BY <1>3
<1> QED
  BY <1>4 DEF R

(* Stores before and after one assignment of the model.                    *)
LEMMA PutHeader ==
  ASSUME NEW S, NEW H, NEW t \in HeapStores(S, H), NEW o \in Objects, NEW h \in H,
         NEW u, u = [t EXCEPT !.hdr[o] = h]
  PROVE  /\ u \in HeapStores(S, H) /\ u.hdr[o] = h
         /\ \A x \in Objects \ {o} : u.hdr[x] = t.hdr[x]
         /\ u.live = t.live /\ u.mem = t.mem /\ u.alloc = t.alloc
BY DEF HeapStores

-----------------------------------------------------------------------------
(* Containers that own one block or none.  Own[h] is the block that the    *)
(* header h owns, or Null; G are the headers together with the slots of    *)
(* that block that fit.                                                    *)
OwnSlots(t, Own, o) ==
  IF Own[t.hdr[o]] = Null THEN <<>> ELSE t.mem[Own[t.hdr[o]]]

(* What holds of the objects in D: all but one that is being assigned to.  *)
Sound(t, S, H, Own, G, D) ==
  /\ t \in HeapStores(S, H)
  /\ \A o \in D : <<t.hdr[o], OwnSlots(t, Own, o)>> \in G
  /\ \A o \in D : Own[t.hdr[o]] \in t.live \cup {Null}
  /\ \A o \in D : \A p \in D \ {o} :
       Own[t.hdr[o]] = Own[t.hdr[p]] => Own[t.hdr[o]] = Null
  /\ \A b \in t.live : \E o \in D : Own[t.hdr[o]] = b

(* Nothing changes for an object.                                          *)
Kept(t, u, Own, o) ==
  u.hdr[o] = t.hdr[o] /\ OwnSlots(u, Own, o) = OwnSlots(t, Own, o)

(* At first no object owns anything.                                       *)
LEMMA SoundNothing ==
  ASSUME NEW S, NEW H, NEW Own, NEW G, NEW t \in HeapStores(S, H), t.live = {},
         NEW h, \A o \in Objects : t.hdr[o] = h, Own[h] = Null, <<h, <<>>>> \in G
  PROVE  Sound(t, S, H, Own, G, Objects)
BY DEF Sound, OwnSlots

(* An object that owns nothing may be assigned to.                         *)
LEMMA SoundDrop ==
  ASSUME NEW S, NEW H, NEW Own, NEW G, NEW t, Sound(t, S, H, Own, G, Objects),
         NEW o \in Objects, Own[t.hdr[o]] = Null
  PROVE  Sound(t, S, H, Own, G, Objects \ {o})
<1>0. t.live \subseteq Blocks /\ Null \notin Blocks
  BY StoreParts, BuffersAssumption DEF Sound
<1>1. \A b \in t.live : \E x \in Objects \ {o} : Own[t.hdr[x]] = b
  BY <1>0 DEF Sound
<1> QED
  BY <1>1 DEF Sound

(* The block of o, if it has one, is given back.                           *)
LEMMA SoundRelease ==
  ASSUME NEW S, NEW H, NEW Own, NEW G, NEW t, Sound(t, S, H, Own, G, Objects),
         NEW o \in Objects, NEW u \in HeapStores(S, H), u.hdr = t.hdr,
         u.live = t.live \ {Own[t.hdr[o]]},
         \A b \in u.live : u.mem[b] = t.mem[b]
  PROVE  /\ Sound(u, S, H, Own, G, Objects \ {o})
         /\ \A x \in Objects \ {o} : Kept(t, u, Own, x)
<1>0. t.live \subseteq Blocks /\ Null \notin Blocks
  BY StoreParts, BuffersAssumption DEF Sound
<1>1. \A x \in Objects \ {o} : Kept(t, u, Own, x)
  <2> SUFFICES ASSUME NEW x \in Objects \ {o} PROVE OwnSlots(u, Own, x) = OwnSlots(t, Own, x)
    BY DEF Kept
  <2>1. CASE Own[t.hdr[x]] = Null
    BY <2>1 DEF OwnSlots
  <2>2. CASE Own[t.hdr[x]] # Null
    <3>1. Own[t.hdr[x]] \in u.live
      BY <2>2 DEF Sound
    <3> QED
      BY <3>1, <2>2 DEF OwnSlots
  <2> QED
    BY <2>1, <2>2
<1>2. \A x \in Objects \ {o} : Own[t.hdr[x]] \in u.live \cup {Null}
  BY DEF Sound
<1>3. \A b \in u.live : \E x \in Objects \ {o} : Own[u.hdr[x]] = b
  BY DEF Sound
<1> QED
  BY <1>1, <1>2, <1>3 DEF Sound, Kept

(* The object o, which owns nothing yet, gets a header that owns nothing.  *)
LEMMA SoundNone ==
  ASSUME NEW S, NEW H, NEW Own, NEW G, NEW o \in Objects, NEW t, Sound(t, S, H, Own, G, Objects \ {o}),
         NEW u \in HeapStores(S, H), u.live = t.live,
         Own[u.hdr[o]] = Null, <<u.hdr[o], <<>>>> \in G,
         \A x \in Objects \ {o} : u.hdr[x] = t.hdr[x],
         \A b \in t.live : u.mem[b] = t.mem[b]
  PROVE  /\ Sound(u, S, H, Own, G, Objects)
         /\ OwnSlots(u, Own, o) = <<>>
         /\ \A x \in Objects \ {o} : Kept(t, u, Own, x)
<1>0. t.hdr \in [Objects -> H]
  BY StoreParts DEF Sound
<1>1. \A x \in Objects \ {o} : u.hdr[x] = t.hdr[x]
  OBVIOUS
<1>2. OwnSlots(u, Own, o) = <<>> /\ \A x \in Objects \ {o} : Kept(t, u, Own, x)
  BY <1>1 DEF OwnSlots, Kept, Sound
<1>3. /\ \A x \in Objects : <<u.hdr[x], OwnSlots(u, Own, x)>> \in G
      /\ \A x \in Objects : Own[u.hdr[x]] \in u.live \cup {Null}
  BY <1>1, <1>2 DEF Sound, Kept
<1>4. \A x \in Objects : \A y \in Objects \ {x} :
        Own[u.hdr[x]] = Own[u.hdr[y]] => Own[u.hdr[x]] = Null
  <2> SUFFICES ASSUME NEW x \in Objects, NEW y \in Objects \ {x},
                      Own[u.hdr[x]] = Own[u.hdr[y]]
               PROVE  Own[u.hdr[x]] = Null
    OBVIOUS
  <2>1. CASE x # o /\ y # o
    BY <1>1, <2>1 DEF Sound
  <2>2. CASE x = o
    BY <1>1, <2>2 DEF Sound
  <2>3. CASE y = o
    BY <1>1, <2>3 DEF Sound
  <2> QED
    BY <2>1, <2>2, <2>3
<1>5. \A b \in u.live : \E x \in Objects : Own[u.hdr[x]] = b
  BY <1>1 DEF Sound
<1> QED
  BY <1>1, <1>2, <1>3, <1>4, <1>5 DEF Sound

(* What p owns goes to o, and p is left with a header that owns nothing.   *)
LEMMA SoundMove ==
  ASSUME NEW S, NEW H, NEW Own, NEW G, NEW o \in Objects, NEW p \in Objects \ {o},
         NEW t, Sound(t, S, H, Own, G, Objects \ {o}),
         NEW u \in HeapStores(S, H), u.live = t.live,
         u.hdr[o] = t.hdr[p], Own[u.hdr[p]] = Null, <<u.hdr[p], <<>>>> \in G,
         \A x \in Objects \ {o, p} : u.hdr[x] = t.hdr[x],
         \A b \in t.live : u.mem[b] = t.mem[b]
  PROVE  /\ Sound(u, S, H, Own, G, Objects)
         /\ OwnSlots(u, Own, o) = OwnSlots(t, Own, p)
         /\ OwnSlots(u, Own, p) = <<>>
         /\ \A x \in Objects \ {o, p} : Kept(t, u, Own, x)
<1>0. t.hdr \in [Objects -> H]
  BY StoreParts DEF Sound
<1>1. /\ u.hdr[o] = t.hdr[p]
      /\ \A x \in Objects \ {o, p} : u.hdr[x] = t.hdr[x]
  OBVIOUS
<1>2. /\ OwnSlots(u, Own, o) = OwnSlots(t, Own, p)
      /\ OwnSlots(u, Own, p) = <<>>
      /\ \A x \in Objects \ {o, p} : Kept(t, u, Own, x)
  BY <1>1 DEF OwnSlots, Kept, Sound
<1>3. /\ \A x \in Objects : <<u.hdr[x], OwnSlots(u, Own, x)>> \in G
      /\ \A x \in Objects : Own[u.hdr[x]] \in u.live \cup {Null}
  BY <1>1, <1>2 DEF Sound, Kept
<1>4. \A x \in Objects : \A y \in Objects \ {x} :
        Own[u.hdr[x]] = Own[u.hdr[y]] => Own[u.hdr[x]] = Null
  <2> SUFFICES ASSUME NEW x \in Objects, NEW y \in Objects \ {x},
                      Own[u.hdr[x]] = Own[u.hdr[y]]
               PROVE  Own[u.hdr[x]] = Null
    OBVIOUS
  <2>1. CASE x # o /\ y # o
    BY <1>1, <2>1 DEF Sound
  <2>2. CASE x = o
    BY <1>1, <2>2 DEF Sound
  <2>3. CASE y = o
    BY <1>1, <2>3 DEF Sound
  <2> QED
    BY <2>1, <2>2, <2>3
<1>5. \A b \in u.live : \E x \in Objects : Own[u.hdr[x]] = b
  <2> SUFFICES ASSUME NEW b \in u.live PROVE \E x \in Objects : Own[u.hdr[x]] = b
    OBVIOUS
  <2>1. PICK x \in Objects \ {o} : Own[t.hdr[x]] = b
    BY DEF Sound
  <2> QED
    BY <1>1, <2>1
<1> QED
  BY <1>1, <1>2, <1>3, <1>4, <1>5 DEF Sound

(* The header and the slots of o change, and o owns what it owned before.  *)
LEMMA SoundWrite ==
  ASSUME NEW S, NEW H, NEW Own, NEW G, NEW o \in Objects, NEW t, Sound(t, S, H, Own, G, Objects),
         NEW u \in HeapStores(S, H), u.live = t.live,
         Own[u.hdr[o]] = Own[t.hdr[o]], <<u.hdr[o], OwnSlots(u, Own, o)>> \in G,
         \A x \in Objects \ {o} : u.hdr[x] = t.hdr[x],
         \A d \in t.live \ {Own[t.hdr[o]]} : u.mem[d] = t.mem[d]
  PROVE  /\ Sound(u, S, H, Own, G, Objects)
         /\ \A x \in Objects \ {o} : Kept(t, u, Own, x)
<1>0. /\ t.hdr \in [Objects -> H] /\ t.mem \in [Blocks -> Seq(S)]
      /\ t.live \subseteq Blocks /\ Null \notin Blocks
  BY StoreParts, BuffersAssumption DEF Sound
<1>1. \A x \in Objects \ {o} : u.hdr[x] = t.hdr[x]
  OBVIOUS
<1>a. Own[t.hdr[o]] # Null => Own[t.hdr[o]] \in t.live
  BY DEF Sound
<1>3. \A x \in Objects \ {o} : Kept(t, u, Own, x)
  <2> SUFFICES ASSUME NEW x \in Objects \ {o} PROVE OwnSlots(u, Own, x) = OwnSlots(t, Own, x)
    BY <1>1 DEF Kept
  <2>1. CASE Own[t.hdr[x]] = Null
    BY <1>1, <2>1 DEF OwnSlots
  <2>2. CASE Own[t.hdr[x]] # Null
    <3>1. Own[t.hdr[x]] \in t.live /\ Own[t.hdr[x]] # Own[t.hdr[o]]
      BY <2>2 DEF Sound
    <3> QED
      BY <1>0, <1>a, <1>1, <2>2, <3>1 DEF OwnSlots
  <2> QED
    BY <2>1, <2>2
<1>4. /\ \A x \in Objects : <<u.hdr[x], OwnSlots(u, Own, x)>> \in G
      /\ \A x \in Objects : Own[u.hdr[x]] \in u.live \cup {Null}
  BY <1>1, <1>3 DEF Sound, Kept
<1>5. \A x \in Objects : \A y \in Objects \ {x} :
        Own[u.hdr[x]] = Own[u.hdr[y]] => Own[u.hdr[x]] = Null
  <2> SUFFICES ASSUME NEW x \in Objects, NEW y \in Objects \ {x},
                      Own[u.hdr[x]] = Own[u.hdr[y]]
               PROVE  Own[u.hdr[x]] = Null
    OBVIOUS
  <2>1. CASE x # o /\ y # o
    BY <1>1, <2>1 DEF Sound
  <2>2. CASE x = o
    BY <1>1, <2>2 DEF Sound
  <2>3. CASE y = o
    BY <1>1, <2>3 DEF Sound
  <2> QED
    BY <2>1, <2>2, <2>3
<1>6. \A d \in u.live : \E x \in Objects : Own[u.hdr[x]] = d
  BY <1>1 DEF Sound
<1> QED
  BY <1>1, <1>3, <1>4, <1>5, <1>6 DEF Sound

(* A new block with the slots q takes the place of what o owned.           *)
LEMMA SoundReplace ==
  ASSUME NEW S, NEW H, NEW Own, NEW G, NEW o \in Objects, NEW t, Sound(t, S, H, Own, G, Objects),
         NEW u \in HeapStores(S, H), Own[u.hdr[o]] \in Blocks \ t.live,
         u.live = (t.live \cup {Own[u.hdr[o]]}) \ {Own[t.hdr[o]]},
         <<u.hdr[o], OwnSlots(u, Own, o)>> \in G,
         \A x \in Objects \ {o} : u.hdr[x] = t.hdr[x],
         \A d \in t.live \ {Own[t.hdr[o]]} : u.mem[d] = t.mem[d]
  PROVE  /\ Sound(u, S, H, Own, G, Objects)
         /\ \A x \in Objects \ {o} : Kept(t, u, Own, x)
<1> DEFINE b == Own[u.hdr[o]]
<1> HIDE DEF b
<1>z. /\ b \in Blocks \ t.live /\ Own[u.hdr[o]] = b
      /\ u.live = (t.live \cup {b}) \ {Own[t.hdr[o]]}
      /\ \A d \in u.live \ {b} : u.mem[d] = t.mem[d]
  BY DEF b
<1>0. /\ t.hdr \in [Objects -> H] /\ t.live \subseteq Blocks /\ Null \notin Blocks
  BY StoreParts, BuffersAssumption DEF Sound
<1>1. \A x \in Objects \ {o} : u.hdr[x] = t.hdr[x]
  OBVIOUS
<1>a. b # Own[t.hdr[o]] /\ b \in u.live
  BY <1>z, <1>0 DEF Sound
<1>b. \A x \in Objects \ {o} : Own[t.hdr[x]] # Null => Own[t.hdr[x]] \in u.live \ {b}
  BY <1>z DEF Sound
<1>3. \A x \in Objects \ {o} : Kept(t, u, Own, x)
  BY <1>z, <1>1, <1>b DEF OwnSlots, Kept
<1>4. /\ \A x \in Objects : <<u.hdr[x], OwnSlots(u, Own, x)>> \in G
      /\ \A x \in Objects : Own[u.hdr[x]] \in u.live \cup {Null}
  BY <1>z, <1>1, <1>3, <1>a, <1>b DEF Sound, Kept
<1>5. \A x \in Objects : \A y \in Objects \ {x} :
        Own[u.hdr[x]] = Own[u.hdr[y]] => Own[u.hdr[x]] = Null
  <2> SUFFICES ASSUME NEW x \in Objects, NEW y \in Objects \ {x},
                      Own[u.hdr[x]] = Own[u.hdr[y]]
               PROVE  Own[u.hdr[x]] = Null
    OBVIOUS
  <2>1. CASE x # o /\ y # o
    BY <1>z, <1>0, <1>1, <1>b, <2>1 DEF Sound
  <2>2. CASE x = o
    BY <1>z, <1>0, <1>1, <1>b, <2>2 DEF Sound
  <2>3. CASE y = o
    BY <1>z, <1>0, <1>1, <1>b, <2>3 DEF Sound
  <2> QED
    BY <2>1, <2>2, <2>3
<1>6. \A d \in u.live : \E x \in Objects : Own[u.hdr[x]] = d
  BY <1>z, <1>1 DEF Sound
<1> QED
  BY <1>z, <1>1, <1>3, <1>4, <1>5, <1>6 DEF Sound

(* Objects that are sound own their blocks once.                           *)
LEMMA SoundOwnedOnce ==
  ASSUME NEW S, NEW H, NEW Own, NEW G, Sound(store, S, H, Own, G, Objects),
         \A o \in Objects : BufferOwned(o) = One(Own[store.hdr[o]])
  PROVE  BlocksOwnedOnce
<1> DEFINE own == [o \in Objects |-> Own[store.hdr[o]]]
<1>0. store.live \subseteq Blocks /\ Null \notin Blocks
  BY StoreParts, BuffersAssumption DEF Sound
<1>1. \A o \in Objects : BufferOwned(o) = One(own[o])
  OBVIOUS
<1>2. \A o \in Objects : own[o] # Null => own[o] \in store.live
  BY DEF Sound
<1>3. \A b \in store.live : b # Null /\ \E o \in Objects : own[o] = b
  BY <1>0 DEF Sound
<1>4. \A o, p \in Objects : o # p /\ own[o] = own[p] => own[o] = Null
  BY DEF Sound
<1> HIDE DEF own
<1> QED
  BY <1>1, <1>2, <1>3, <1>4, OneBlockEach

-----------------------------------------------------------------------------
(* vector: the elements are from W, which for the vectors in queues has    *)
(* Null in it, and the headers are those of vectors or of queues.          *)
PlainHeaders == [ptr : Blocks \cup {Null}, max : Nat, length : Nat]
RingHeaders == [ptr : Blocks \cup {Null}, max : Nat, length : Nat, head : Nat, tail : Nat]
VecHeaders == PlainHeaders \cup RingHeaders

WithRaw(W) == W \cup {Raw}

VecOwn == [h \in VecHeaders |-> h.ptr]

(* The capacity is that of the array, and the elements are constructed.    *)
VecFit(W) == {g \in VecHeaders \X Seq(WithRaw(W)) :
  /\ g[1].length <= g[1].max /\ Len(g[2]) = g[1].max
  /\ \A i \in 1..g[1].length : g[2][i] \in W}

VecInv(t, W) == Sound(t, WithRaw(W), VecHeaders, VecOwn, VecFit(W), Objects)

(* The slots of the array of o.                                            *)
VecAt(t, o) == OwnSlots(t, VecOwn, o)

(* What a call on o may do to the vectors: o has n elements afterwards.    *)
VecDone(t, W, o, u, n) ==
  /\ VecInv(u, W) /\ u.alloc = t.alloc /\ u.hdr[o].length = n
  /\ \A x \in Objects \ {o} : Kept(t, u, VecOwn, x)

(* When the header of a vector and its array fit.                          *)
LEMMA VecFitIs ==
  ASSUME NEW W, NEW h \in VecHeaders, NEW q \in Seq(WithRaw(W))
  PROVE  <<h, q>> \in VecFit(W) <=>
           /\ h.length <= h.max /\ Len(q) = h.max
           /\ \A i \in 1..h.length : q[i] \in W
BY DEF VecFit

(* The fields of the header of a vector.                                   *)
LEMMA VecFields ==
  ASSUME NEW h \in VecHeaders
  PROVE  /\ h.ptr \in Blocks \cup {Null} /\ h.max \in Nat /\ h.length \in Nat
         /\ VecOwn[h] = h.ptr
<1>1. CASE h \in PlainHeaders
  BY <1>1 DEF PlainHeaders, VecOwn
<1>2. CASE h \in RingHeaders
  BY <1>2 DEF RingHeaders, VecOwn
<1> QED
  BY <1>1, <1>2 DEF VecHeaders

(* Assignments to fields of a header.                                      *)
LEMMA PutLength ==
  ASSUME NEW h \in VecHeaders, NEW n \in Nat, NEW g, g = [h EXCEPT !.length = n]
  PROVE  g \in VecHeaders /\ g.ptr = h.ptr /\ g.max = h.max /\ g.length = n
<1>1. CASE h \in PlainHeaders
  <2>1. g \in PlainHeaders /\ g.ptr = h.ptr /\ g.max = h.max /\ g.length = n
    BY <1>1 DEF PlainHeaders
  <2> QED
    BY <2>1 DEF VecHeaders
<1>2. CASE h \in RingHeaders
  <2>1. g \in RingHeaders /\ g.ptr = h.ptr /\ g.max = h.max /\ g.length = n
    BY <1>2 DEF RingHeaders
  <2> QED
    BY <2>1 DEF VecHeaders
<1> QED
  BY <1>1, <1>2 DEF VecHeaders

(* What the invariant says of the parts of the store.                      *)
LEMMA VecStore ==
  ASSUME NEW W, NEW t, VecInv(t, W)
  PROVE  /\ t \in HeapStores(WithRaw(W), VecHeaders)
         /\ t.mem \in [Blocks -> Seq(WithRaw(W))] /\ t.live \subseteq Blocks
         /\ t.hdr \in [Objects -> VecHeaders] /\ t.alloc \in [Objects -> Allocators]
BY StoreParts DEF VecInv, Sound

(* What it says of each vector.                                            *)
LEMMA VecParts ==
  ASSUME NEW W, NEW t, VecInv(t, W), NEW o \in Objects
  PROVE  /\ t.hdr[o].ptr \in t.live \cup {Null} /\ VecOwn[t.hdr[o]] = t.hdr[o].ptr
         /\ t.hdr[o].max \in Nat /\ t.hdr[o].length \in Nat
         /\ t.hdr[o].length <= t.hdr[o].max
         /\ VecAt(t, o) \in Seq(WithRaw(W)) /\ Len(VecAt(t, o)) = t.hdr[o].max
         /\ \A i \in 1..t.hdr[o].length : VecAt(t, o)[i] \in W
         /\ VecAt(t, o) = Vec!Slots(t, o)
         /\ t.hdr[o].ptr = Null => t.hdr[o].max = 0
         /\ t.hdr[o].ptr # Null => VecAt(t, o) = t.mem[t.hdr[o].ptr]
<1> DEFINE h == t.hdr[o]
           q == VecAt(t, o)
<1>1. h \in VecHeaders /\ <<h, q>> \in VecFit(W) /\ VecOwn[h] \in t.live \cup {Null}
  BY VecStore DEF VecInv, Sound, VecAt
<1>2. q = IF VecOwn[h] = Null THEN <<>> ELSE t.mem[VecOwn[h]]
  BY DEF VecAt, OwnSlots
<1>3. Vec!Slots(t, o) = IF h.ptr = Null THEN <<>> ELSE t.mem[h.ptr]
  BY DEF Vec!Slots
<1> HIDE DEF h, q
<1>4. h.ptr \in Blocks \cup {Null} /\ h.max \in Nat /\ h.length \in Nat /\ VecOwn[h] = h.ptr
  BY <1>1, VecFields
<1>5. q \in Seq(WithRaw(W))
  BY <1>1 DEF VecFit
<1>6. /\ h.length <= h.max /\ Len(q) = h.max
      /\ \A i \in 1..h.length : q[i] \in W
  BY <1>1, <1>5, VecFitIs
<1>7. h.ptr = Null => h.max = 0
  BY <1>2, <1>4, <1>6
<1> QED
  BY <1>1, <1>2, <1>3, <1>4, <1>5, <1>6, <1>7 DEF h, q

(* The facts of VecParts one by one.                                       *)
LEMMA VecPtr ==
  ASSUME NEW W, NEW t, VecInv(t, W), NEW o \in Objects
  PROVE  t.hdr[o].ptr \in t.live \cup {Null} /\ VecOwn[t.hdr[o]] = t.hdr[o].ptr
BY VecParts

(* A vector is no longer than its capacity,                                *)
LEMMA VecLength ==
  ASSUME NEW W, NEW t, VecInv(t, W), NEW o \in Objects
  PROVE  t.hdr[o].max \in Nat /\ t.hdr[o].length \in Nat /\ t.hdr[o].length <= t.hdr[o].max
BY VecParts

(* which is 0 when there is no array,                                      *)
LEMMA VecEmpty ==
  ASSUME NEW W, NEW t, VecInv(t, W), NEW o \in Objects
  PROVE  t.hdr[o].ptr = Null => t.hdr[o].max = 0
BY VecParts

(* and otherwise that of the array,                                        *)
LEMMA VecSlots ==
  ASSUME NEW W, NEW t, VecInv(t, W), NEW o \in Objects
  PROVE  VecAt(t, o) \in Seq(WithRaw(W)) /\ Len(VecAt(t, o)) = t.hdr[o].max
BY VecParts

(* whose slots up to the length hold elements.                             *)
LEMMA VecElements ==
  ASSUME NEW W, NEW t, VecInv(t, W), NEW o \in Objects
  PROVE  \A i \in 1..t.hdr[o].length : VecAt(t, o)[i] \in W
BY VecParts

(* These are the slots of the block the header leads to,                   *)
LEMMA VecMem ==
  ASSUME NEW W, NEW t, VecInv(t, W), NEW o \in Objects
  PROVE  t.hdr[o].ptr # Null => VecAt(t, o) = t.mem[t.hdr[o].ptr]
BY VecParts

(* which is what the code reads.                                           *)
LEMMA VecSlotsOf ==
  ASSUME NEW W, NEW t, VecInv(t, W), NEW o \in Objects
  PROVE  VecAt(t, o) = Vec!Slots(t, o)
BY VecParts

(* What two steps leave alone, both together leave alone.                  *)
LEMMA KeptOn ==
  ASSUME NEW t, NEW u, NEW w, NEW D, \A x \in D : Kept(t, u, VecOwn, x),
         \A x \in D : Kept(u, w, VecOwn, x)
  PROVE  \A x \in D : Kept(t, w, VecOwn, x)
BY DEF Kept

(* One call after the other                                                *)
LEMMA VecThen ==
  ASSUME NEW W, NEW t, NEW o \in Objects, NEW u, NEW n, VecDone(t, W, o, u, n),
         NEW w, NEW m, VecDone(u, W, o, w, m)
  PROVE  VecDone(t, W, o, w, m)
BY KeptOn DEF VecDone

(* What a call that is done leaves is a sound store.                       *)
LEMMA VecNow ==
  ASSUME NEW W, NEW t, VecInv(t, W), NEW o \in Objects
  PROVE  VecDone(t, W, o, t, t.hdr[o].length)
BY DEF VecDone, Kept

(* The length and the elements change, in the same array.                  *)
LEMMA VecWrite ==
  ASSUME NEW W, NEW t, VecInv(t, W), NEW o \in Objects,
         NEW u \in HeapStores(WithRaw(W), VecHeaders), u.live = t.live, u.alloc = t.alloc,
         u.hdr[o].ptr = t.hdr[o].ptr, u.hdr[o].max = t.hdr[o].max,
         NEW q \in Seq(WithRaw(W)), Len(q) = t.hdr[o].max,
         t.hdr[o].ptr # Null => u.mem[t.hdr[o].ptr] = q,
         NEW n \in Nat, u.hdr[o].length = n, n <= t.hdr[o].max, \A i \in 1..n : q[i] \in W,
         \A x \in Objects \ {o} : u.hdr[x] = t.hdr[x],
         \A d \in t.live \ {t.hdr[o].ptr} : u.mem[d] = t.mem[d]
  PROVE  VecDone(t, W, o, u, n) /\ VecAt(u, o) = q
<1>1. u.hdr \in [Objects -> VecHeaders]
  BY StoreParts
<1>2. u.hdr[o] \in VecHeaders /\ VecOwn[u.hdr[o]] = t.hdr[o].ptr
  BY <1>1, VecFields
<1>3. VecOwn[t.hdr[o]] = t.hdr[o].ptr
  BY VecPtr
<1>4. t.hdr[o].ptr = Null => q = <<>>
  BY VecEmpty
<1>5. OwnSlots(u, VecOwn, o) = q
  BY <1>2, <1>4 DEF OwnSlots
<1>6. <<u.hdr[o], OwnSlots(u, VecOwn, o)>> \in VecFit(W)
  BY <1>2, <1>5, VecFitIs
<1>7. /\ VecOwn[u.hdr[o]] = VecOwn[t.hdr[o]]
      /\ \A d \in t.live \ {VecOwn[t.hdr[o]]} : u.mem[d] = t.mem[d]
  BY <1>2, <1>3
<1>8. /\ Sound(u, WithRaw(W), VecHeaders, VecOwn, VecFit(W), Objects)
      /\ \A x \in Objects \ {o} : Kept(t, u, VecOwn, x)
  BY <1>6, <1>7, SoundWrite DEF VecInv
<1> QED
  BY <1>5, <1>8 DEF VecInv, VecDone, VecAt

(* Assignment to one slot.                                                 *)
LEMMA VecSlot ==
  ASSUME kind # "nested", NEW W, NEW t, VecInv(t, W), NEW o \in Objects,
         NEW i \in 1..t.hdr[o].max, NEW v \in W
  PROVE  LET u == Vec!MakeAr(t, o, i, v) IN
         /\ VecDone(t, W, o, u, t.hdr[o].length) /\ u.hdr = t.hdr /\ u.live = t.live
         /\ VecAt(u, o) = [VecAt(t, o) EXCEPT ![i] = v]
<1> DEFINE b == t.hdr[o].ptr
           s == VecAt(t, o)
           q == [s EXCEPT ![i] = v]
           u == Vec!MakeAr(t, o, i, v)
           n == t.hdr[o].length
<1>0. t \in HeapStores(WithRaw(W), VecHeaders) /\ t.live \subseteq Blocks
  BY VecStore
<1>1. /\ b # Null /\ b \in t.live /\ s = t.mem[b]
      /\ s \in Seq(WithRaw(W)) /\ Len(s) = t.hdr[o].max
      /\ n \in Nat /\ n <= t.hdr[o].max /\ \A j \in 1..n : s[j] \in W
  <2>1. /\ b \in t.live \cup {Null} /\ (b = Null => t.hdr[o].max = 0) /\ (b # Null => s = t.mem[b])
        /\ s \in Seq(WithRaw(W)) /\ Len(s) = t.hdr[o].max /\ t.hdr[o].max \in Nat
        /\ n \in Nat /\ n <= t.hdr[o].max /\ \A j \in 1..n : s[j] \in W
    BY VecPtr, VecEmpty, VecMem, VecSlots, VecLength, VecElements
  <2> HIDE DEF s, n
  <2> QED
    BY <2>1
<1>2. u = [t EXCEPT !.mem[b] = q]
  BY <1>1 DEF Vec!MakeAr, elements
<1> HIDE DEF u, s, b
<1>3. q \in Seq(WithRaw(W)) /\ Len(q) = t.hdr[o].max /\ \A j \in 1..n : q[j] \in W
  BY <1>1 DEF WithRaw
<1> HIDE DEF q
<1>4. b \in Blocks
  BY <1>0, <1>1
<1>5. /\ u \in HeapStores(WithRaw(W), VecHeaders) /\ u.mem[b] = q
      /\ \A d \in Blocks \ {b} : u.mem[d] = t.mem[d]
      /\ u.live = t.live /\ u.hdr = t.hdr /\ u.alloc = t.alloc
  <2>1. /\ u \in HeapStores(WithRaw(W), VecHeaders) /\ u.mem = [t.mem EXCEPT ![b] = q]
        /\ u.live = t.live /\ u.hdr = t.hdr /\ u.alloc = t.alloc
    BY <1>0, <1>2, <1>3, <1>4 DEF HeapStores
  <2>2. t.mem \in [Blocks -> Seq(WithRaw(W))]
    BY VecStore
  <2> QED
    BY <1>4, <2>1, <2>2
<1>6. \A d \in t.live \ {b} : u.mem[d] = t.mem[d]
  BY <1>0, <1>5
<1>7. VecDone(t, W, o, u, n) /\ VecAt(u, o) = q
  <2>1. /\ u.hdr[o].ptr = t.hdr[o].ptr /\ u.hdr[o].max = t.hdr[o].max /\ u.hdr[o].length = n
        /\ \A x \in Objects \ {o} : u.hdr[x] = t.hdr[x]
    BY <1>5
  <2>2. /\ t.hdr[o].ptr # Null => u.mem[t.hdr[o].ptr] = q
        /\ \A d \in t.live \ {t.hdr[o].ptr} : u.mem[d] = t.mem[d]
    BY <1>5, <1>6 DEF b
  <2> HIDE DEF n
  <2> QED
    BY <1>1, <1>3, <1>5, <2>1, <2>2, VecWrite
<1> QED
  BY <1>5, <1>7 DEF u, q, s

(* The first n slots in an array of m slots.                               *)
LEMMA VecPadded ==
  ASSUME NEW S, Raw \in S, NEW s \in Seq(S), NEW n \in Nat, n <= Len(s), NEW m \in Nat, n <= m
  PROVE  /\ Vec!Padded(SubSeq(s, 1, n), m, Raw) \in Seq(S)
         /\ Len(Vec!Padded(SubSeq(s, 1, n), m, Raw)) = m
         /\ \A i \in 1..n : Vec!Padded(SubSeq(s, 1, n), m, Raw)[i] = s[i]
<1> DEFINE r == SubSeq(s, 1, n)
           w == [i \in 1..(m - n) |-> Raw]
           q == Vec!Padded(r, m, Raw)
<1>1. r \in Seq(S) /\ Len(r) = n /\ \A i \in 1..n : r[i] = s[i]
  OBVIOUS
<1>2. q = IF m <= n THEN SubSeq(r, 1, m) ELSE r \o w
  BY <1>1 DEF Vec!Padded
<1> HIDE DEF r, q
<1>4. CASE m <= n
  BY <1>1, <1>2, <1>4 DEF q, r
<1>5. CASE ~(m <= n)
  <2>1. w \in Seq(S) /\ Len(w) = m - n
    BY <1>5
  <2> HIDE DEF w
  <2>2. r \o w \in Seq(S) /\ Len(r \o w) = n + Len(w)
    BY <1>1, <2>1
  <2>3. \A i \in 1..n : (r \o w)[i] = r[i]
    BY <1>1, <2>1
  <2>4. q \in Seq(S) /\ Len(q) = m /\ \A i \in 1..n : q[i] = s[i]
    BY <1>1, <1>2, <1>5, <2>1, <2>2, <2>3
  <2> QED
    BY <2>4 DEF q, r
<1> QED
  BY <1>4, <1>5

(* Assignment to the length: the slots behind it are nobody's.             *)
LEMMA VecSetLength ==
  ASSUME NEW W, NEW t, VecInv(t, W), NEW o \in Objects, NEW n \in Nat, n <= t.hdr[o].max,
         \A i \in 1..n : VecAt(t, o)[i] \in W
  PROVE  LET u == Vec!SetLength(t, o, n) IN
         /\ VecDone(t, W, o, u, n) /\ u.hdr[o].ptr = t.hdr[o].ptr
         /\ u.hdr[o].max = t.hdr[o].max /\ u.live = t.live
         /\ \A i \in 1..n : VecAt(u, o)[i] = VecAt(t, o)[i]
<1> DEFINE b == t.hdr[o].ptr
           s == VecAt(t, o)
           r == SubSeq(s, 1, n)
           q == Vec!Padded(r, Len(s), Raw)
           h == [t.hdr[o] EXCEPT !.length = n]
           w == [t EXCEPT !.hdr[o] = h]
           u == Vec!SetLength(t, o, n)
<1>0. t.hdr \in [Objects -> VecHeaders] /\ Null \notin Blocks
  BY VecStore, BuffersAssumption
<1>a. /\ t \in HeapStores(WithRaw(W), VecHeaders) /\ t.live \subseteq Blocks
      /\ b \in t.live \cup {Null} /\ s \in Seq(WithRaw(W)) /\ Len(s) = t.hdr[o].max
      /\ b # Null => s = t.mem[b]
  BY VecStore, VecPtr, VecSlots, VecMem
<1>1. /\ t \in HeapStores(WithRaw(W), VecHeaders) /\ b \in t.live \cup {Null}
      /\ t.live \subseteq Blocks /\ Null \notin Blocks /\ t.hdr[o] \in VecHeaders
      /\ s \in Seq(WithRaw(W)) /\ Len(s) = t.hdr[o].max
      /\ b # Null => s = t.mem[b]
  BY <1>0, <1>a
<1>2. w = [t EXCEPT !.hdr[o].length = n]
  OBVIOUS
<1>3. u = IF b = Null THEN w ELSE [w EXCEPT !.mem[b] = q]
  <2>1. CASE b = Null
    BY <1>2, <2>1 DEF Vec!SetLength
  <2>2. CASE b # Null
    <3>1. u = [w EXCEPT !.mem[b] = Vec!Padded(SubSeq(@, 1, n), Len(@), Raw)]
      BY <2>2 DEF Vec!SetLength
    <3>2. w.mem[b] = s
      BY <1>1, <2>2 DEF HeapStores
    <3> HIDE DEF u, w, s
    <3> QED
      BY <2>2, <3>1, <3>2
  <2> QED
    BY <2>1, <2>2
<1>4. h \in VecHeaders /\ h.ptr = b /\ h.max = t.hdr[o].max /\ h.length = n
  BY <1>1, PutLength
<1> HIDE DEF s
<1>6. /\ q \in Seq(WithRaw(W)) /\ Len(q) = Len(s) /\ \A i \in 1..n : q[i] \in W
      /\ \A i \in 1..n : q[i] = s[i]
  <2>1. Len(s) \in Nat /\ n <= Len(s)
    BY <1>1
  <2>2. q \in Seq(WithRaw(W)) /\ Len(q) = Len(s) /\ \A i \in 1..n : q[i] = s[i]
    <3>1. Raw \in WithRaw(W) /\ s \in Seq(WithRaw(W))
      BY <1>1 DEF WithRaw
    <3> QED
      BY <2>1, <3>1, VecPadded
  <2> QED
    BY <2>2 DEF s
<1> HIDE DEF q, h, w, u, b
<1>b. t.mem \in [Blocks -> Seq(WithRaw(W))]
  BY VecStore
<1>7. /\ w \in HeapStores(WithRaw(W), VecHeaders) /\ w.hdr[o] = h
      /\ \A x \in Objects \ {o} : w.hdr[x] = t.hdr[x]
      /\ w.live = t.live /\ w.mem = t.mem /\ w.alloc = t.alloc
  BY <1>1, <1>4, PutHeader DEF w
<1>8. /\ u \in HeapStores(WithRaw(W), VecHeaders) /\ (b # Null => u.mem[b] = q)
      /\ \A d \in t.live \ {b} : u.mem[d] = t.mem[d]
      /\ u.live = t.live /\ u.hdr = w.hdr /\ u.alloc = t.alloc
  <2>1. CASE b = Null
    BY <1>3, <1>7, <2>1
  <2>2. CASE b # Null
    <3>1. b \in Blocks /\ u = [w EXCEPT !.mem[b] = q]
      BY <1>1, <1>3, <2>2
    <3>2. /\ u \in HeapStores(WithRaw(W), VecHeaders) /\ u.mem[b] = q
          /\ \A d \in Blocks \ {b} : u.mem[d] = w.mem[d]
          /\ u.live = w.live /\ u.hdr = w.hdr /\ u.alloc = w.alloc
      <4>1. /\ u \in HeapStores(WithRaw(W), VecHeaders) /\ u.mem = [w.mem EXCEPT ![b] = q]
            /\ u.live = w.live /\ u.hdr = w.hdr /\ u.alloc = w.alloc
        BY <1>6, <1>7, <3>1 DEF HeapStores
      <4> QED
        BY <1>b, <1>7, <3>1, <4>1
    <3> QED
      BY <1>1, <1>7, <3>2
  <2> QED
    BY <2>1, <2>2
<1>9. VecDone(t, W, o, u, n) /\ VecAt(u, o) = q
  <2>1. u.hdr[o].ptr = t.hdr[o].ptr /\ u.hdr[o].max = t.hdr[o].max /\ u.hdr[o].length = n
    BY <1>4, <1>7, <1>8 DEF b
  <2>2. Len(q) = t.hdr[o].max /\ \A x \in Objects \ {o} : u.hdr[x] = t.hdr[x]
    BY <1>1, <1>6, <1>7, <1>8
  <2>3. /\ t.hdr[o].ptr # Null => u.mem[t.hdr[o].ptr] = q
        /\ \A d \in t.live \ {t.hdr[o].ptr} : u.mem[d] = t.mem[d]
    BY <1>8 DEF b
  <2> QED
    BY <1>6, <1>8, <2>1, <2>2, <2>3, VecWrite
<1> QED
  BY <1>4, <1>6, <1>7, <1>8, <1>9 DEF u, b, s

-----------------------------------------------------------------------------
(* An allocation returns a block that is not live.                         *)
LEMMA VecFreeBlock ==
  ASSUME NEW t, Blocks \ t.live # {}
  PROVE  Vec!FreeBlock(t) \in Blocks \ t.live
<1>1. Blocks \subseteq Nat
  BY BuffersAssumption
<1> QED
  BY <1>1, FreeIsFree DEF Vec!FreeBlock

(* A new array of m slots takes the place of the old one.                  *)
LEMMA VecMoveArray ==
  ASSUME NEW W, NEW t, VecInv(t, W), NEW o \in Objects, Blocks \ t.live # {},
         NEW m \in Nat, t.hdr[o].length <= m
  PROVE  LET u == Vec!MoveArray(t, o, m) IN
         /\ VecDone(t, W, o, u, t.hdr[o].length) /\ u.hdr[o].max = m
         /\ \A i \in 1..t.hdr[o].length : VecAt(u, o)[i] = VecAt(t, o)[i]
<1> DEFINE V == WithRaw(W)
           a == t.hdr[o].ptr
           n == t.hdr[o].length
           s == VecAt(t, o)
           b == Vec!FreeBlock(t)
           q == Vec!Padded(SubSeq(s, 1, n), m, Raw)
           x == Vec!Allocate(t, q)
           w == IF a = Null THEN x ELSE Vec!Release(x, a)
           h == [w.hdr[o] EXCEPT !.ptr = b, !.max = m]
           u == [w EXCEPT !.hdr[o] = h]
<1>0. /\ t \in HeapStores(V, VecHeaders) /\ t.live \subseteq Blocks /\ Null \notin Blocks
      /\ t.mem \in [Blocks -> Seq(V)] /\ t.hdr \in [Objects -> VecHeaders]
  BY VecStore, BuffersAssumption
<1>1. a \in t.live \cup {Null} /\ VecOwn[t.hdr[o]] = a
  BY VecPtr
<1>2. n \in Nat /\ n <= t.hdr[o].max /\ s \in Seq(V) /\ Len(s) = t.hdr[o].max
  BY VecLength, VecSlots
<1>3. \A i \in 1..n : s[i] \in W
  BY VecElements, SMTT(30)
<1>4. u = Vec!MoveArray(t, o, m)
  BY VecSlotsOf DEF Vec!MoveArray
<1>5. b \in Blocks \ t.live /\ b # a /\ b # Null
  BY <1>0, <1>1, VecFreeBlock
<1>6. Raw \in V
  BY DEF WithRaw
<1> HIDE DEF s, b, n, V
<1>7. q \in Seq(V) /\ Len(q) = m /\ \A i \in 1..n : q[i] = s[i]
  <2>1. n \in Nat /\ n <= Len(s) /\ n <= m /\ s \in Seq(V)
    BY <1>2 DEF n
  <2> QED
    BY <1>6, <2>1, VecPadded
<1> HIDE DEF q, a
<1>8. /\ x \in HeapStores(V, VecHeaders) /\ x.hdr = t.hdr /\ x.alloc = t.alloc
      /\ x.live = t.live \cup {b} /\ x.mem = [t.mem EXCEPT ![b] = q]
  BY <1>0, <1>5, <1>7 DEF Vec!Allocate, HeapStores, b
<1> HIDE DEF x
<1>9. /\ w \in HeapStores(V, VecHeaders) /\ w.hdr = t.hdr /\ w.alloc = t.alloc
      /\ w.live = x.live \ {a} /\ \A d \in x.live \ {a} : w.mem[d] = x.mem[d]
  <2>1. CASE a = Null
    BY <1>0, <1>5, <1>8, <2>1
  <2>2. CASE a # Null
    <3>1. w = [x EXCEPT !.live = @ \ {a}, !.mem[a] = <<>>]
      BY <2>2 DEF Vec!Release
    <3>2. a \in Blocks
      BY <1>0, <1>1, <2>2
    <3> HIDE DEF w
    <3>3. /\ w \in HeapStores(V, VecHeaders) /\ w.hdr = t.hdr /\ w.alloc = t.alloc
          /\ w.live = x.live \ {a} /\ w.mem = [x.mem EXCEPT ![a] = <<>>]
      BY <1>8, <3>1, <3>2, EmptyIsSeq DEF HeapStores
    <3>4. x.live \subseteq Blocks /\ x.mem \in [Blocks -> Seq(V)]
      BY <1>8, StoreParts
    <3> QED
      BY <3>3, <3>4
  <2> QED
    BY <2>1, <2>2
<1> HIDE DEF w
<1>10. h \in VecHeaders /\ h.ptr = b /\ h.max = m /\ h.length = n
  <2>1. b \in Blocks /\ w.hdr[o] \in VecHeaders /\ w.hdr[o].length = n
    BY <1>0, <1>5, <1>9 DEF n
  <2>2. CASE w.hdr[o] \in PlainHeaders
    <3>1. h \in PlainHeaders /\ h.ptr = b /\ h.max = m /\ h.length = w.hdr[o].length
      BY <2>1, <2>2 DEF PlainHeaders
    <3> HIDE DEF h
    <3> QED
      BY <2>1, <3>1 DEF VecHeaders
  <2>3. CASE w.hdr[o] \in RingHeaders
    <3>1. h \in RingHeaders /\ h.ptr = b /\ h.max = m /\ h.length = w.hdr[o].length
      BY <2>1, <2>3 DEF RingHeaders
    <3> HIDE DEF h
    <3> QED
      BY <2>1, <3>1 DEF VecHeaders
  <2> QED
    BY <2>1, <2>2, <2>3 DEF VecHeaders
<1> HIDE DEF h
<1>11. /\ u \in HeapStores(V, VecHeaders) /\ u.hdr = [w.hdr EXCEPT ![o] = h]
       /\ u.live = w.live /\ u.mem = w.mem /\ u.alloc = w.alloc
  BY <1>9, <1>10 DEF HeapStores
<1> HIDE DEF u
<1>12. u.hdr[o] = h /\ \A y \in Objects \ {o} : u.hdr[y] = t.hdr[y]
  BY <1>0, <1>9, <1>11
<1>13. VecOwn[u.hdr[o]] = b
  BY <1>10, <1>12, VecFields
<1>14. u.mem[b] = q /\ \A d \in t.live \ {a} : u.mem[d] = t.mem[d]
  BY <1>0, <1>5, <1>8, <1>9, <1>11
<1>15. OwnSlots(u, VecOwn, o) = q
  BY <1>5, <1>13, <1>14 DEF OwnSlots
<1>16. <<u.hdr[o], OwnSlots(u, VecOwn, o)>> \in VecFit(W)
  <2>1. h.length <= h.max /\ Len(q) = h.max
    BY <1>7, <1>10 DEF n
  <2>2. \A i \in 1..h.length : q[i] \in W
    BY <1>3, <1>7, <1>10
  <2>3. <<h, q>> \in VecFit(W)
    BY <1>7, <1>10, <2>1, <2>2, VecFitIs DEF V
  <2> QED
    BY <1>12, <1>15, <2>3
<1>17. /\ u.live = (t.live \cup {VecOwn[u.hdr[o]]}) \ {VecOwn[t.hdr[o]]}
       /\ VecOwn[u.hdr[o]] \in Blocks \ t.live
       /\ \A d \in t.live \ {VecOwn[t.hdr[o]]} : u.mem[d] = t.mem[d]
  BY <1>1, <1>5, <1>8, <1>9, <1>11, <1>13, <1>14
<1>18. /\ Sound(u, WithRaw(W), VecHeaders, VecOwn, VecFit(W), Objects)
       /\ \A y \in Objects \ {o} : Kept(t, u, VecOwn, y)
  <2>1. u \in HeapStores(WithRaw(W), VecHeaders)
    BY <1>11 DEF V
  <2> QED
    BY <1>12, <1>16, <1>17, <2>1, SoundReplace DEF VecInv
<1>19. VecDone(t, W, o, u, n) /\ u.hdr[o].max = m /\ \A i \in 1..n : VecAt(u, o)[i] = s[i]
  BY <1>7, <1>9, <1>10, <1>11, <1>12, <1>15, <1>18 DEF VecDone, VecInv, VecAt
<1> QED
  BY <1>4, <1>19 DEF n, s

(* grow_vector, with room for what the new slots receive.                  *)
LEMMA VecGrow ==
  ASSUME kind # "nested", NEW W, NEW t, VecInv(t, W), NEW o \in Objects, Blocks \ t.live # {},
         NEW m \in Nat, NEW fill \in Seq(W),
         m >= t.hdr[o].max => t.hdr[o].length + Len(fill) <= m
  PROVE  LET u == Vec!GrowVector(t, o, m, fill) IN
         /\ VecDone(t, W, o, u, t.hdr[o].length)
         /\ u.hdr[o].max = IF m < t.hdr[o].max THEN t.hdr[o].max ELSE m
         /\ m >= t.hdr[o].max =>
              /\ \A i \in 1..(t.hdr[o].length + Len(fill)) : VecAt(u, o)[i] \in W
              /\ \A i \in 1..Len(fill) : VecAt(u, o)[t.hdr[o].length + i] = fill[i]
<1> DEFINE n == t.hdr[o].length
           u == Vec!GrowVector(t, o, m, fill)
<1>0. n \in Nat /\ t.hdr[o].max \in Nat /\ n <= t.hdr[o].max /\ Len(fill) \in Nat
  BY VecLength
<1>1. CASE m < t.hdr[o].max
  <2>1. u = t
    BY <1>1 DEF Vec!GrowVector
  <2>2. VecDone(t, W, o, t, n)
    BY VecNow
  <2> QED
    BY <1>0, <1>1, <2>1, <2>2
<1>2. CASE ~(m < t.hdr[o].max)
  <2> DEFINE k == Len(fill)
             a == Vec!MoveArray(t, o, m)
             HS == HeapStores(WithRaw(W), VecHeaders)
             T == [i \in 0..k |-> {z \in HS :
                     /\ VecDone(t, W, o, z, n) /\ z.hdr[o].max = m
                     /\ \A j \in 1..(n + i) : VecAt(z, o)[j] \in W
                     /\ \A j \in 1..i : VecAt(z, o)[n + j] = fill[j]}]
             step == [i \in 1..k |-> [z \in HS |-> Vec!MakeAr(z, o, n + i, fill[i])]]
  <2>0. n + k <= m /\ k \in Nat
    BY <1>0, <1>2
  <2>1. a \in T[0]
    <3>1. n <= m
      BY <1>0, <2>0
    <3>2. /\ VecDone(t, W, o, a, n) /\ a.hdr[o].max = m
          /\ \A i \in 1..n : VecAt(a, o)[i] = VecAt(t, o)[i]
      BY <3>1, VecMoveArray
    <3>3. \A i \in 1..n : VecAt(t, o)[i] \in W
      BY VecElements
    <3> HIDE DEF a, n
    <3>4. a \in HS
      BY <3>2, VecStore DEF VecDone
    <3> QED
      BY <1>0, <2>0, <3>2, <3>3, <3>4
  <2>2. ASSUME NEW i \in 1..k, NEW z \in T[i - 1]
        PROVE  z \in HS /\ Vec!MakeAr(z, o, n + i, fill[i]) \in T[i]
    <3> DEFINE y == Vec!MakeAr(z, o, n + i, fill[i])
               v == fill[i]
    <3>1. i - 1 \in 0..k /\ i \in 0..k /\ n + i \in 1..m /\ v \in W
      BY <1>0, <2>0
    <3>2. /\ z \in HS /\ VecDone(t, W, o, z, n) /\ z.hdr[o].max = m
          /\ \A j \in 1..(n + (i - 1)) : VecAt(z, o)[j] \in W
          /\ \A j \in 1..(i - 1) : VecAt(z, o)[n + j] = fill[j]
      BY <3>1
    <3>3. VecInv(z, W) /\ z.hdr[o].length = n
      BY <3>2 DEF VecDone
    <3> HIDE DEF T, HS, n, v
    <3>4. /\ VecDone(z, W, o, y, n) /\ y.hdr = z.hdr
          /\ VecAt(y, o) = [VecAt(z, o) EXCEPT ![n + i] = v]
      BY <3>1, <3>2, <3>3, VecSlot DEF v
    <3>5. VecAt(z, o) \in Seq(WithRaw(W)) /\ Len(VecAt(z, o)) = m
      BY <3>2, <3>3, VecSlots
    <3>6. \A j \in 1..(n + i) : VecAt(y, o)[j] \in W
      <4> DEFINE s == VecAt(z, o)
      <4> HIDE DEF s
      <4> SUFFICES ASSUME NEW j \in 1..(n + i) PROVE [s EXCEPT ![n + i] = v][j] \in W
        BY <3>4 DEF s
      <4>1. j \in 1..Len(s) /\ s \in [1..Len(s) -> WithRaw(W)]
        BY <1>0, <3>1, <3>5 DEF s, n
      <4>2. CASE j = n + i
        BY <3>1, <4>1, <4>2
      <4>3. CASE j # n + i
        <5>1. j \in 1..(n + (i - 1))
          BY <1>0, <4>3, SMTT(30) DEF n
        <5> QED
          BY <3>2, <4>1, <4>3, <5>1 DEF s
      <4> QED
        BY <4>2, <4>3
    <3>a. \A j \in 1..i : VecAt(y, o)[n + j] = fill[j]
      <4> DEFINE s == VecAt(z, o)
      <4> HIDE DEF s
      <4> SUFFICES ASSUME NEW j \in 1..i PROVE [s EXCEPT ![n + i] = v][n + j] = fill[j]
        BY <3>4 DEF s
      <4>1. n + j \in 1..Len(s) /\ s \in [1..Len(s) -> WithRaw(W)]
        <5>1. n \in Nat /\ i \in Nat /\ j \in Nat /\ 1 <= j /\ j <= i /\ n + i <= m
          BY <1>0, <2>0, <3>1 DEF n
        <5>2. n + j \in 1..m
          BY <5>1
        <5> QED
          BY <3>5, <5>2 DEF s
      <4>2. CASE j = i
        BY <4>1, <4>2 DEF v
      <4>3. CASE j # i
        <5>1. j \in 1..(i - 1) /\ n + j # n + i
          BY <1>0, <4>3 DEF n
        <5> QED
          BY <3>2, <4>1, <5>1 DEF s
      <4> QED
        BY <4>2, <4>3
    <3>7. VecDone(t, W, o, y, n) /\ y.hdr[o].max = m
      BY <3>2, <3>4, VecThen
    <3> HIDE DEF y
    <3>8. y \in HS
      BY <3>7, VecStore DEF VecDone, HS
    <3>9. y \in T[i]
      BY <3>1, <3>6, <3>7, <3>8, <3>a DEF T
    <3> QED
      BY <3>2, <3>9 DEF y
  <2> HIDE DEF T, HS, a, n
  <2>3. \A i \in 1..k : \A z \in T[i - 1] : step[i][z] \in T[i]
    BY <2>2
  <2> HIDE DEF step
  <2>b. \A i \in 0..k : T[i] \subseteq HS
    BY DEF T
  <2>4. PICK f \in [0..k -> HS] :
          f[0] = a /\ \A i \in 1..k : f[i - 1] \in T[i - 1] /\ f[i] = step[i][f[i - 1]]
    <3>1. Loop(k, HS, T, step, a)
      BY <2>0, <2>1, <2>3, <2>b DEF Loop
    <3> QED
      BY <3>1, LoopExists
  <2>5. f = [i \in 0..k |-> IF i = 0 THEN a ELSE Vec!MakeAr(f[i - 1], o, n + i, fill[i])]
    <3>1. ASSUME NEW i \in 1..k PROVE f[i] = Vec!MakeAr(f[i - 1], o, n + i, fill[i])
      BY <2>2, <2>4 DEF step
    <3>2. \A i \in 0..k : f[i] = IF i = 0 THEN a ELSE Vec!MakeAr(f[i - 1], o, n + i, fill[i])
      BY <2>4, <3>1
    <3> QED
      BY <2>4, <3>2
  <2> DEFINE made[i \in 0..k] == IF i = 0 THEN a ELSE Vec!MakeAr(made[i - 1], o, n + i, fill[i])
  <2>6. u = made[k]
    BY <1>2 DEF Vec!GrowVector, a, n
  <2>7. made = [i \in 0..k |-> IF i = 0 THEN a ELSE Vec!MakeAr(made[i - 1], o, n + i, fill[i])]
    <3>1. made = CHOOSE g : g = [i \in 0..k |->
                   IF i = 0 THEN a ELSE Vec!MakeAr(g[i - 1], o, n + i, fill[i])]
      BY DEF made
    <3> HIDE DEF made
    <3> QED
      BY <2>5, <3>1
  <2> HIDE DEF made, u
  <2>8. \A i \in 0..k : made[i] \in T[i]
    <3> DEFINE R == {i \in 0..k : made[i] \in T[i]}
    <3>1. 0 \in R
      BY <2>0, <2>1, <2>7
    <3>2. ASSUME NEW i \in 0..(k - 1), i \in R PROVE i + 1 \in R
      <4>1. i + 1 \in 1..k /\ i + 1 \in 0..k /\ (i + 1) - 1 = i /\ i + 1 # 0
        BY <2>0
      <4>2. made[i + 1] = Vec!MakeAr(made[i], o, n + (i + 1), fill[i + 1])
        BY <2>7, <4>1
      <4>3. Vec!MakeAr(made[i], o, n + (i + 1), fill[i + 1]) \in T[i + 1]
        BY <2>2, <3>2, <4>1
      <4> QED
        BY <4>1, <4>2, <4>3
    <3> HIDE DEF R
    <3>3. \A i \in 0..k : i \in R
      BY <2>0, <3>1, <3>2, IntervalInduction
    <3> QED
      BY <3>3 DEF R
  <2>9. u \in T[k] /\ k \in 0..k
    BY <2>0, <2>6, <2>8
  <2> QED
    BY <1>2, <2>9 DEF T, u, n
<1> QED
  BY <1>1, <1>2
(* The capacity afterwards.                                                *)
LEMMA VecGrown ==
  ASSUME kind # "nested", NEW W, NEW t, VecInv(t, W), NEW o \in Objects, Blocks \ t.live # {},
         NEW m \in Nat, NEW fill \in Seq(W), m >= t.hdr[o].max,
         t.hdr[o].length + Len(fill) <= m
  PROVE  Vec!GrowVector(t, o, m, fill).hdr[o].max = m
<1>1. t.hdr[o].max \in Nat /\ ~(m < t.hdr[o].max)
  BY VecLength
<1>2. Vec!GrowVector(t, o, m, fill).hdr[o].max = IF m < t.hdr[o].max THEN t.hdr[o].max ELSE m
  BY VecGrow
<1> QED
  BY <1>1, <1>2

-----------------------------------------------------------------------------
(* reserve() keeps the elements.                                           *)
LEMMA VecReserve ==
  ASSUME kind # "nested", NEW W, NEW t, VecInv(t, W), NEW o \in Objects, Blocks \ t.live # {},
         NEW n \in Nat
  PROVE  LET u == Vec!Reserve(t, o, n) IN
         VecDone(t, W, o, u, t.hdr[o].length) /\ n <= u.hdr[o].max
<1>0. /\ t.hdr[o].max \in Nat /\ t.hdr[o].length \in Nat /\ t.hdr[o].length <= t.hdr[o].max
      /\ VecDone(t, W, o, t, t.hdr[o].length)
  BY VecLength, VecNow
<1>1. CASE n = 0
  BY <1>0, <1>1 DEF Vec!Reserve
<1>2. CASE n # 0
  <2> DEFINE fill == <<>>
             u == Vec!GrowVector(t, o, n, fill)
  <2>1. fill \in Seq(W) /\ Len(fill) = 0
    OBVIOUS
  <2>2. Vec!Reserve(t, o, n) = u
    BY <1>2 DEF Vec!Reserve
  <2> HIDE DEF fill
  <2>3. n >= t.hdr[o].max => t.hdr[o].length + Len(fill) <= n
    BY <1>0, <2>1
  <2>4. VecDone(t, W, o, u, t.hdr[o].length)
    BY <2>1, <2>3, VecGrow
  <2>5. n <= u.hdr[o].max
    <3>1. CASE n < t.hdr[o].max
      <4>1. u = t
        BY <3>1 DEF Vec!GrowVector
      <4> QED
        BY <1>0, <3>1, <4>1
    <3>2. CASE ~(n < t.hdr[o].max)
      <4>1. n >= t.hdr[o].max /\ t.hdr[o].length + Len(fill) <= n
        BY <1>0, <2>3, <3>2
      <4>2. u.hdr[o].max = n
        BY <2>1, <4>1, VecGrown
      <4> QED
        BY <4>2
    <3> QED
      BY <3>1, <3>2
  <2> QED
    BY <2>2, <2>4, <2>5
<1> QED
  BY <1>1, <1>2

(* Room for one more element is made without changing the others.          *)
LEMMA VecMakeRoom ==
  ASSUME kind # "nested", NEW W, NEW t, VecInv(t, W), NEW o \in Objects,
         t.hdr[o].length = t.hdr[o].max => Blocks \ t.live # {}
  PROVE  LET u == Vec!MakeRoom(t, o) IN
         /\ VecDone(t, W, o, u, t.hdr[o].length) /\ t.hdr[o].length < u.hdr[o].max
         /\ t.hdr[o].max <= u.hdr[o].max
<1> DEFINE m == t.hdr[o].max
           g == Vec!Growth(m)
           u == Vec!GrowVector(t, o, g, <<>>)
<1>0. /\ m \in Nat /\ t.hdr[o].length \in Nat /\ t.hdr[o].length <= m
      /\ VecDone(t, W, o, t, t.hdr[o].length)
  BY VecLength, VecNow
<1>1. CASE t.hdr[o].length = m
  <2>1. g \in Nat /\ g > m
    <3>1. GrowthStep \in Nat \ {0} /\ (5 * m) \div 4 \in Nat
      BY <1>0, BuffersAssumption
    <3> QED
      BY <1>0, <3>1 DEF Vec!Growth
  <2>2. Vec!MakeRoom(t, o) = u
    BY <1>1 DEF Vec!MakeRoom
  <2> DEFINE fill == <<>>
  <2>3. fill \in Seq(W) /\ Len(fill) = 0
    OBVIOUS
  <2> HIDE DEF fill, g
  <2>4. g >= m => t.hdr[o].length + Len(fill) <= g
    BY <1>0, <2>1, <2>3
  <2> DEFINE w == Vec!GrowVector(t, o, g, fill)
  <2>5. VecDone(t, W, o, w, t.hdr[o].length) /\ w.hdr[o].max = IF g < m THEN m ELSE g
    <3>1. g \in Nat /\ Blocks \ t.live # {} /\ fill \in Seq(W)
      BY <1>1, <2>1, <2>3
    <3>2. VecDone(t, W, o, w, t.hdr[o].length)
      BY <2>4, <3>1, VecGrow
    <3>3. w.hdr[o].max = IF g < t.hdr[o].max THEN t.hdr[o].max ELSE g
      BY <2>4, <3>1, VecGrow
    <3> QED
      BY <3>2, <3>3
  <2>6. w.hdr[o].max = g
    BY <1>0, <2>1, <2>5
  <2>7. u = w
    BY DEF fill
  <2> HIDE DEF u, w
  <2> QED
    BY <1>0, <1>1, <2>1, <2>2, <2>5, <2>6, <2>7
<1>2. CASE t.hdr[o].length # m
  <2>1. Vec!MakeRoom(t, o) = t
    BY <1>2 DEF Vec!MakeRoom
  <2> QED
    BY <1>0, <1>2, <2>1
<1> QED
  BY <1>1, <1>2

(* The length is set to count an element that was made behind the others.  *)
LEMMA VecCount ==
  ASSUME NEW W, NEW t, VecInv(t, W), NEW o \in Objects, NEW n \in Nat, n <= t.hdr[o].max,
         \A i \in 1..n : VecAt(t, o)[i] \in W, NEW u, u = [t EXCEPT !.hdr[o].length = n]
  PROVE  /\ VecDone(t, W, o, u, n) /\ u.hdr[o].ptr = t.hdr[o].ptr
         /\ u.hdr[o].max = t.hdr[o].max /\ u.live = t.live /\ VecAt(u, o) = VecAt(t, o)
<1> DEFINE h == [t.hdr[o] EXCEPT !.length = n]
           q == VecAt(t, o)
<1>0. t \in HeapStores(WithRaw(W), VecHeaders) /\ t.hdr[o] \in VecHeaders
  BY VecStore
<1>1. u = [t EXCEPT !.hdr[o] = h]
  OBVIOUS
<1>2. h \in VecHeaders /\ h.ptr = t.hdr[o].ptr /\ h.max = t.hdr[o].max /\ h.length = n
  BY <1>0, PutLength
<1> HIDE DEF h, q
<1>3. /\ u \in HeapStores(WithRaw(W), VecHeaders) /\ u.hdr[o] = h
      /\ \A x \in Objects \ {o} : u.hdr[x] = t.hdr[x]
      /\ u.live = t.live /\ u.mem = t.mem /\ u.alloc = t.alloc
  <2> DEFINE w == [t EXCEPT !.hdr[o] = h]
  <2>3. /\ w \in HeapStores(WithRaw(W), VecHeaders) /\ w.hdr = [t.hdr EXCEPT ![o] = h]
        /\ w.live = t.live /\ w.mem = t.mem /\ w.alloc = t.alloc
    BY <1>0, <1>2 DEF HeapStores
  <2>4. u = w
    BY <1>1
  <2> HIDE DEF w
  <2>1. /\ u \in HeapStores(WithRaw(W), VecHeaders) /\ u.hdr = [t.hdr EXCEPT ![o] = h]
        /\ u.live = t.live /\ u.mem = t.mem /\ u.alloc = t.alloc
    BY <2>3, <2>4
  <2>2. t.hdr \in [Objects -> VecHeaders]
    BY VecStore
  <2> QED
    BY <2>1, <2>2
<1>4. /\ q \in Seq(WithRaw(W)) /\ Len(q) = t.hdr[o].max
      /\ t.hdr[o].ptr # Null => u.mem[t.hdr[o].ptr] = q
  BY <1>3, VecSlots, VecMem DEF q
<1>5. /\ u.hdr[o].ptr = t.hdr[o].ptr /\ u.hdr[o].max = t.hdr[o].max /\ u.hdr[o].length = n
      /\ \A d \in t.live \ {t.hdr[o].ptr} : u.mem[d] = t.mem[d]
      /\ \A i \in 1..n : q[i] \in W
  BY <1>2, <1>3 DEF q
<1>6. VecDone(t, W, o, u, n)
  BY <1>3, <1>4, <1>5, VecWrite
<1>7. VecAt(u, o) = q
  <2>1. VecOwn[u.hdr[o]] = VecOwn[t.hdr[o]]
    BY <1>0, <1>2, <1>3, VecFields
  <2> QED
    BY <1>3, <2>1 DEF VecAt, OwnSlots, q
<1> QED
  BY <1>3, <1>5, <1>6, <1>7 DEF q

(* emplace_back; a full vector needs a free block.                         *)
LEMMA VecEmplaceBack ==
  ASSUME kind # "nested", NEW W, NEW t, VecInv(t, W), NEW o \in Objects, NEW v \in W,
         t.hdr[o].length = t.hdr[o].max => Blocks \ t.live # {}
  PROVE  LET u == Vec!EmplaceBack(t, o, v) IN
         VecDone(t, W, o, u, t.hdr[o].length + 1) /\ t.hdr[o].max <= u.hdr[o].max
<1> DEFINE n == t.hdr[o].length
           w == Vec!MakeRoom(t, o)
           x == Vec!MakeAr(w, o, n + 1, v)
           u == [x EXCEPT !.hdr[o].length = n + 1]
<1>0. n \in Nat /\ t.hdr[o].max \in Nat
  BY VecLength
<1>1. VecDone(t, W, o, w, n) /\ n < w.hdr[o].max /\ t.hdr[o].max <= w.hdr[o].max
  BY VecMakeRoom
<1>2. VecInv(w, W) /\ w.hdr[o].length = n
  BY <1>1 DEF VecDone
<1>3. w.hdr[o].max \in Nat /\ VecAt(w, o) \in Seq(WithRaw(W)) /\ Len(VecAt(w, o)) = w.hdr[o].max
      /\ \A i \in 1..n : VecAt(w, o)[i] \in W
  BY <1>2, VecLength, VecSlots, VecElements
<1>4. u = Vec!EmplaceBack(t, o, v)
  BY DEF Vec!EmplaceBack
<1> HIDE DEF w, n
<1>5. n + 1 \in 1..w.hdr[o].max
  BY <1>0, <1>1, <1>3 DEF n
<1>6. /\ VecDone(w, W, o, x, n) /\ x.hdr = w.hdr
      /\ VecAt(x, o) = [VecAt(w, o) EXCEPT ![n + 1] = v]
  BY <1>2, <1>5, VecSlot
<1> HIDE DEF x
<1>7. VecInv(x, W) /\ n + 1 \in Nat /\ n + 1 <= x.hdr[o].max /\ \A i \in 1..(n + 1) : VecAt(x, o)[i] \in W
  <2>1. VecInv(x, W) /\ n + 1 \in Nat /\ n + 1 <= x.hdr[o].max
    BY <1>0, <1>5, <1>6, <1>3 DEF VecDone, n
  <2> DEFINE s == VecAt(w, o)
  <2> HIDE DEF s
  <2>2. ASSUME NEW i \in 1..(n + 1) PROVE [s EXCEPT ![n + 1] = v][i] \in W
    <3>1. s \in Seq(WithRaw(W)) /\ i \in 1..Len(s)
      BY <1>0, <1>3, <1>5 DEF s, n
    <3>2. i # n + 1 => s[i] \in W
      BY <1>0, <1>3 DEF s, n
    <3> QED
      BY <3>1, <3>2
  <2>3. \A i \in 1..(n + 1) : VecAt(x, o)[i] \in W
    BY <1>6, <2>2 DEF s
  <2> QED
    BY <2>1, <2>3
<1>8. VecDone(x, W, o, u, n + 1) /\ u.hdr[o].max = x.hdr[o].max
  BY <1>7, VecCount
<1> HIDE DEF u
<1>9. VecDone(t, W, o, u, n + 1)
  <2>1. VecDone(t, W, o, x, n)
    BY <1>1, <1>6, VecThen
  <2> QED
    BY <1>8, <2>1, VecThen
<1> QED
  BY <1>1, <1>4, <1>6, <1>8, <1>9 DEF n

(* emplace_back with room for the element.                                 *)
LEMMA VecPushBack ==
  ASSUME kind # "nested", NEW W, NEW t, VecInv(t, W), NEW o \in Objects, NEW v \in W,
         t.hdr[o].length < t.hdr[o].max
  PROVE  LET u == Vec!EmplaceBack(t, o, v) IN
         /\ VecDone(t, W, o, u, t.hdr[o].length + 1) /\ u.hdr[o].max = t.hdr[o].max
         /\ u.live = t.live
         /\ VecAt(u, o) = [VecAt(t, o) EXCEPT ![t.hdr[o].length + 1] = v]
<1> DEFINE n == t.hdr[o].length
           s == VecAt(t, o)
           x == Vec!MakeAr(t, o, n + 1, v)
           u == [x EXCEPT !.hdr[o].length = n + 1]
<1>0. n \in Nat /\ t.hdr[o].max \in Nat /\ n < t.hdr[o].max
  BY VecLength
<1>1. s \in Seq(WithRaw(W)) /\ Len(s) = t.hdr[o].max /\ \A i \in 1..n : s[i] \in W
  BY VecSlots, VecElements
<1>2. Vec!MakeRoom(t, o) = t
  BY <1>0 DEF Vec!MakeRoom
<1>3. u = Vec!EmplaceBack(t, o, v)
  BY <1>2 DEF Vec!EmplaceBack
<1>4. n + 1 \in 1..t.hdr[o].max
  BY <1>0
<1> HIDE DEF n
<1>5. /\ VecDone(t, W, o, x, n) /\ x.hdr = t.hdr /\ x.live = t.live
      /\ VecAt(x, o) = [s EXCEPT ![n + 1] = v]
  BY <1>4, VecSlot DEF n
<1> HIDE DEF x, s
<1>6. VecInv(x, W) /\ n + 1 \in Nat /\ n + 1 <= x.hdr[o].max
  BY <1>0, <1>5 DEF VecDone
<1>7. \A i \in 1..(n + 1) : VecAt(x, o)[i] \in W
  <2>2. ASSUME NEW i \in 1..(n + 1) PROVE [s EXCEPT ![n + 1] = v][i] \in W
    <3>1. s \in Seq(WithRaw(W)) /\ i \in 1..Len(s)
      BY <1>0, <1>1
    <3>2. i # n + 1 => s[i] \in W
      BY <1>0, <1>1
    <3> QED
      BY <3>1, <3>2
  <2> QED
    BY <1>5, <2>2
<1> HIDE DEF u
<1>8. u = [x EXCEPT !.hdr[o].length = n + 1]
  BY DEF u
<1>9. /\ VecDone(x, W, o, u, n + 1) /\ u.hdr[o].max = x.hdr[o].max /\ u.live = x.live
      /\ VecAt(u, o) = VecAt(x, o)
  BY <1>6, <1>7, <1>8, VecCount
<1>10. VecDone(t, W, o, u, n + 1)
  BY <1>5, <1>9, VecThen
<1> QED
  BY <1>3, <1>5, <1>9, <1>10 DEF n, s

(* The elements from position i on move by one slot.                       *)
LEMMA ShiftedRight ==
  ASSUME NEW S, NEW W, NEW q \in Seq(S), NEW n \in Nat, n < Len(q), NEW i \in 1..n,
         \A j \in 1..n : q[j] \in W
  PROVE  LET r == SubSeq(q, 1, i) \o SubSeq(q, i, n) \o SubSeq(q, n + 2, Len(q)) IN
         r \in Seq(S) /\ Len(r) = Len(q) /\ \A j \in 1..(n + 1) : r[j] \in W
<1> DEFINE a == SubSeq(q, 1, i)
           b == SubSeq(q, i, n)
           c == SubSeq(q, n + 2, Len(q))
<1>1. a \in Seq(S) /\ Len(a) = i /\ \A j \in 1..i : a[j] \in W
  OBVIOUS
<1>2. b \in Seq(S) /\ Len(b) = n - i + 1 /\ \A j \in 1..(n - i + 1) : b[j] \in W
  <2>1. b \in Seq(S) /\ Len(b) = n - i + 1 /\ \A j \in 1..(n - i + 1) : b[j] = q[i + j - 1]
    OBVIOUS
  <2> HIDE DEF b
  <2>2. \A j \in 1..(n - i + 1) : i + j - 1 \in 1..n
    OBVIOUS
  <2> QED
    BY <2>1, <2>2
<1>3. c \in Seq(S) /\ Len(c) = Len(q) - n - 1
  OBVIOUS
<1> HIDE DEF a, b, c
<1>4. a \o b \in Seq(S) /\ Len(a \o b) = n + 1 /\ \A j \in 1..(n + 1) : (a \o b)[j] \in W
  <2>1. a \o b \in Seq(S) /\ Len(a \o b) = n + 1
    BY <1>1, <1>2
  <2>2. \A j \in 1..(n + 1) : (a \o b)[j] = IF j <= i THEN a[j] ELSE b[j - i]
    BY <1>1, <1>2
  <2>3. \A j \in 1..(n + 1) : j <= i \/ j - i \in 1..(n - i + 1)
    OBVIOUS
  <2> QED
    BY <1>1, <1>2, <2>1, <2>2, <2>3
<1> DEFINE d == a \o b
<1> HIDE DEF d
<1>5. d \in Seq(S) /\ Len(d) = n + 1 /\ \A j \in 1..(n + 1) : d[j] \in W
  BY <1>4 DEF d
<1>6. d \o c \in Seq(S) /\ Len(d \o c) = Len(q)
  BY <1>3, <1>5
<1>7. \A j \in 1..(n + 1) : (d \o c)[j] = d[j]
  BY <1>3, <1>5
<1>8. d \o c \in Seq(S) /\ Len(d \o c) = Len(q) /\ \A j \in 1..(n + 1) : (d \o c)[j] \in W
  BY <1>5, <1>6, <1>7
<1> QED
  BY <1>8 DEF d, a, b, c

(* The slots from i to before i + k are removed, the rest moves up.        *)
LEMMA ShiftedLeft ==
  ASSUME NEW S, NEW W, NEW q \in Seq(S), NEW n \in Nat, n <= Len(q), NEW i \in 1..n,
         NEW k \in 1..n, i + k <= n + 1, \A j \in 1..n : q[j] \in W
  PROVE  LET r == SubSeq(q, 1, i - 1) \o SubSeq(q, i + k, n) \o SubSeq(q, n - k + 1, Len(q)) IN
         r \in Seq(S) /\ Len(r) = Len(q) /\ \A j \in 1..n : r[j] \in W
<1> DEFINE a == SubSeq(q, 1, i - 1)
           b == SubSeq(q, i + k, n)
           c == SubSeq(q, n - k + 1, Len(q))
<1>1. a \in Seq(S) /\ Len(a) = i - 1 /\ \A j \in 1..(i - 1) : a[j] \in W
  OBVIOUS
<1>2. b \in Seq(S) /\ Len(b) = n - k - i + 1 /\ \A j \in 1..(n - k - i + 1) : b[j] \in W
  <2>1. /\ b \in Seq(S) /\ Len(b) = n - k - i + 1
        /\ \A j \in 1..(n - k - i + 1) : b[j] = q[i + k + j - 1]
    OBVIOUS
  <2> HIDE DEF b
  <2>2. \A j \in 1..(n - k - i + 1) : i + k + j - 1 \in 1..n
    OBVIOUS
  <2> QED
    BY <2>1, <2>2
<1>3. c \in Seq(S) /\ Len(c) = Len(q) - n + k /\ \A j \in 1..k : c[j] \in W
  <2>1. c \in Seq(S) /\ Len(c) = Len(q) - n + k /\ \A j \in 1..k : c[j] = q[n - k + j]
    BY SMTT(30)
  <2> HIDE DEF c
  <2>2. \A j \in 1..k : n - k + j \in 1..n
    OBVIOUS
  <2> QED
    BY <2>1, <2>2
<1> HIDE DEF a, b, c
<1> DEFINE d == a \o b
<1>4. d \in Seq(S) /\ Len(d) = n - k
  BY <1>1, <1>2
<1>5. \A j \in 1..(n - k) : d[j] \in W
  <2>1. /\ a \in Seq(S) /\ Len(a) = i - 1
        /\ b \in Seq(S) /\ Len(b) = n - k - i + 1
    BY <1>1, <1>2
  <2>2. \A j \in 1..(n - k) : d[j] = IF j <= i - 1 THEN a[j] ELSE b[j - (i - 1)]
    <3> SUFFICES ASSUME NEW j \in 1..(n - k)
                 PROVE  d[j] = IF j <= i - 1 THEN a[j] ELSE b[j - (i - 1)]
      OBVIOUS
    <3>1. j \in 1..(Len(a) + Len(b)) /\ Len(a) = i - 1
      BY <2>1
    <3>2. d[j] = IF j <= Len(a) THEN a[j] ELSE b[j - Len(a)]
      BY <2>1, <3>1, ConcatAt
    <3> QED
      BY <3>1, <3>2
  <2>3. \A j \in 1..(n - k) : j <= i - 1 \/ j - (i - 1) \in 1..(n - k - i + 1)
    OBVIOUS
  <2> HIDE DEF d
  <2> SUFFICES ASSUME NEW j \in 1..(n - k) PROVE d[j] \in W
    OBVIOUS
  <2>4. CASE j <= i - 1
    BY <1>1, <2>2, <2>4
  <2>5. CASE ~(j <= i - 1)
    BY <1>2, <2>2, <2>3, <2>5
  <2> QED
    BY <2>4, <2>5
<1> HIDE DEF d
<1>6. d \o c \in Seq(S) /\ Len(d \o c) = Len(q)
  BY <1>3, <1>4
<1>7. \A j \in 1..n : (d \o c)[j] = IF j <= n - k THEN d[j] ELSE c[j - (n - k)]
  BY <1>3, <1>4, SMTT(30)
<1>8. \A j \in 1..n : (d \o c)[j] \in W
  <2> SUFFICES ASSUME NEW j \in 1..n PROVE (d \o c)[j] \in W
    OBVIOUS
  <2>1. CASE j <= n - k
    <3>1. j \in 1..(n - k)
      BY <2>1
    <3>2. (d \o c)[j] = d[j]
      BY <1>7, <2>1
    <3> QED
      BY <1>5, <3>1, <3>2
  <2>2. CASE ~(j <= n - k)
    <3>1. j - (n - k) \in 1..k
      BY <2>2
    <3> QED
      BY <1>3, <1>7, <2>2, <3>1
  <2> QED
    BY <2>1, <2>2
<1>9. d \o c \in Seq(S) /\ Len(d \o c) = Len(q) /\ \A j \in 1..n : (d \o c)[j] \in W
  BY <1>6, <1>8
<1> QED
  BY <1>9 DEF d, a, b, c

-----------------------------------------------------------------------------
(* resize to a size for which the code constructs every element it adds.   *)
LEMMA VecResize ==
  ASSUME kind # "nested", NEW W, NEW t, VecInv(t, W), NEW o \in Objects, Blocks \ t.live # {},
         NEW n \in Nat, NEW v \in W,
         n < t.hdr[o].max => n <= t.hdr[o].length
  PROVE  LET u == Vec!Resize(t, o, n, v) IN VecDone(t, W, o, u, n) /\ n <= u.hdr[o].max
<1>0. /\ t.hdr[o].max \in Nat /\ t.hdr[o].length \in Nat /\ t.hdr[o].length <= t.hdr[o].max
      /\ \A i \in 1..t.hdr[o].length : VecAt(t, o)[i] \in W
  BY VecLength, VecElements
<1>1. CASE n = 0
  <2> DEFINE u == Vec!SetLength(t, o, n)
  <2>1. Vec!Resize(t, o, n, v) = u
    BY <1>1 DEF Vec!Resize
  <2>2. n <= t.hdr[o].max /\ \A i \in 1..n : VecAt(t, o)[i] \in W
    BY <1>0, <1>1
  <2>3. VecDone(t, W, o, u, n) /\ u.hdr[o].max = t.hdr[o].max
    BY <2>2, VecSetLength
  <2> QED
    BY <2>1, <2>2, <2>3
<1>2. CASE n # 0
  <2> DEFINE fill == [i \in 1..(n - t.hdr[o].length) |-> v]
             w == Vec!GrowVector(t, o, n, fill)
             u == Vec!SetLength(w, o, n)
  <2>1. Vec!Resize(t, o, n, v) = u
    BY <1>2 DEF Vec!Resize
  <2>2. fill \in Seq(W) /\ Len(fill) = IF n <= t.hdr[o].length THEN 0 ELSE n - t.hdr[o].length
    <3>1. CASE n <= t.hdr[o].length
      <4>1. fill = <<>>
        BY <1>0, <3>1
      <4> HIDE DEF fill
      <4> QED
        BY <3>1, <4>1
    <3>2. CASE ~(n <= t.hdr[o].length)
      <4>1. n - t.hdr[o].length \in Nat
        BY <1>0, <3>2
      <4> QED
        BY <3>2, <4>1
    <3> QED
      BY <3>1, <3>2
  <2> HIDE DEF fill
  <2>3. n >= t.hdr[o].max => t.hdr[o].length + Len(fill) <= n
    BY <1>0, <2>2
  <2>4. VecDone(t, W, o, w, t.hdr[o].length)
    BY <2>2, <2>3, VecGrow
  <2>5. n <= w.hdr[o].max /\ \A i \in 1..n : VecAt(w, o)[i] \in W
    <3>1. CASE n < t.hdr[o].max
      <4>1. w = t
        BY <3>1 DEF Vec!GrowVector
      <4> HIDE DEF w
      <4> QED
        BY <1>0, <3>1, <4>1
    <3>2. CASE ~(n < t.hdr[o].max)
      <4>1. w.hdr[o].max = IF n < t.hdr[o].max THEN t.hdr[o].max ELSE n
        BY <2>2, <2>3, <3>2, VecGrow
      <4>2. n >= t.hdr[o].max => \A i \in 1..(t.hdr[o].length + Len(fill)) : VecAt(w, o)[i] \in W
        BY <2>2, <2>3, <3>2, VecGrow
      <4>3. n >= t.hdr[o].max /\ n <= t.hdr[o].length + Len(fill)
        BY <1>0, <2>2, <3>2
      <4> HIDE DEF w
      <4>4. \A i \in 1..n : i \in 1..(t.hdr[o].length + Len(fill))
        BY <1>0, <2>2, <4>3
      <4>5. \A i \in 1..n : VecAt(w, o)[i] \in W
        BY <4>2, <4>3, <4>4
      <4>6. n <= w.hdr[o].max
        BY <3>2, <4>1
      <4> QED
        BY <4>5, <4>6
    <3> QED
      BY <3>1, <3>2
  <2> HIDE DEF w
  <2>6. VecInv(w, W)
    BY <2>4 DEF VecDone
  <2>7. VecDone(w, W, o, u, n) /\ u.hdr[o].max = w.hdr[o].max
    BY <2>5, <2>6, VecSetLength
  <2>8. VecDone(t, W, o, u, n)
    BY <2>4, <2>7, VecThen
  <2> QED
    BY <2>1, <2>5, <2>7, <2>8
<1> QED
  BY <1>1, <1>2

(* The slots of a block change.                                            *)
WithSlots(t, b, q) == [t EXCEPT !.mem[b] = q]

(* The slots after one of them is written                                  *)
LEMMA VecSlotsPut ==
  ASSUME NEW S, NEW H, NEW t, t \in HeapStores(S, H), NEW b, b \in Blocks,
         NEW q, q \in Seq(S)
  PROVE  LET u == WithSlots(t, b, q) IN
         /\ u \in HeapStores(S, H) /\ u.hdr = t.hdr /\ u.live = t.live
         /\ u.alloc = t.alloc /\ u.mem[b] = q
         /\ \A d \in t.live \ {b} : u.mem[d] = t.mem[d]
<1> DEFINE w == [t EXCEPT !.mem[b] = q]
<1>0. t.live \subseteq Blocks /\ t.mem \in [Blocks -> Seq(S)]
  BY StoreParts
<1>3. /\ w \in HeapStores(S, H) /\ w.hdr = t.hdr /\ w.live = t.live
      /\ w.alloc = t.alloc /\ w.mem = [t.mem EXCEPT ![b] = q]
  BY DEF HeapStores
<1> HIDE DEF w
<1>4. w.mem[b] = q /\ \A d \in t.live \ {b} : w.mem[d] = t.mem[d]
  BY <1>0, <1>3
<1> QED
  BY <1>3, <1>4 DEF w, WithSlots

(* emplace before an element                                               *)
LEMMA VecEmplace ==
  ASSUME kind # "nested", NEW W, NEW t, VecInv(t, W), NEW o \in Objects, NEW v \in W,
         Blocks \ t.live # {}, NEW i \in 1..(t.hdr[o].length + 1)
  PROVE  LET u == Vec!Emplace(t, o, i, v) IN VecDone(t, W, o, u, t.hdr[o].length + 1)
<1> DEFINE n == t.hdr[o].length
<1>0. n \in Nat /\ t.hdr[o].max \in Nat
  BY VecLength
<1>1. CASE i > n
  <2>1. Vec!Emplace(t, o, i, v) = Vec!EmplaceBack(t, o, v)
    BY <1>1 DEF Vec!Emplace
  <2>2. VecDone(t, W, o, Vec!EmplaceBack(t, o, v), n + 1)
    BY VecEmplaceBack
  <2> QED
    BY <2>1, <2>2
<1>2. CASE ~(i > n)
  <2> DEFINE w == Vec!MakeRoom(t, o)
             x == Vec!ShiftRight(w, o, i)
             y == Vec!MakeAr(x, o, i, v)
             u == [y EXCEPT !.hdr[o].length = @ + 1]
             s == VecAt(w, o)
             q == SubSeq(s, 1, i) \o SubSeq(s, i, n) \o SubSeq(s, n + 2, Len(s))
             b == w.hdr[o].ptr
             m == w.hdr[o].max
  <2>1. Vec!Emplace(t, o, i, v) = u
    BY <1>2 DEF Vec!Emplace
  <2>2. VecDone(t, W, o, w, n) /\ n < m
    BY VecMakeRoom
  <2> HIDE DEF w
  <2>3. VecInv(w, W) /\ w.hdr[o].length = n
    BY <2>2 DEF VecDone
  <2>4. m \in Nat /\ s \in Seq(WithRaw(W)) /\ Len(s) = m
    BY <2>3, VecLength, VecSlots
  <2>5. b # Null /\ s = w.mem[b]
    BY <1>0, <2>2, <2>3, <2>4, VecEmpty, VecMem
  <2>6. \A j \in 1..n : s[j] \in W
    BY <2>3, VecElements, SMTT(30)
  <2>7. x = [w EXCEPT !.mem[b] = q]
    <3>1. x = [w EXCEPT !.mem[b] = SubSeq(@, 1, i) \o SubSeq(@, i, n) \o SubSeq(@, n + 2, Len(@))]
      BY <2>3 DEF Vec!ShiftRight
    <3> QED
      BY <2>5, <3>1
  <2> HIDE DEF x, s, n, b, m
  <2>8. q \in Seq(WithRaw(W)) /\ Len(q) = Len(s) /\ \A j \in 1..(n + 1) : q[j] \in W
    <3>1. n \in Nat /\ n < Len(s) /\ i \in 1..n
      BY <1>0, <1>2, <2>2, <2>4 DEF n
    <3> QED
      BY <2>4, <2>6, <3>1, ShiftedRight
  <2> HIDE DEF q
  <2>9. /\ x \in HeapStores(WithRaw(W), VecHeaders) /\ x.hdr = w.hdr /\ x.live = w.live
        /\ x.alloc = w.alloc /\ x.mem[b] = q
        /\ \A d \in w.live \ {b} : x.mem[d] = w.mem[d]
    <3>1. w \in HeapStores(WithRaw(W), VecHeaders) /\ b \in Blocks
      <4>1. w \in HeapStores(WithRaw(W), VecHeaders) /\ w.live \subseteq Blocks
        BY <2>3, VecStore
      <4>2. b \in w.live \cup {Null}
        BY <2>3, VecPtr DEF b
      <4> QED
        BY <2>5, <4>1, <4>2
    <3>2. q \in Seq(WithRaw(W))
      BY <2>8
    <3> QED
      <4>1. x = WithSlots(w, b, q)
        BY <2>7 DEF WithSlots
      <4> QED
        BY <3>1, <3>2, <4>1, VecSlotsPut
  <2>10. VecDone(w, W, o, x, n) /\ VecAt(x, o) = q
    <3>1. /\ n \in Nat /\ n <= w.hdr[o].max /\ Len(q) = w.hdr[o].max
          /\ \A j \in 1..n : q[j] \in W
      BY <1>0, <2>2, <2>4, <2>8 DEF n, m
    <3>2. /\ x.hdr[o].ptr = w.hdr[o].ptr /\ x.hdr[o].max = w.hdr[o].max /\ x.hdr[o].length = n
          /\ \A z \in Objects \ {o} : x.hdr[z] = w.hdr[z]
      BY <2>3, <2>9
    <3>3. /\ w.hdr[o].ptr # Null => x.mem[w.hdr[o].ptr] = q
          /\ \A d \in w.live \ {w.hdr[o].ptr} : x.mem[d] = w.mem[d]
      BY <2>9 DEF b
    <3> QED
      BY <2>3, <2>8, <2>9, <3>1, <3>2, <3>3, VecWrite
  <2>11. VecInv(x, W) /\ x.hdr[o].length = n /\ i \in 1..x.hdr[o].max
    BY <1>0, <1>2, <2>2, <2>4, <2>9, <2>10 DEF VecDone, n, m
  <2>12. /\ VecDone(x, W, o, y, n) /\ y.hdr = x.hdr
         /\ VecAt(y, o) = [q EXCEPT ![i] = v]
    BY <2>10, <2>11, VecSlot
  <2> HIDE DEF y
  <2>13. VecInv(y, W) /\ y.hdr[o].length = n /\ n + 1 \in Nat /\ n + 1 <= y.hdr[o].max
    BY <1>0, <2>2, <2>4, <2>9, <2>12 DEF VecDone, n, m
  <2>14. \A j \in 1..(n + 1) : VecAt(y, o)[j] \in W
    <3>1. ASSUME NEW j \in 1..(n + 1) PROVE [q EXCEPT ![i] = v][j] \in W
      <4>1. j \in 1..Len(q)
        BY <1>0, <2>2, <2>4, <2>8 DEF n, m
      <4> QED
        BY <2>8, <4>1
    <3> QED
      BY <2>12, <3>1
  <2>15. u = [y EXCEPT !.hdr[o].length = n + 1]
    BY <2>13
  <2> HIDE DEF u
  <2>16. VecDone(y, W, o, u, n + 1)
    BY <2>13, <2>14, <2>15, VecCount
  <2>17. VecDone(t, W, o, x, n)
    BY <2>2, <2>10, VecThen
  <2>18. VecDone(t, W, o, y, n)
    BY <2>12, <2>17, VecThen
  <2>19. VecDone(t, W, o, u, n + 1)
    BY <2>16, <2>18, VecThen, SMTT(30)
  <2> QED
    BY <2>1, <2>19 DEF n
<1> QED
  BY <1>1, <1>2

-----------------------------------------------------------------------------
(* Elements of other types own nothing: their destruction changes nothing. *)
LEMMA VecDestroyNone ==
  ASSUME kind # "nested", NEW t, NEW o, NEW i, NEW count \in Nat
  PROVE  LET q == t.mem[t.hdr[o].ptr]
             n == t.hdr[o].length
         IN  Vec!ShiftLeft(t, o, i, count) = WithSlots(t, t.hdr[o].ptr,
               SubSeq(q, 1, i - 1) \o SubSeq(q, i + count, n) \o SubSeq(q, n - count + 1, Len(q)))
<1> DEFINE destroyed[k \in 0..count] ==
             IF k = 0 THEN t ELSE Vec!DestroyAr(destroyed[k - 1], o, i + k - 1)
<1>1. Vec!ShiftLeft(t, o, i, count) =
        [destroyed[count] EXCEPT !.mem[t.hdr[o].ptr] = SubSeq(@, 1, i - 1) \o
              SubSeq(@, i + count, t.hdr[o].length) \o
              SubSeq(@, t.hdr[o].length - count + 1, Len(@))]
  BY DEF Vec!ShiftLeft
<1>2. destroyed = CHOOSE f : f = [k \in 0..count |->
                    IF k = 0 THEN t ELSE Vec!DestroyAr(f[k - 1], o, i + k - 1)]
  BY DEF destroyed
<1>3. \A z, j : Vec!DestroyAr(z, o, j) = z
  BY DEF Vec!DestroyAr, elements
<1> DEFINE g == [k \in 0..count |-> t]
<1>4. g = [k \in 0..count |-> IF k = 0 THEN t ELSE Vec!DestroyAr(g[k - 1], o, i + k - 1)]
  <2>1. \A k \in 0..count : t = IF k = 0 THEN t ELSE Vec!DestroyAr(g[k - 1], o, i + k - 1)
    BY <1>3
  <2> QED
    BY <2>1
<1> HIDE DEF destroyed, g
<1>5. destroyed = [k \in 0..count |->
                     IF k = 0 THEN t ELSE Vec!DestroyAr(destroyed[k - 1], o, i + k - 1)]
  BY <1>2, <1>4
<1>6. \A k \in 0..count : destroyed[k] = t
  <2> DEFINE R == {k \in 0..count : destroyed[k] = t}
  <2>1. 0 \in R
    BY <1>5
  <2>2. ASSUME NEW k \in 0..(count - 1), k \in R PROVE k + 1 \in R
    <3>1. k + 1 \in 0..count /\ k + 1 # 0 /\ (k + 1) - 1 = k
      OBVIOUS
    <3>2. destroyed[k + 1] = Vec!DestroyAr(destroyed[k], o, i + (k + 1) - 1)
      BY <1>5, <3>1
    <3> QED
      BY <1>3, <2>2, <3>1, <3>2
  <2> HIDE DEF R
  <2>3. \A k \in 0..count : k \in R
    BY <2>1, <2>2, IntervalInduction
  <2> QED
    BY <2>3 DEF R
<1>7. destroyed[count] = t
  BY <1>6
<1> QED
  BY <1>1, <1>7 DEF WithSlots

(* erase of the positions from i up to but not including j                 *)
LEMMA VecErase ==
  ASSUME kind # "nested", NEW W, NEW t, VecInv(t, W), NEW o \in Objects,
         NEW i \in 1..(t.hdr[o].length + 1), NEW j \in Nat, i <= j
  PROVE  LET u == Vec!Erase(t, o, i, j) IN
         /\ \E n \in Nat : VecDone(t, W, o, u, n)
         /\ u.hdr[o].ptr = t.hdr[o].ptr /\ u.live = t.live
<1> DEFINE n == t.hdr[o].length
           count == (IF j > n THEN n + 1 ELSE j) - i
           s == VecAt(t, o)
           b == t.hdr[o].ptr
           q == SubSeq(s, 1, i - 1) \o SubSeq(s, i + count, n) \o SubSeq(s, n - count + 1, Len(s))
           w == Vec!ShiftLeft(t, o, i, count)
           u == Vec!SetLength(w, o, n - count)
<1>0. /\ n \in Nat /\ t.hdr[o].max \in Nat /\ n <= t.hdr[o].max
      /\ s \in Seq(WithRaw(W)) /\ Len(s) = t.hdr[o].max
  BY VecLength, VecSlots
<1>1. CASE i > n \/ count = 0
  <2>1. Vec!Erase(t, o, i, j) = t
    BY <1>1 DEF Vec!Erase
  <2>2. VecDone(t, W, o, t, n)
    BY VecNow
  <2> QED
    BY <1>0, <2>1, <2>2
<1>2. CASE ~(i > n \/ count = 0)
  <2>1. Vec!Erase(t, o, i, j) = u
    BY <1>2 DEF Vec!Erase
  <2>2. i \in 1..n /\ count \in 1..n /\ i + count <= n + 1 /\ count \in Nat
    <3>1. i \in 1..n /\ count # 0 /\ n \in Nat
      BY <1>0, <1>2
    <3> HIDE DEF n
    <3> QED
      BY <3>1
  <2>3. b # Null
    BY <1>0, <2>2, VecEmpty
  <2>4. s = t.mem[b]
    BY <2>3, VecMem
  <2> HIDE DEF count
  <2>5. w = [t EXCEPT !.mem[b] = q]
    <3>1. w = WithSlots(t, b, q)
      BY <2>2, <2>4, VecDestroyNone
    <3> HIDE DEF w
    <3> QED
      BY <3>1 DEF WithSlots
  <2>6. \A k \in 1..n : s[k] \in W
    BY VecElements
  <2> HIDE DEF w, s, n
  <2>7. q \in Seq(WithRaw(W)) /\ Len(q) = Len(s) /\ \A k \in 1..n : q[k] \in W
    <3>1. n \in Nat /\ n <= Len(s)
      BY <1>0 DEF n
    <3> QED
      BY <1>0, <2>2, <2>6, <3>1, ShiftedLeft
  <2> HIDE DEF q, b
  <2>8. b \in Blocks /\ t \in HeapStores(WithRaw(W), VecHeaders)
    <3>1. t \in HeapStores(WithRaw(W), VecHeaders) /\ t.live \subseteq Blocks
      BY VecStore
    <3>2. b \in t.live \cup {Null}
      BY VecPtr DEF b
    <3> QED
      BY <2>3, <3>1, <3>2
  <2>9. /\ w \in HeapStores(WithRaw(W), VecHeaders) /\ w.hdr = t.hdr /\ w.live = t.live
        /\ w.alloc = t.alloc /\ w.mem[b] = q
        /\ \A d \in t.live \ {b} : w.mem[d] = t.mem[d]
    <3>1. q \in Seq(WithRaw(W)) /\ w = WithSlots(t, b, q)
      BY <2>5, <2>7 DEF WithSlots
    <3> QED
      BY <2>8, <3>1, VecSlotsPut
  <2>10. VecDone(t, W, o, w, n) /\ VecAt(w, o) = q
    <3>1. /\ n \in Nat /\ n <= t.hdr[o].max /\ Len(q) = t.hdr[o].max /\ w.hdr[o].length = n
          /\ w.hdr[o].ptr = t.hdr[o].ptr /\ w.hdr[o].max = t.hdr[o].max
          /\ \A x \in Objects \ {o} : w.hdr[x] = t.hdr[x]
      BY <1>0, <2>7, <2>9 DEF n
    <3>2. /\ t.hdr[o].ptr # Null => w.mem[t.hdr[o].ptr] = q
          /\ \A d \in t.live \ {t.hdr[o].ptr} : w.mem[d] = t.mem[d]
      BY <2>9 DEF b
    <3> QED
      BY <2>7, <2>9, <3>1, <3>2, VecWrite
  <2> DEFINE m == n - count
  <2>11. VecInv(w, W) /\ m \in Nat /\ m <= w.hdr[o].max /\ \A k \in 1..m : VecAt(w, o)[k] \in W
    <3>1. VecInv(w, W) /\ m \in Nat /\ m <= w.hdr[o].max
      BY <1>0, <2>2, <2>9, <2>10 DEF VecDone, n
    <3>2. \A k \in 1..m : k \in 1..n
      BY <1>0, <2>2 DEF n
    <3> QED
      BY <2>7, <2>10, <3>1, <3>2
  <2> HIDE DEF m
  <2> DEFINE z == Vec!SetLength(w, o, m)
  <2>12. VecDone(w, W, o, z, m) /\ z.hdr[o].ptr = w.hdr[o].ptr /\ z.live = w.live
    BY <2>11, VecSetLength
  <2>13. VecDone(t, W, o, z, m)
    BY <2>10, <2>12, VecThen
  <2>14. u = z
    BY DEF m
  <2> HIDE DEF u, z
  <2> QED
    BY <2>1, <2>9, <2>11, <2>12, <2>13, <2>14
<1> QED
  BY <1>1, <1>2

-----------------------------------------------------------------------------
(* shm_destroy                                                             *)
LEMMA VecDestroy ==
  ASSUME kind # "nested", NEW W, NEW t, VecInv(t, W), NEW o \in Objects
  PROVE  LET u == Vec!ShmDestroy(t, o) IN
         /\ VecDone(t, W, o, u, 0) /\ u.hdr[o].ptr = Null /\ u.live \subseteq t.live
<1> DEFINE a == t.hdr[o].ptr
           n == t.hdr[o].length
           u == Vec!ShmDestroy(t, o)
<1>0. n \in Nat /\ t.hdr[o].max \in Nat /\ n <= t.hdr[o].max
  BY VecLength
<1>1. CASE a = Null
  <2>1. u = t
    BY <1>1 DEF Vec!ShmDestroy
  <2>2. n = 0
    BY <1>0, <1>1, VecEmpty
  <2>3. VecDone(t, W, o, t, n)
    BY VecNow
  <2> QED
    BY <1>1, <2>1, <2>2, <2>3
<1>2. CASE a # Null
  <2> DEFINE e == Vec!Erase(t, o, 1, n + 1)
             r == Vec!Release(e, a)
             h == Vec!EmptyHeader
             w == [r EXCEPT !.hdr[o] = h]
  <2>1. u = w
    BY <1>2 DEF Vec!ShmDestroy
  <2>2. 1 \in 1..(n + 1) /\ n + 1 \in Nat /\ 1 <= n + 1
    BY <1>0
  <2> HIDE DEF n
  <2>3. (\E m \in Nat : VecDone(t, W, o, e, m)) /\ e.hdr[o].ptr = a /\ e.live = t.live
    BY <2>2, VecErase DEF n
  <2> HIDE DEF e
  <2>4. VecInv(e, W) /\ e.alloc = t.alloc /\ \A x \in Objects \ {o} : Kept(t, e, VecOwn, x)
    BY <2>3 DEF VecDone
  <2>5. /\ e \in HeapStores(WithRaw(W), VecHeaders) /\ e.live \subseteq Blocks
        /\ e.mem \in [Blocks -> Seq(WithRaw(W))] /\ e.hdr \in [Objects -> VecHeaders]
    BY <2>4, VecStore
  <2>6. VecOwn[e.hdr[o]] = a /\ a \in Blocks
    <3>1. VecOwn[e.hdr[o]] = e.hdr[o].ptr /\ e.hdr[o].ptr \in e.live \cup {Null}
      BY <2>4, VecPtr
    <3> HIDE DEF a
    <3> QED
      BY <1>2, <2>3, <2>5, <3>1
  <2> HIDE DEF a
  <2>7. r = [e EXCEPT !.live = @ \ {a}, !.mem[a] = <<>>]
    BY DEF Vec!Release
  <2> HIDE DEF r
  <2>8. /\ r \in HeapStores(WithRaw(W), VecHeaders) /\ r.hdr = e.hdr /\ r.alloc = e.alloc
        /\ r.live = e.live \ {a} /\ r.mem = [e.mem EXCEPT ![a] = <<>>]
    BY <2>5, <2>6, <2>7, EmptyIsSeq DEF HeapStores
  <2>9. \A d \in r.live : r.mem[d] = e.mem[d]
    BY <2>5, <2>8
  <2>10. /\ Sound(r, WithRaw(W), VecHeaders, VecOwn, VecFit(W), Objects \ {o})
         /\ \A x \in Objects \ {o} : Kept(e, r, VecOwn, x)
    BY <2>4, <2>6, <2>8, <2>9, SoundRelease DEF VecInv
  <2>11. h \in VecHeaders /\ h.ptr = Null /\ h.max = 0 /\ h.length = 0
    <3>1. h \in PlainHeaders /\ h.ptr = Null /\ h.max = 0 /\ h.length = 0
      BY DEF PlainHeaders, Vec!EmptyHeader
    <3> HIDE DEF h
    <3> QED
      BY <3>1 DEF VecHeaders
  <2> HIDE DEF h
  <2>12. VecOwn[h] = Null /\ <<h, <<>>>> \in VecFit(W)
    <3>1. VecOwn[h] = Null
      BY <2>11, VecFields
    <3>2. <<>> \in Seq(WithRaw(W)) /\ Len(<<>>) = 0 /\ h.length <= h.max
          /\ \A i \in 1..h.length : <<>>[i] \in W
      BY <2>11
    <3> QED
      BY <2>11, <3>1, <3>2, VecFitIs
  <2>13. /\ w \in HeapStores(WithRaw(W), VecHeaders) /\ w.hdr = [r.hdr EXCEPT ![o] = h]
         /\ w.live = r.live /\ w.mem = r.mem /\ w.alloc = r.alloc
    BY <2>8, <2>11 DEF HeapStores
  <2> HIDE DEF w
  <2>14. w.hdr[o] = h /\ \A x \in Objects \ {o} : w.hdr[x] = r.hdr[x]
    BY <2>5, <2>8, <2>13
  <2>15. VecOwn[w.hdr[o]] = Null /\ <<w.hdr[o], <<>>>> \in VecFit(W)
         /\ \A b \in r.live : w.mem[b] = r.mem[b]
    BY <2>12, <2>13, <2>14
  <2>16. /\ Sound(w, WithRaw(W), VecHeaders, VecOwn, VecFit(W), Objects)
         /\ \A x \in Objects \ {o} : Kept(r, w, VecOwn, x)
    BY <2>10, <2>13, <2>14, <2>15, SoundNone
  <2>17. \A x \in Objects \ {o} : Kept(t, w, VecOwn, x)
    BY <2>4, <2>10, <2>16 DEF Kept
  <2>18. VecInv(w, W) /\ w.alloc = t.alloc /\ w.hdr[o].length = 0 /\ w.hdr[o].ptr = Null
         /\ w.live \subseteq t.live
    BY <2>3, <2>4, <2>8, <2>11, <2>13, <2>14, <2>16 DEF VecInv
  <2> QED
    BY <2>1, <2>17, <2>18 DEF VecDone
<1> QED
  BY <1>1, <1>2

(* shm_strong_copy_main of q to an empty vector                            *)
LEMMA VecAppendCopy ==
  ASSUME kind # "nested", NEW W, NEW t, VecInv(t, W), NEW o \in Objects, Blocks \ t.live # {},
         t.hdr[o].length = 0, NEW q \in Seq(W)
  PROVE  LET u == Vec!AppendCopy(t, o, q) IN
         VecDone(t, W, o, u, Len(q)) /\ \A i \in 1..Len(q) : VecAt(u, o)[i] = q[i]
<1> DEFINE k == Len(q)
           a == Vec!Reserve(t, o, k)
           u == Vec!AppendCopy(t, o, q)
           HS == HeapStores(WithRaw(W), VecHeaders)
           T == [i \in 0..k |-> {z \in HS : /\ VecDone(t, W, o, z, i) /\ k <= z.hdr[o].max
                                            /\ \A j \in 1..i : VecAt(z, o)[j] = q[j]}]
           step == [i \in 1..k |-> [z \in HS |-> Vec!EmplaceBack(z, o, q[i])]]
<1>0. k \in Nat
  OBVIOUS
<1>1. a \in T[0]
  <2>1. VecDone(t, W, o, a, 0) /\ k <= a.hdr[o].max
    BY <1>0, VecReserve
  <2> HIDE DEF a
  <2>2. a \in HS
    BY <2>1, VecStore DEF VecDone
  <2> QED
    BY <1>0, <2>1, <2>2
<1>2. ASSUME NEW i \in 1..k, NEW z \in T[i - 1]
      PROVE  z \in HS /\ Vec!EmplaceBack(z, o, q[i]) \in T[i]
  <2> DEFINE y == Vec!EmplaceBack(z, o, q[i])
             v == q[i]
             s == VecAt(z, o)
  <2>1. i - 1 \in 0..k /\ i \in 0..k /\ v \in W /\ (i - 1) + 1 = i
    OBVIOUS
  <2>2. /\ z \in HS /\ VecDone(t, W, o, z, i - 1) /\ k <= z.hdr[o].max
        /\ \A j \in 1..(i - 1) : s[j] = q[j]
    BY <2>1
  <2>3. VecInv(z, W) /\ z.hdr[o].length = i - 1
    BY <2>2 DEF VecDone
  <2>4. z.hdr[o].length < z.hdr[o].max /\ z.hdr[o].max \in Nat
        /\ s \in Seq(WithRaw(W)) /\ Len(s) = z.hdr[o].max
    <3>1. z.hdr[o].max \in Nat /\ s \in Seq(WithRaw(W)) /\ Len(s) = z.hdr[o].max
      BY <2>3, VecLength, VecSlots
    <3> QED
      BY <2>2, <2>3, <3>1
  <2> HIDE DEF T, HS, v
  <2>5. /\ VecDone(z, W, o, y, i) /\ y.hdr[o].max = z.hdr[o].max
        /\ VecAt(y, o) = [s EXCEPT ![i] = v]
    <3>1. /\ VecDone(z, W, o, y, z.hdr[o].length + 1) /\ y.hdr[o].max = z.hdr[o].max
          /\ VecAt(y, o) = [s EXCEPT ![z.hdr[o].length + 1] = v]
      <4>1. v \in W /\ VecInv(z, W) /\ z.hdr[o].length < z.hdr[o].max
        BY <2>1, <2>3, <2>4
      <4>2. y = Vec!EmplaceBack(z, o, v)
        BY DEF v
      <4> HIDE DEF y
      <4> QED
        BY <4>1, <4>2, VecPushBack
    <3> HIDE DEF y, s
    <3> QED
      BY <2>1, <2>3, <3>1
  <2> HIDE DEF y, s
  <2>6. \A j \in 1..i : VecAt(y, o)[j] = q[j]
    <3> SUFFICES ASSUME NEW j \in 1..i PROVE [s EXCEPT ![i] = v][j] = q[j]
      BY <2>5
    <3>1. j \in 1..Len(s)
      BY <1>0, <2>2, <2>4
    <3> QED
      BY <2>2, <2>4, <3>1 DEF v
  <2>7. VecDone(t, W, o, y, i) /\ k <= y.hdr[o].max
    BY <2>2, <2>5, VecThen
  <2>8. y \in HS
    BY <2>7, VecStore DEF VecDone, HS
  <2>9. y \in T[i]
    BY <2>1, <2>6, <2>7, <2>8 DEF T
  <2> QED
    BY <2>2, <2>9 DEF y
<1>b. \A i \in 0..k : T[i] \subseteq HS
  OBVIOUS
<1> HIDE DEF T, HS, a
<1>3. \A i \in 1..k : \A z \in T[i - 1] : step[i][z] \in T[i]
  BY <1>2
<1> HIDE DEF step
<1>4. PICK f \in [0..k -> HS] :
        f[0] = a /\ \A i \in 1..k : f[i - 1] \in T[i - 1] /\ f[i] = step[i][f[i - 1]]
  <2>1. Loop(k, HS, T, step, a)
    BY <1>0, <1>1, <1>3, <1>b DEF Loop
  <2> QED
    BY <2>1, LoopExists
<1>5. f = [i \in 0..k |-> IF i = 0 THEN a ELSE Vec!EmplaceBack(f[i - 1], o, q[i])]
  <2>1. ASSUME NEW i \in 1..k PROVE f[i] = Vec!EmplaceBack(f[i - 1], o, q[i])
    BY <1>2, <1>4 DEF step
  <2>2. \A i \in 0..k : f[i] = IF i = 0 THEN a ELSE Vec!EmplaceBack(f[i - 1], o, q[i])
    BY <1>4, <2>1
  <2> QED
    BY <1>4, <2>2
<1> DEFINE copied[i \in 0..k] == IF i = 0 THEN a ELSE Vec!EmplaceBack(copied[i - 1], o, q[i])
<1>6. u = copied[k]
  BY DEF Vec!AppendCopy, a
<1>7. copied = [i \in 0..k |-> IF i = 0 THEN a ELSE Vec!EmplaceBack(copied[i - 1], o, q[i])]
  <2>1. copied = CHOOSE g : g = [i \in 0..k |->
                   IF i = 0 THEN a ELSE Vec!EmplaceBack(g[i - 1], o, q[i])]
    BY DEF copied
  <2> HIDE DEF copied
  <2> QED
    BY <1>5, <2>1
<1> HIDE DEF copied, u
<1>8. \A i \in 0..k : copied[i] \in T[i]
  <2> DEFINE R == {i \in 0..k : copied[i] \in T[i]}
  <2>1. 0 \in R
    BY <1>0, <1>1, <1>7
  <2>2. ASSUME NEW i \in 0..(k - 1), i \in R PROVE i + 1 \in R
    <3>1. i + 1 \in 1..k /\ i + 1 \in 0..k /\ (i + 1) - 1 = i /\ i + 1 # 0
      BY <1>0
    <3>2. copied[i + 1] = Vec!EmplaceBack(copied[i], o, q[i + 1])
      BY <1>7, <3>1
    <3>3. Vec!EmplaceBack(copied[i], o, q[i + 1]) \in T[i + 1]
      BY <1>2, <2>2, <3>1
    <3> QED
      BY <3>1, <3>2, <3>3
  <2> HIDE DEF R
  <2>3. \A i \in 0..k : i \in R
    BY <1>0, <2>1, <2>2, IntervalInduction
  <2> QED
    BY <2>3 DEF R
<1>9. u \in T[k] /\ k \in 0..k
  BY <1>0, <1>6, <1>8
<1> QED
  BY <1>9 DEF T, u

(* Assignment of contents                                                  *)
LEMMA VecAssign ==
  ASSUME kind # "nested", NEW W, NEW t, VecInv(t, W), NEW o \in Objects, Blocks \ t.live # {},
         NEW q \in Seq(W)
  PROVE  LET u == Vec!Assign(t, o, q) IN
         VecDone(t, W, o, u, Len(q)) /\ \A i \in 1..Len(q) : VecAt(u, o)[i] = q[i]
<1> DEFINE d == Vec!ShmDestroy(t, o)
           u == Vec!AppendCopy(d, o, q)
<1>1. VecDone(t, W, o, d, 0) /\ d.live \subseteq t.live
  BY VecDestroy
<1>2. u = Vec!Assign(t, o, q)
  BY DEF Vec!Assign
<1> HIDE DEF d
<1>3. VecInv(d, W) /\ d.hdr[o].length = 0 /\ Blocks \ d.live # {}
  BY <1>1 DEF VecDone
<1>4. VecDone(d, W, o, u, Len(q)) /\ \A i \in 1..Len(q) : VecAt(u, o)[i] = q[i]
  BY <1>3, VecAppendCopy
<1> HIDE DEF u
<1>5. VecDone(t, W, o, u, Len(q))
  BY <1>1, <1>4, VecThen
<1> QED
  BY <1>2, <1>4, <1>5

(* What a copy reads                                                       *)
LEMMA VecContents ==
  ASSUME kind # "nested", NEW W, NEW t, VecInv(t, W), NEW o \in Objects
  PROVE  LET q == Vec!Contents(t, o) IN
         /\ q \in Seq(W) /\ Len(q) = t.hdr[o].length
         /\ \A i \in 1..Len(q) : q[i] = VecAt(t, o)[i]
<1> DEFINE n == t.hdr[o].length
           q == Vec!Contents(t, o)
           s == VecAt(t, o)
<1>1. n \in Nat /\ \A i \in 1..n : s[i] \in W
  BY VecLength, VecElements
<1>2. q = [i \in 1..n |-> s[i]]
  BY VecSlotsOf DEF Vec!Contents, elements
<1> HIDE DEF q, n, s
<1>3. q \in [1..n -> W] /\ \A i \in 1..n : q[i] = s[i]
  BY <1>1, <1>2
<1>4. q \in Seq(W) /\ Len(q) = n
  BY <1>1, <1>3
<1> QED
  BY <1>3, <1>4 DEF q, n, s

-----------------------------------------------------------------------------
(* What a move of the vector of p to o does.                               *)
VecMoved(t, W, o, p, u) ==
  /\ VecInv(u, W) /\ u.alloc = t.alloc /\ u.hdr[o].length = t.hdr[p].length
  /\ \A i \in 1..t.hdr[p].length : VecAt(u, o)[i] = VecAt(t, p)[i]
  /\ u.hdr[p].ptr = Null /\ u.hdr[p].length = 0
  /\ \A x \in Objects \ {o, p} : Kept(t, u, VecOwn, x)

(* The header of a vector without an array                                 *)
LEMMA VecNoArray ==
  LET h == Vec!EmptyHeader IN
  h \in VecHeaders /\ h.ptr = Null /\ h.max = 0 /\ h.length = 0
<1> DEFINE h == Vec!EmptyHeader
<1>1. h \in PlainHeaders /\ h.ptr = Null /\ h.max = 0 /\ h.length = 0
  BY DEF PlainHeaders, Vec!EmptyHeader
<1> HIDE DEF h
<1>2. h \in VecHeaders /\ h.ptr = Null /\ h.max = 0 /\ h.length = 0
  BY <1>1 DEF VecHeaders
<1> QED
  BY <1>2 DEF h

(* The header of a vector that was never written fits no block.            *)
LEMMA VecNoneFits ==
  ASSUME NEW W, NEW h \in VecHeaders, h.ptr = Null, h.max = 0, h.length = 0
  PROVE  VecOwn[h] = Null /\ <<h, <<>>>> \in VecFit(W)
<1>1. VecOwn[h] = Null
  BY VecFields
<1>2. <<>> \in Seq(WithRaw(W)) /\ Len(<<>>) = 0 /\ h.length <= h.max
      /\ \A i \in 1..h.length : <<>>[i] \in W
  OBVIOUS
<1> QED
  BY <1>1, <1>2, VecFitIs

(* Within an allocator the array is handed over.                           *)
LEMMA VecHandOver ==
  ASSUME NEW W, NEW t, VecInv(t, W), NEW o \in Objects, NEW p \in Objects \ {o},
         t.hdr[o].ptr = Null, NEW u \in HeapStores(WithRaw(W), VecHeaders),
         u.live = t.live, u.mem = t.mem, u.alloc = t.alloc, u.hdr[o] = t.hdr[p],
         u.hdr[p].ptr = Null, u.hdr[p].max = 0, u.hdr[p].length = 0,
         \A x \in Objects \ {o, p} : u.hdr[x] = t.hdr[x]
  PROVE  VecMoved(t, W, o, p, u)
<1>0. t \in HeapStores(WithRaw(W), VecHeaders) /\ u.hdr[p] \in VecHeaders
  BY VecStore, StoreParts
<1>1. VecOwn[u.hdr[p]] = Null /\ <<u.hdr[p], <<>>>> \in VecFit(W)
  BY <1>0, VecNoneFits
<1>2. VecOwn[t.hdr[o]] = Null
  BY VecPtr
<1>3. Sound(t, WithRaw(W), VecHeaders, VecOwn, VecFit(W), Objects \ {o})
  BY <1>0, <1>2, SoundDrop DEF VecInv
<1>4. \A b \in t.live : u.mem[b] = t.mem[b]
  OBVIOUS
<1>5. /\ Sound(u, WithRaw(W), VecHeaders, VecOwn, VecFit(W), Objects)
      /\ OwnSlots(u, VecOwn, o) = OwnSlots(t, VecOwn, p)
      /\ \A x \in Objects \ {o, p} : Kept(t, u, VecOwn, x)
  <2>1. Sound(u, WithRaw(W), VecHeaders, VecOwn, VecFit(W), Objects)
    BY <1>1, <1>3, <1>4, SoundMove
  <2>2. OwnSlots(u, VecOwn, o) = OwnSlots(t, VecOwn, p)
    BY DEF OwnSlots
  <2>3. \A x \in Objects \ {o, p} : Kept(t, u, VecOwn, x)
    BY <1>1, <1>3, <1>4, SoundMove
  <2> QED
    BY <2>1, <2>2, <2>3
<1> QED
  BY <1>5 DEF VecMoved, VecInv, VecAt

(* Move assignment                                                         *)
LEMMA VecMove ==
  ASSUME kind # "nested", NEW W, NEW t, VecInv(t, W), NEW o \in Objects,
         NEW p \in Objects \ {o}, Blocks \ t.live # {}
  PROVE  VecMoved(t, W, o, p, Vec!Move(t, o, p))
<1> DEFINE d == Vec!ShmDestroy(t, o)
           u == Vec!Move(t, o, p)
           q == Vec!Contents(t, p)
           a == Vec!AppendCopy(d, o, q)
<1>1. VecDone(t, W, o, d, 0) /\ d.hdr[o].ptr = Null /\ d.live \subseteq t.live
  BY VecDestroy
<1>2. q \in Seq(W) /\ Len(q) = t.hdr[p].length /\ \A i \in 1..Len(q) : q[i] = VecAt(t, p)[i]
  BY VecContents
<1>3. u = IF t.alloc[o] = t.alloc[p]
          THEN [d EXCEPT !.hdr[o] = t.hdr[p], !.hdr[p] = Vec!EmptyHeader]
          ELSE Vec!ShmDestroy(a, p)
  BY DEF Vec!Move
<1> HIDE DEF d, q, u
<1>4. /\ VecInv(d, W) /\ d.hdr[o].length = 0 /\ Blocks \ d.live # {}
      /\ d.alloc = t.alloc /\ \A x \in Objects \ {o} : Kept(t, d, VecOwn, x)
  BY <1>1 DEF VecDone
<1>5. Kept(t, d, VecOwn, p)
  BY <1>4
<1>6. d.hdr[p] = t.hdr[p] /\ VecAt(d, p) = VecAt(t, p)
  BY <1>5 DEF Kept, VecAt
<1>7. CASE t.alloc[o] = t.alloc[p]
  <2> DEFINE g == Vec!EmptyHeader
  <2>1. /\ d \in HeapStores(WithRaw(W), VecHeaders) /\ d.hdr \in [Objects -> VecHeaders]
        /\ g \in VecHeaders /\ g.ptr = Null /\ g.max = 0 /\ g.length = 0
    BY <1>4, VecStore, VecNoArray
  <2> HIDE DEF g
  <2>a. /\ u \in HeapStores(WithRaw(W), VecHeaders) /\ u.live = d.live /\ u.mem = d.mem
        /\ u.alloc = d.alloc /\ u.hdr = [[d.hdr EXCEPT ![o] = d.hdr[p]] EXCEPT ![p] = g]
    <3>1. u = [d EXCEPT !.hdr[o] = d.hdr[p], !.hdr[p] = g]
      BY <1>3, <1>6, <1>7 DEF g
    <3> QED
      BY <2>1, <3>1 DEF HeapStores
  <2>b. /\ u.hdr[o] = d.hdr[p] /\ u.hdr[p] = g
        /\ \A x \in Objects \ {o, p} : u.hdr[x] = d.hdr[x]
    BY <2>1, <2>a
  <2>2. VecMoved(d, W, o, p, u)
    BY <1>1, <1>4, <2>1, <2>a, <2>b, VecHandOver
  <2>3. \A x \in Objects \ {o, p} : Kept(d, u, VecOwn, x) /\ Kept(t, d, VecOwn, x)
    BY <1>4, <2>2 DEF VecMoved
  <2>4. \A x \in Objects \ {o, p} : Kept(t, u, VecOwn, x)
    BY <2>3 DEF Kept
  <2> QED
    BY <1>4, <1>6, <2>2, <2>4 DEF VecMoved, u
<1>8. CASE t.alloc[o] # t.alloc[p]
  <2> DEFINE w == Vec!ShmDestroy(a, p)
  <2>0. u = w
    BY <1>3, <1>8
  <2>1. VecDone(d, W, o, a, Len(q)) /\ \A i \in 1..Len(q) : VecAt(a, o)[i] = q[i]
    BY <1>2, <1>4, VecAppendCopy
  <2> HIDE DEF a
  <2>2. VecInv(a, W) /\ a.alloc = d.alloc /\ a.hdr[o].length = Len(q)
        /\ \A x \in Objects \ {o} : Kept(d, a, VecOwn, x)
    BY <2>1 DEF VecDone
  <2>3. VecDone(a, W, p, w, 0) /\ w.hdr[p].ptr = Null
    BY <2>2, VecDestroy
  <2> HIDE DEF w
  <2>4. VecInv(w, W) /\ w.alloc = a.alloc /\ w.hdr[p].length = 0
        /\ \A x \in Objects \ {p} : Kept(a, w, VecOwn, x)
    BY <2>3 DEF VecDone
  <2>5. w.hdr[o] = a.hdr[o] /\ VecAt(w, o) = VecAt(a, o)
    BY <2>4 DEF Kept, VecAt
  <2>6. \A x \in Objects \ {o, p} : Kept(t, w, VecOwn, x)
    <3>1. \A x \in Objects \ {o, p} : Kept(t, d, VecOwn, x) /\ Kept(d, a, VecOwn, x)
                                      /\ Kept(a, w, VecOwn, x)
      BY <1>4, <2>2, <2>4
    <3> QED
      BY <3>1 DEF Kept
  <2>7. w.alloc = t.alloc /\ w.hdr[o].length = t.hdr[p].length
    BY <1>2, <1>4, <2>2, <2>4, <2>5
  <2>8. \A i \in 1..t.hdr[p].length : VecAt(w, o)[i] = VecAt(t, p)[i]
    BY <1>2, <2>1, <2>5
  <2> QED
    BY <2>0, <2>3, <2>4, <2>6, <2>7, <2>8 DEF VecMoved, u
<1> QED
  BY <1>7, <1>8

(* Every call keeps the invariant of vectors.                              *)
LEMMA VecStep ==
  ASSUME kind = "vector", VecInv(store, Values), Vec!Next
  PROVE  VecInv(store', Values)
<1>0. /\ kind # "nested" /\ MaxLength \in Nat
      /\ \A q \in Literals : q \in Seq(Values)
  BY BuffersAssumption
<1>a. ASSUME NEW u, Vec!Call(u) PROVE store' = u /\ Blocks \ store.live # {}
  <2>1. store' = u /\ Vec!Room(store) >= MaxLength + 1
    BY <1>a DEF Vec!Call, Vec!Becomes
  <2>2. Vec!Cardinality(Blocks \ store.live) = Cardinality(Blocks \ store.live)
    BY DEF Cardinality, Vec!Cardinality
  <2>3. Blocks \ store.live # {}
    BY <1>0, <2>1, <2>2, FS_EmptySet DEF Vec!Room
  <2> QED
    BY <2>1, <2>3
<1>b. \A o \in Objects : /\ Vec!Length(o) = store.hdr[o].length
                         /\ Vec!Length(o) \in Nat /\ store.hdr[o].max \in Nat
                         /\ Vec!Length(o) <= store.hdr[o].max
  BY VecLength DEF Vec!Length
<1>1. ASSUME NEW o \in Objects, NEW i \in 1..(Vec!Length(o) + 1), NEW v \in Values,
             Vec!EmplaceCall(o, i, v)
      PROVE  VecInv(store', Values)
  <2> DEFINE u == Vec!Emplace(store, o, i, v)
  <2>1. Vec!Call(u)
    BY <1>1, Zenon DEF Vec!EmplaceCall
  <2>2. i \in 1..(store.hdr[o].length + 1)
    BY <1>b
  <2> HIDE DEF u
  <2>3. store' = u /\ Blocks \ store.live # {}
    BY <1>a, <2>1
  <2>4. VecDone(store, Values, o, u, store.hdr[o].length + 1)
    BY <1>0, <2>2, <2>3, VecEmplace DEF u
  <2> QED
    BY <2>3, <2>4 DEF VecDone
<1>2. ASSUME NEW o \in Objects, NEW i \in 1..(Vec!Length(o) + 1),
             NEW j \in 1..(Vec!Length(o) + 1), Vec!EraseCall(o, i, j)
      PROVE  VecInv(store', Values)
  <2> DEFINE u == Vec!Erase(store, o, i, j)
  <2>1. Vec!Call(u) /\ i <= j
    BY <1>2, Zenon DEF Vec!EraseCall
  <2>2. i \in 1..(store.hdr[o].length + 1) /\ j \in Nat
    BY <1>b
  <2> HIDE DEF u
  <2>3. store' = u
    BY <1>a, <2>1
  <2>4. \E n \in Nat : VecDone(store, Values, o, u, n)
    BY <1>0, <2>1, <2>2, VecErase DEF u
  <2> QED
    BY <2>3, <2>4 DEF VecDone
<1>3. ASSUME NEW o \in Objects, NEW n \in 0..MaxLength, Vec!ReserveCall(o, n)
      PROVE  VecInv(store', Values)
  <2> DEFINE u == Vec!Reserve(store, o, n)
  <2>1. Vec!Call(u) /\ n \in Nat
    BY <1>0, <1>3 DEF Vec!ReserveCall
  <2> HIDE DEF u
  <2>3. store' = u /\ Blocks \ store.live # {}
    BY <1>a, <2>1
  <2>4. VecDone(store, Values, o, u, store.hdr[o].length)
    BY <1>0, <2>1, <2>3, VecReserve DEF u
  <2> QED
    BY <2>3, <2>4 DEF VecDone
<1>4. ASSUME NEW o \in Objects, NEW n \in Vec!SoundSizes(o), NEW v \in Values,
             Vec!ResizeCall(o, n, v)
      PROVE  VecInv(store', Values)
  <2> DEFINE u == Vec!Resize(store, o, n, v)
  <2>1. Vec!Call(u)
    BY <1>4, Zenon DEF Vec!ResizeCall
  <2>2. n \in Nat /\ (n < store.hdr[o].max => n <= store.hdr[o].length)
    BY <1>0, <1>b DEF Vec!SoundSizes
  <2> HIDE DEF u
  <2>3. store' = u /\ Blocks \ store.live # {}
    BY <1>a, <2>1
  <2>4. VecDone(store, Values, o, u, n)
    BY <1>0, <2>2, <2>3, VecResize DEF u
  <2> QED
    BY <2>3, <2>4 DEF VecDone
<1>5. ASSUME NEW o \in Objects, NEW i \in 1..Vec!Length(o), NEW v \in Values,
             Vec!Modify(o, i, v)
      PROVE  VecInv(store', Values)
  <2> DEFINE u == Vec!MakeAr(store, o, i, v)
  <2>1. Vec!DestroyAr(store, o, i) = store
    BY <1>0 DEF Vec!DestroyAr, elements
  <2>2. Vec!Call(u)
    BY <1>5, <2>1, Zenon DEF Vec!Modify
  <2>3. i \in 1..store.hdr[o].max
    BY <1>b
  <2> HIDE DEF u
  <2>4. store' = u
    BY <1>a, <2>2
  <2>5. VecDone(store, Values, o, u, store.hdr[o].length)
    BY <1>0, <2>3, VecSlot DEF u
  <2> QED
    BY <2>4, <2>5 DEF VecDone
<1>6. ASSUME NEW o \in Objects, NEW q \in Seq(Values),
             Vec!Call(Vec!Assign(store, o, q))
      PROVE  VecInv(store', Values)
  <2> DEFINE u == Vec!Assign(store, o, q)
  <2>1. Vec!Call(u)
    BY <1>6
  <2> HIDE DEF u
  <2>2. store' = u /\ Blocks \ store.live # {}
    BY <1>a, <2>1
  <2>3. VecDone(store, Values, o, u, Len(q))
    BY <1>0, <2>2, VecAssign DEF u
  <2> QED
    BY <2>2, <2>3 DEF VecDone
<1>7. ASSUME NEW o \in Objects, NEW p \in Objects \ {o}, Vec!MoveAssign(o, p)
      PROVE  VecInv(store', Values)
  <2> DEFINE u == Vec!Move(store, o, p)
  <2>1. Vec!Call(u)
    BY <1>7, Zenon DEF Vec!MoveAssign
  <2> HIDE DEF u
  <2>2. store' = u /\ Blocks \ store.live # {}
    BY <1>a, <2>1
  <2>3. VecMoved(store, Values, o, p, u)
    BY <1>0, <2>2, VecMove DEF u
  <2> QED
    BY <2>2, <2>3 DEF VecMoved
<1>8. ASSUME NEW o \in Objects, NEW q \in Literals, Vec!AssignStd(o, q)
      PROVE  VecInv(store', Values)
  <2>1. q \in Seq(Values) /\ Vec!Call(Vec!Assign(store, o, q))
    BY <1>0, <1>8 DEF Vec!AssignStd
  <2> QED
    BY <1>6, <2>1
<1>9. ASSUME NEW o \in Objects, NEW p \in Objects \ {o}, Vec!CopyAssign(o, p)
      PROVE  VecInv(store', Values)
  <2> DEFINE q == Vec!Contents(store, p)
  <2>1. q \in Seq(Values)
    BY <1>0, VecContents
  <2>2. Vec!Call(Vec!Assign(store, o, q))
    BY <1>9, Zenon DEF Vec!CopyAssign
  <2> HIDE DEF q
  <2> QED
    BY <1>6, <2>1, <2>2
<1> QED
  BY <1>1, <1>2, <1>3, <1>4, <1>5, <1>7, <1>8, <1>9 DEF Vec!Next

(* New vectors have no array.                                              *)
LEMMA VecInit ==
  ASSUME NEW W, NEW h \in VecHeaders, h.ptr = Null, h.max = 0, h.length = 0,
         NEW a \in [Objects -> Allocators],
         store = [mem |-> [b \in Blocks |-> <<>>], live |-> {},
                  hdr |-> [o \in Objects |-> h], alloc |-> a]
  PROVE  VecInv(store, W)
<1>1. VecOwn[h] = Null /\ <<h, <<>>>> \in VecFit(W)
  BY VecNoneFits
<1>2. /\ store \in HeapStores(WithRaw(W), VecHeaders) /\ store.live = {}
      /\ \A o \in Objects : store.hdr[o] = h
  BY EmptyIsSeq DEF HeapStores
<1>3. Sound(store, WithRaw(W), VecHeaders, VecOwn, VecFit(W), Objects)
  BY <1>1, <1>2, SoundNothing
<1> QED
  BY <1>3 DEF VecInv

(* What the invariant says of the headers and of the arrays.               *)
LEMMA VecPromises ==
  ASSUME kind = "vector", VecInv(store, Values)
  PROVE  BlocksOwnedOnce /\ BlocksFit
<1>1. BlocksOwnedOnce
  <2>1. \A o \in Objects : BufferOwned(o) = One(VecOwn[store.hdr[o]])
    <3> SUFFICES ASSUME NEW o \in Objects PROVE BufferOwned(o) = One(VecOwn[store.hdr[o]])
      OBVIOUS
    <3>1. BufferOwned(o) = Vec!Owned(o)
      BY DEF BufferOwned
    <3>2. VecOwn[store.hdr[o]] = store.hdr[o].ptr
      BY VecPtr
    <3> QED
      BY <3>1, <3>2 DEF Vec!Owned, elements, One
  <2> QED
    BY <2>1, SoundOwnedOnce DEF VecInv
<1>2. BlocksFit
  <2>1. \A o \in Objects : Vec!Fits(o)
    <3> SUFFICES ASSUME NEW o \in Objects PROVE Vec!Fits(o)
      OBVIOUS
    <3>1. store.hdr[o].length <= store.hdr[o].max /\ store.hdr[o].length \in Nat
      BY VecLength
    <3>2. Len(Vec!Slots(store, o)) = store.hdr[o].max
      BY VecSlots, VecSlotsOf
    <3> DEFINE q == Vec!Contents(store, o)
    <3>3. Len(q) = store.hdr[o].length /\ q \in Seq(Values)
      BY VecContents
    <3> HIDE DEF q
    <3>4. \A i \in 1..store.hdr[o].length : q[i] \in Values
      BY <3>1, <3>3
    <3> QED
      BY <3>1, <3>2, <3>4 DEF Vec!Fits, Vec!Length, q
  <2> QED
    BY <2>1 DEF BlocksFit, BufferFits
<1> QED
  BY <1>1, <1>2

-----------------------------------------------------------------------------
(* The invariant of vectors holds initially.                               *)
LEMMA VecInitially ==
  ASSUME Vec!Init
  PROVE  VecInv(store, Values)
<1> DEFINE h == Vec!EmptyHeader
<1>1. PICK a \in [Objects -> Allocators] :
        store = [mem |-> [b \in Blocks |-> <<>>], live |-> {},
                 hdr |-> [o \in Objects |-> h], alloc |-> a]
  BY DEF Vec!Init, Vec!EmptyStore
<1>2. h \in VecHeaders /\ h.ptr = Null /\ h.max = 0 /\ h.length = 0
  BY DEF VecHeaders, PlainHeaders, Vec!EmptyHeader
<1> HIDE DEF h
<1> QED
  BY <1>1, <1>2, VecInit

-----------------------------------------------------------------------------
(* The slot of a ring of n slots that a token leads to                     *)
SlotOf(k, n) == (k % n) + 1

(* That slot is one of the ring.                                           *)
LEMMA SlotIn ==
  ASSUME NEW k \in Nat, NEW n \in Nat, n > 0
  PROVE  SlotOf(k, n) \in 1..n
BY SMT DEF SlotOf

(* Tokens less than a lap apart lead to different slots.                   *)
LEMMA SlotDistinct ==
  ASSUME NEW j \in Nat, NEW k \in Nat, NEW n \in Nat, n > 0, j < k + n, k < j + n,
         SlotOf(j, n) = SlotOf(k, n)
  PROVE  j = k
<1> DEFINE a == j \div n
           b == k \div n
           r == k % n
<1>0. j % n = r /\ j % n \in Nat
  BY SMT DEF SlotOf
<1>1. /\ a \in Nat /\ b \in Nat /\ r \in 0..(n - 1)
      /\ j = n * a + r /\ k = n * b + r
  BY <1>0, SMT
<1> HIDE DEF a, b, r
<1>2. ASSUME NEW x \in Nat, NEW y \in Nat, x < y
      PROVE  n * x + n <= n * y
  <2>1. PICK d \in Nat : y = x + 1 + d
    BY <1>2, SMT
  <2>2. n * y = n * x + n + n * d /\ n * d >= 0
    BY <2>1, SMT
  <2> QED
    BY <2>2, SMT
<1>3. ~(a < b) /\ ~(b < a)
  BY <1>1, <1>2, SMT
<1> QED
  BY <1>1, <1>3, SMT

(* ring, marked ring: the tokens stay within the ring; between them is a   *)
(* value in every slot, and in a ring with marks nowhere else.             *)
RingOk(h, q) ==
  /\ h \in RingHeaders /\ h.head <= h.tail /\ h.tail <= h.head + h.length
  /\ \A k \in h.head..(h.tail - 1) : q[SlotOf(k, h.length)] \in Values
  /\ kind = "marked_ring" => \A i \in 1..h.length : q[i] \in Values =>
       \E k \in h.head..(h.tail - 1) : i = SlotOf(k, h.length)

Entries == Values \cup {Null}

RingInv(t) == VecInv(t, Entries) /\ \A o \in Objects : RingOk(t.hdr[o], VecAt(t, o))

(* The header of a ring is one of a vector, with two tokens.               *)
LEMMA RingFields ==
  ASSUME NEW h \in RingHeaders
  PROVE  h \in VecHeaders /\ h.head \in Nat /\ h.tail \in Nat /\ h.length \in Nat
BY DEF RingHeaders, VecHeaders

(* The tokens of a ring are at most one lap apart.                         *)
LEMMA RingTokens ==
  ASSUME NEW h, NEW q, RingOk(h, q)
  PROVE  /\ h \in RingHeaders /\ h.head \in Nat /\ h.tail \in Nat /\ h.length \in Nat
         /\ h.head <= h.tail /\ h.tail <= h.head + h.length
<1>1. h \in RingHeaders /\ h.head <= h.tail /\ h.tail <= h.head + h.length
  BY DEF RingOk
<1> QED
  BY <1>1, RingFields

(* The same tokens in a copy of the slots                                  *)
LEMMA RingSame ==
  ASSUME NEW h, NEW q, RingOk(h, q), NEW g \in RingHeaders, g.head = h.head, g.tail = h.tail,
         g.length = h.length, NEW r, \A i \in 1..h.length : r[i] = q[i]
  PROVE  RingOk(g, r)
<1>0. h.head \in Nat /\ h.tail \in Nat /\ h.length \in Nat
      /\ h.head <= h.tail /\ h.tail <= h.head + h.length
  BY RingTokens
<1>1. \A k \in g.head..(g.tail - 1) : r[SlotOf(k, g.length)] \in Values
  <2> SUFFICES ASSUME NEW k \in h.head..(h.tail - 1) PROVE r[SlotOf(k, h.length)] \in Values
    OBVIOUS
  <2>1. k \in Nat /\ h.length > 0
    BY <1>0
  <2>2. SlotOf(k, h.length) \in 1..h.length
    BY <1>0, <2>1, SlotIn
  <2> QED
    BY <2>2 DEF RingOk
<1>2. kind = "marked_ring" => \A i \in 1..h.length : r[i] \in Values =>
        \E k \in h.head..(h.tail - 1) : i = SlotOf(k, h.length)
  BY DEF RingOk
<1> QED
  BY <1>0, <1>1, <1>2 DEF RingOk

(* An empty ring without values                                            *)
LEMMA RingEmpty ==
  ASSUME NEW h \in RingHeaders, h.head = 0, h.tail = 0, NEW q,
         \A i \in 1..h.length : q[i] \notin Values
  PROVE  RingOk(h, q)
<1>0. h.length \in Nat
  BY RingFields
<1>1. \A k \in h.head..(h.tail - 1) : q[SlotOf(k, h.length)] \in Values
  OBVIOUS
<1>2. h.head <= h.tail /\ h.tail <= h.head + h.length
  BY <1>0
<1> QED
  BY <1>1, <1>2 DEF RingOk

(* A value at the tail of a ring that is not full                          *)
LEMMA RingPut ==
  ASSUME NEW h, NEW S, NEW q \in Seq(S), RingOk(h, q), h.length <= Len(q), h.tail < h.head + h.length,
         NEW v \in Values, NEW g \in RingHeaders, g.head = h.head, g.tail = h.tail + 1,
         g.length = h.length, NEW r, r = [q EXCEPT ![SlotOf(h.tail, h.length)] = v]
  PROVE  RingOk(g, r)
<1> DEFINE n == h.length
           s == SlotOf(h.tail, n)
<1>0. h.head \in Nat /\ h.tail \in Nat /\ n \in Nat /\ n > 0 /\ h.head <= h.tail
  BY RingTokens
<1>c. s \in 1..n
  BY <1>0, SlotIn, Zenon
<1>a. s \in 1..n /\ s \in 1..Len(q)
  BY <1>0, <1>c
<1>b. r[s] = v /\ \A i \in 1..n : i # s => r[i] = q[i]
  BY <1>0, <1>a
<1>1. \A k \in h.head..h.tail : r[SlotOf(k, n)] \in Values
  <2> SUFFICES ASSUME NEW k \in h.head..h.tail PROVE r[SlotOf(k, n)] \in Values
    OBVIOUS
  <2>0. k \in Nat
    BY <1>0
  <2>1. k \in Nat /\ SlotOf(k, n) \in 1..n
    BY <1>0, <2>0, SlotIn, Zenon
  <2>2. CASE SlotOf(k, n) = s
    BY <1>b, <2>2
  <2>3. CASE SlotOf(k, n) # s
    <3>1. k \in h.head..(h.tail - 1)
      BY <1>0, <2>1, <2>3
    <3>2. q[SlotOf(k, n)] \in Values
      BY <3>1 DEF RingOk
    <3> QED
      BY <1>b, <2>1, <2>3, <3>2
  <2> QED
    BY <2>2, <2>3
<1>2. ASSUME kind = "marked_ring", NEW i \in 1..n, r[i] \in Values
      PROVE  \E k \in h.head..h.tail : i = SlotOf(k, n)
  <2>1. CASE i = s
    BY <1>0, <2>1
  <2>2. CASE i # s
    <3>1. q[i] \in Values
      BY <1>b, <1>2, <2>2
    <3>2. \E k \in h.head..(h.tail - 1) : i = SlotOf(k, n)
      BY <1>2, <3>1 DEF RingOk
    <3> QED
      BY <1>0, <3>2
  <2> QED
    BY <2>1, <2>2
<1> HIDE DEF n, s
<1>3. g.length = n /\ g.tail - 1 = h.tail /\ g.head = h.head
  BY <1>0 DEF n
<1>4. g.head <= g.tail /\ g.tail <= g.head + g.length
  BY <1>0, <1>3 DEF n
<1> QED
  BY <1>1, <1>2, <1>3, <1>4 DEF RingOk

(* The entry at the head is passed, without marks.                         *)
LEMMA RingPass ==
  ASSUME kind # "marked_ring", NEW h, NEW q, RingOk(h, q), h.head < h.tail,
         NEW g \in RingHeaders, g.head = h.head + 1, g.tail = h.tail, g.length = h.length
  PROVE  RingOk(g, q)
<1>0. /\ h.head \in Nat /\ h.tail \in Nat /\ h.length \in Nat
      /\ h.head <= h.tail /\ h.tail <= h.head + h.length
  BY RingTokens
<1>1. \A k \in g.head..(g.tail - 1) : k \in h.head..(h.tail - 1)
  BY <1>0
<1>2. \A k \in g.head..(g.tail - 1) : q[SlotOf(k, g.length)] \in Values
  BY <1>1 DEF RingOk
<1> QED
  BY <1>0, <1>2 DEF RingOk

(* With marks its slot is cleared.                                         *)
LEMMA RingTake ==
  ASSUME NEW h, NEW S, NEW q \in Seq(S), RingOk(h, q), h.length <= Len(q), h.head < h.tail,
         NEW g \in RingHeaders, g.head = h.head + 1, g.tail = h.tail,
         g.length = h.length, NEW r, r = [q EXCEPT ![SlotOf(h.head, h.length)] = Null]
  PROVE  RingOk(g, r)
<1> DEFINE n == h.length
           s == SlotOf(h.head, n)
<1>0. /\ h.head \in Nat /\ h.tail \in Nat /\ n \in Nat /\ n > 0 /\ h.tail <= h.head + n
      /\ Null \notin Values
  BY RingTokens, BuffersAssumption
<1>c. s \in 1..n
  BY <1>0, SlotIn, Zenon
<1>a. s \in 1..n /\ s \in 1..Len(q)
  BY <1>0, <1>c
<1>b. r[s] = Null /\ \A i \in 1..n : i # s => r[i] = q[i]
  BY <1>0, <1>a
<1>1. \A k \in (h.head + 1)..(h.tail - 1) : r[SlotOf(k, n)] \in Values
  <2> SUFFICES ASSUME NEW k \in (h.head + 1)..(h.tail - 1) PROVE r[SlotOf(k, n)] \in Values
    OBVIOUS
  <2>0. k \in Nat /\ k # h.head /\ k < h.head + n /\ h.head < k + n
    BY <1>0
  <2>1. SlotOf(k, n) \in 1..n
    BY <1>0, <2>0, SlotIn, Zenon
  <2>2. SlotOf(k, n) # s
    BY <1>0, <2>0, SlotDistinct
  <2>3. k \in h.head..(h.tail - 1)
    BY <1>0
  <2>4. q[SlotOf(k, n)] \in Values
    BY <2>3 DEF RingOk
  <2> QED
    BY <1>b, <2>1, <2>2, <2>4
<1>2. ASSUME kind = "marked_ring", NEW i \in 1..n, r[i] \in Values
      PROVE  \E k \in (h.head + 1)..(h.tail - 1) : i = SlotOf(k, n)
  <2>1. i # s /\ q[i] \in Values
    BY <1>0, <1>b, <1>2
  <2>2. PICK k \in h.head..(h.tail - 1) : i = SlotOf(k, n)
    BY <1>2, <2>1 DEF RingOk
  <2>3. k # h.head
    BY <2>1, <2>2
  <2>4. k \in (h.head + 1)..(h.tail - 1)
    BY <1>0, <2>3
  <2> QED
    BY <2>2, <2>4
<1> HIDE DEF n, s
<1>3. g.length = n /\ g.tail = h.tail /\ g.head = h.head + 1
  BY DEF n
<1>4. g.head <= g.tail /\ g.tail <= g.head + g.length
  BY <1>0, <1>3
<1> QED
  BY <1>1, <1>2, <1>3, <1>4 DEF RingOk

(* As many slots of a ring with marks have values as lie between its tokens.*)
LEMMA RingCount ==
  ASSUME kind = "marked_ring", NEW h, NEW q, RingOk(h, q)
  PROVE  h.tail - h.head = Cardinality({i \in 1..h.length : q[i] \in Values})
<1> DEFINE n == h.length
           K == h.head..(h.tail - 1)
           I == {i \in 1..n : q[i] \in Values}
           f == [k \in K |-> SlotOf(k, n)]
<1>0. h.head \in Nat /\ h.tail \in Nat /\ n \in Nat /\ h.head <= h.tail /\ h.tail <= h.head + n
  BY RingTokens
<1>a. \A k \in K : k \in Nat /\ n > 0
  BY <1>0
<1>1. \A k \in K : k \in Nat /\ n > 0 /\ SlotOf(k, n) \in 1..n
  BY <1>0, <1>a, SlotIn, Zenon
<1>2. f \in [K -> I]
  BY <1>1 DEF RingOk
<1>3. \A j, k \in K : SlotOf(j, n) = SlotOf(k, n) => j = k
  <2> SUFFICES ASSUME NEW j \in K, NEW k \in K, SlotOf(j, n) = SlotOf(k, n) PROVE j = k
    OBVIOUS
  <2>1. j < k + n /\ k < j + n /\ j \in Nat /\ k \in Nat /\ n > 0
    BY <1>0
  <2> QED
    BY <1>0, <2>1, SlotDistinct
<1>4. \A i \in I : \E k \in K : i = SlotOf(k, n)
  BY DEF RingOk
<1>5. f \in Bijection(K, I)
  <2>1. \A j, k \in K : f[j] = f[k] => j = k
    BY <1>3
  <2>2. \A i \in I : \E k \in K : f[k] = i
    BY <1>4
  <2> HIDE DEF f, K, I
  <2> QED
    BY <1>2, <2>1, <2>2 DEF Bijection, Injection, Surjection, IsInjective
<1>6. IsFiniteSet(K) /\ Cardinality(K) = h.tail - h.head
  <2>1. h.head \in Int /\ h.tail - 1 \in Int
    BY <1>0
  <2>2. /\ IsFiniteSet(h.head..(h.tail - 1))
        /\ Cardinality(h.head..(h.tail - 1)) =
             IF h.head > h.tail - 1 THEN 0 ELSE (h.tail - 1) - h.head + 1
    BY <2>1, FS_Interval
  <2> QED
    BY <1>0, <2>2
<1>7. Cardinality(I) = Cardinality(K)
  BY <1>5, <1>6, FS_Bijection DEF ExistsBijection
<1> QED
  BY <1>6, <1>7

-----------------------------------------------------------------------------
(* The vectors inside rings are the vectors above.                         *)
LEMMA RingVector ==
  ASSUME NEW t, NEW o
  PROVE  /\ Ring!V!Slots(t, o) = Vec!Slots(t, o)
         /\ Ring!V!Contents(t, o) = Vec!Contents(t, o)
         /\ Ring!V!ShmDestroy(t, o) = Vec!ShmDestroy(t, o)
<1>1. Ring!V!Slots(t, o) = Vec!Slots(t, o)
  BY Zenon DEF Ring!V!Slots, Vec!Slots
<1>2. Ring!V!Contents(t, o) = Vec!Contents(t, o)
  BY Zenon DEF Ring!V!Slots, Vec!Slots, Ring!V!Contents, Vec!Contents
<1>3. \A w, x, n : Ring!V!SetLength(w, x, n) = Vec!SetLength(w, x, n)
  BY Zenon DEF Ring!V!SetLength, Vec!SetLength, Ring!V!Padded, Vec!Padded
<1>4. \A w, x, i, k : Ring!V!ShiftLeft(w, x, i, k) = Vec!ShiftLeft(w, x, i, k)
  <2> TAKE w, x, i, k
  <2> QED
  BY Zenon DEF Ring!V!ShiftLeft, Vec!ShiftLeft, Ring!V!DestroyAr, Vec!DestroyAr,
    Ring!V!Slots, Vec!Slots, Ring!V!Release, Vec!Release
<1>5. \A w, x, i, j : Ring!V!Erase(w, x, i, j) = Vec!Erase(w, x, i, j)
  <2> TAKE w, x, i, j
  <2> DEFINE n == w.hdr[x].length
             k == (IF j > n THEN n + 1 ELSE j) - i
             s == Vec!ShiftLeft(w, x, i, k)
  <2>1. Vec!Erase(w, x, i, j) = IF i > n \/ k = 0 THEN w ELSE Vec!SetLength(s, x, n - k)
    BY Zenon DEF Vec!Erase
  <2>2. Ring!V!Erase(w, x, i, j) = IF i > n \/ k = 0 THEN w
                                 ELSE Ring!V!SetLength(Ring!V!ShiftLeft(w, x, i, k), x, n - k)
    BY Zenon DEF Ring!V!Erase
  <2>3. Ring!V!ShiftLeft(w, x, i, k) = s
    BY <1>4
  <2> HIDE DEF s, n, k
  <2>4. Ring!V!SetLength(s, x, n - k) = Vec!SetLength(s, x, n - k)
    BY <1>3
  <2> QED
    BY <2>1, <2>2, <2>3, <2>4
<1>6. Ring!V!ShmDestroy(t, o) = Vec!ShmDestroy(t, o)
  <2> DEFINE e == Vec!Erase(t, o, 1, t.hdr[o].length + 1)
  <2>1. Ring!V!Erase(t, o, 1, t.hdr[o].length + 1) = e
    BY <1>5
  <2> HIDE DEF e
  <2>2. Ring!V!ShmDestroy(t, o) =
          IF t.hdr[o].ptr = Null THEN t
          ELSE [Vec!Release(e, t.hdr[o].ptr) EXCEPT !.hdr[o] = Vec!EmptyHeader]
    BY <2>1, Zenon DEF Ring!V!ShmDestroy, Ring!V!Release, Vec!Release,
      Ring!V!EmptyHeader, Vec!EmptyHeader
  <2> QED
    BY <2>2, Zenon DEF Vec!ShmDestroy, e
<1> QED
  BY <1>1, <1>2, <1>6

(* So resize() is that of vectors,                                         *)
LEMMA RingResize ==
  ASSUME NEW t, NEW o, NEW n, NEW v
  PROVE  Ring!V!Resize(t, o, n, v) = Vec!Resize(t, o, n, v)
BY Zenon DEF Ring!V!Slots, Vec!Slots, Ring!V!Resize, Vec!Resize,
  Ring!V!SetLength, Vec!SetLength, Ring!V!Padded, Vec!Padded,
  Ring!V!GrowVector, Vec!GrowVector, Ring!V!MoveArray, Vec!MoveArray,
  Ring!V!MakeAr, Vec!MakeAr, Ring!V!Allocate, Vec!Allocate,
  Ring!V!FreeBlock, Vec!FreeBlock, Ring!V!Release, Vec!Release

(* and so is the copy of elements one by one,                              *)
LEMMA RingAppend ==
  ASSUME NEW t, NEW o, NEW q
  PROVE  Ring!V!AppendCopy(t, o, q) = Vec!AppendCopy(t, o, q)
<1>1. \A w, x, m, f : Ring!V!GrowVector(w, x, m, f) = Vec!GrowVector(w, x, m, f)
  <2> TAKE w, x, m, f
  <2> QED
  BY Zenon DEF Ring!V!Slots, Vec!Slots, Ring!V!Padded, Vec!Padded,
    Ring!V!GrowVector, Vec!GrowVector, Ring!V!MoveArray, Vec!MoveArray,
    Ring!V!MakeAr, Vec!MakeAr, Ring!V!Allocate, Vec!Allocate,
    Ring!V!FreeBlock, Vec!FreeBlock, Ring!V!Release, Vec!Release
<1>2. \A w, x : Ring!V!MakeRoom(w, x) = Vec!MakeRoom(w, x)
  BY <1>1, Zenon DEF Ring!V!MakeRoom, Vec!MakeRoom, Ring!V!Growth, Vec!Growth
<1>3. \A w, x, v : Ring!V!EmplaceBack(w, x, v) = Vec!EmplaceBack(w, x, v)
  <2> TAKE w, x, v
  <2> DEFINE r == Vec!MakeRoom(w, x)
  <2>1. Ring!V!MakeRoom(w, x) = r
    BY <1>2
  <2> HIDE DEF r
  <2> DEFINE n == w.hdr[x].length + 1
  <2> HIDE DEF n
  <2>2. Ring!V!MakeAr(r, x, n, v) = Vec!MakeAr(r, x, n, v)
    BY Zenon DEF Ring!V!MakeAr, Vec!MakeAr, Ring!V!Allocate, Vec!Allocate,
      Ring!V!FreeBlock, Vec!FreeBlock
  <2>3. Ring!V!EmplaceBack(w, x, v) = [Vec!MakeAr(r, x, n, v) EXCEPT !.hdr[x].length = n]
    BY <2>1, <2>2, Zenon DEF Ring!V!EmplaceBack, n
  <2>4. Vec!EmplaceBack(w, x, v) = [Vec!MakeAr(r, x, n, v) EXCEPT !.hdr[x].length = n]
    BY Zenon DEF Vec!EmplaceBack, n, r
  <2> QED
    BY <2>3, <2>4
<1>4. \A w, x, n : Ring!V!Reserve(w, x, n) = Vec!Reserve(w, x, n)
  BY <1>1, Zenon DEF Ring!V!Reserve, Vec!Reserve
<1> QED
  BY <1>3, <1>4, Zenon DEF Ring!V!AppendCopy, Vec!AppendCopy

(* copying and moving.                                                     *)
LEMMA RingCopies ==
  ASSUME NEW t, NEW o, NEW p, NEW q
  PROVE  /\ Ring!V!Assign(t, o, q) = Vec!Assign(t, o, q)
         /\ Ring!V!Move(t, o, p) = Vec!Move(t, o, p)
<1>1. Ring!V!Assign(t, o, q) = Vec!Assign(t, o, q)
  BY RingVector, RingAppend, Zenon DEF Ring!V!Assign, Vec!Assign
<1>2. Ring!V!Move(t, o, p) = Vec!Move(t, o, p)
  <2>1. Ring!V!AppendCopy(Vec!ShmDestroy(t, o), o, Vec!Contents(t, p))
        = Vec!AppendCopy(Vec!ShmDestroy(t, o), o, Vec!Contents(t, p))
    BY RingAppend
  <2>2. \A w : Ring!V!ShmDestroy(w, p) = Vec!ShmDestroy(w, p)
    BY RingVector
  <2> QED
    BY <2>1, <2>2, RingVector, Zenon DEF Ring!V!Move, Vec!Move,
      Ring!V!EmptyHeader, Vec!EmptyHeader
<1> QED
  BY <1>1, <1>2

(* Another header and one other slot of a ring that has an array           *)
LEMMA RingWrite ==
  ASSUME NEW t, RingInv(t), NEW o \in Objects, t.hdr[o].ptr # Null,
         NEW h \in RingHeaders, h.ptr = t.hdr[o].ptr, h.max = t.hdr[o].max,
         h.length = t.hdr[o].length,
         NEW u \in HeapStores(WithRaw(Entries), VecHeaders), u.live = t.live, u.alloc = t.alloc,
         u.hdr[o] = h, \A x \in Objects \ {o} : u.hdr[x] = t.hdr[x],
         NEW q \in Seq(WithRaw(Entries)), Len(q) = t.hdr[o].max, u.mem[t.hdr[o].ptr] = q,
         \A i \in 1..t.hdr[o].length : q[i] \in Entries,
         \A d \in t.live \ {t.hdr[o].ptr} : u.mem[d] = t.mem[d], RingOk(h, q)
  PROVE  RingInv(u)
<1> DEFINE n == t.hdr[o].length
<1>1. n \in Nat /\ n <= t.hdr[o].max /\ VecInv(t, Entries)
  BY VecLength DEF RingInv
<1>2. u.hdr[o].ptr = t.hdr[o].ptr /\ u.hdr[o].max = t.hdr[o].max /\ u.hdr[o].length = n
      /\ \A i \in 1..n : q[i] \in Entries
  OBVIOUS
<1> HIDE DEF n
<1>3. VecDone(t, Entries, o, u, n) /\ VecAt(u, o) = q
  BY <1>1, <1>2, VecWrite
<1>4. \A x \in Objects \ {o} : u.hdr[x] = t.hdr[x] /\ VecAt(u, x) = VecAt(t, x)
  BY <1>3 DEF VecDone, Kept, VecAt
<1>5. \A x \in Objects : RingOk(u.hdr[x], VecAt(u, x))
  BY <1>3, <1>4 DEF RingInv
<1> QED
  BY <1>3, <1>5 DEF RingInv, VecDone

(* One object changes, and is as it should be.                             *)
LEMMA RingChange ==
  ASSUME NEW t, RingInv(t), NEW o \in Objects, NEW u, NEW n, VecDone(t, Entries, o, u, n),
         RingOk(u.hdr[o], VecAt(u, o))
  PROVE  RingInv(u)
<1>1. \A x \in Objects \ {o} : u.hdr[x] = t.hdr[x] /\ VecAt(u, x) = VecAt(t, x)
  BY DEF VecDone, Kept, VecAt
<1>2. \A x \in Objects : RingOk(u.hdr[x], VecAt(u, x))
  BY <1>1 DEF RingInv
<1> QED
  BY <1>2 DEF RingInv, VecDone

(* The header of the vector gets tokens.                                   *)
LEMMA RingWith ==
  ASSUME NEW W, NEW t, VecInv(t, W), NEW o \in Objects, NEW head \in Nat, NEW tail \in Nat
  PROVE  LET u == Ring!WithTokens(t, o, head, tail) IN
         /\ VecDone(t, W, o, u, t.hdr[o].length) /\ u.hdr[o] \in RingHeaders
         /\ u.hdr[o].head = head /\ u.hdr[o].tail = tail /\ u.hdr[o].ptr = t.hdr[o].ptr
         /\ u.live = t.live /\ VecAt(u, o) = VecAt(t, o)
<1> DEFINE g == t.hdr[o]
           h == [ptr |-> g.ptr, max |-> g.max, length |-> g.length, head |-> head, tail |-> tail]
           u == Ring!WithTokens(t, o, head, tail)
           s == VecAt(t, o)
<1>1. t \in HeapStores(WithRaw(W), VecHeaders) /\ g \in VecHeaders
  BY VecStore
<1>2. g.ptr \in Blocks \cup {Null} /\ g.max \in Nat /\ g.length \in Nat /\ g.length <= g.max
  BY <1>1, VecFields, VecLength
<1>3. u = [t EXCEPT !.hdr[o] = h]
  BY DEF Ring!WithTokens
<1>4. h \in RingHeaders /\ h.ptr = g.ptr /\ h.max = g.max /\ h.length = g.length
      /\ h.head = head /\ h.tail = tail
  BY <1>2 DEF RingHeaders
<1>5. h \in VecHeaders
  BY <1>4, RingFields
<1> HIDE DEF h, u
<1>6. /\ u \in HeapStores(WithRaw(W), VecHeaders) /\ u.hdr[o] = h
      /\ \A x \in Objects \ {o} : u.hdr[x] = t.hdr[x]
      /\ u.live = t.live /\ u.mem = t.mem /\ u.alloc = t.alloc
  BY <1>1, <1>3, <1>5, PutHeader
<1>7. /\ s \in Seq(WithRaw(W)) /\ Len(s) = t.hdr[o].max
      /\ \A i \in 1..t.hdr[o].length : s[i] \in W
      /\ t.hdr[o].ptr # Null => t.mem[t.hdr[o].ptr] = s
  BY VecSlots, VecElements, VecMem
<1> HIDE DEF s
<1>8. VecDone(t, W, o, u, t.hdr[o].length) /\ VecAt(u, o) = s
  <2>1. t.hdr[o].ptr # Null => u.mem[t.hdr[o].ptr] = s
    BY <1>6, <1>7
  <2>2. u.hdr[o].ptr = t.hdr[o].ptr /\ u.hdr[o].max = t.hdr[o].max
        /\ u.hdr[o].length = t.hdr[o].length
    BY <1>4, <1>6
  <2>3. \A d \in t.live \ {t.hdr[o].ptr} : u.mem[d] = t.mem[d]
    BY <1>6
  <2> QED
    BY <1>2, <1>6, <1>7, <2>1, <2>2, <2>3, VecWrite
<1> QED
  BY <1>4, <1>6, <1>8 DEF u, s

-----------------------------------------------------------------------------
(* What the new slots hold                                                 *)
LEMMA VecGrownSlots ==
  ASSUME kind # "nested", NEW W, NEW t, VecInv(t, W), NEW o \in Objects, Blocks \ t.live # {},
         NEW m \in Nat, NEW fill \in Seq(W), m >= t.hdr[o].max,
         t.hdr[o].length + Len(fill) <= m, NEW i \in 1..Len(fill)
  PROVE  VecAt(Vec!GrowVector(t, o, m, fill), o)[t.hdr[o].length + i] = fill[i]
<1> DEFINE u == Vec!GrowVector(t, o, m, fill)
<1>1. \A j \in 1..Len(fill) : VecAt(u, o)[t.hdr[o].length + j] = fill[j]
  BY VecGrow
<1> HIDE DEF u
<1> QED
  BY <1>1 DEF u

(* A resize of a vector without an array writes v to all n slots.          *)
LEMMA VecFill ==
  ASSUME kind # "nested", NEW W, NEW t, VecInv(t, W), NEW o \in Objects, Blocks \ t.live # {},
         t.hdr[o].max = 0, NEW n \in Nat, n > 0, NEW v \in W
  PROVE  LET u == Vec!Resize(t, o, n, v) IN
         VecDone(t, W, o, u, n) /\ \A i \in 1..n : VecAt(u, o)[i] = v
<1> DEFINE fill == [i \in 1..(n - t.hdr[o].length) |-> v]
           w == Vec!GrowVector(t, o, n, fill)
           u == Vec!SetLength(w, o, n)
<1>0. t.hdr[o].length = 0
  BY VecLength
<1>1. Vec!Resize(t, o, n, v) = u
  BY DEF Vec!Resize
<1>2. n - t.hdr[o].length = n
  BY <1>0
<1>3. fill = [i \in 1..n |-> v]
  BY <1>2
<1>4. fill \in Seq(W) /\ Len(fill) = n /\ \A i \in 1..n : fill[i] = v
  <2> HIDE DEF fill
  <2> QED
    BY <1>3
<1> HIDE DEF fill
<1>5. n >= t.hdr[o].max /\ t.hdr[o].length + Len(fill) = n /\ t.hdr[o].length + Len(fill) <= n
  BY <1>0, <1>4
<1>6. VecDone(t, W, o, w, t.hdr[o].length)
  BY <1>4, <1>5, VecGrow
<1>7. w.hdr[o].max = n
  <2>1. w.hdr[o].max = IF n < t.hdr[o].max THEN t.hdr[o].max ELSE n
    BY <1>4, <1>5, VecGrow
  <2> QED
    BY <1>5, <2>1
<1>8. ASSUME NEW i \in 1..Len(fill) PROVE VecAt(w, o)[t.hdr[o].length + i] = fill[i]
  <2>1. fill \in Seq(W) /\ n >= t.hdr[o].max /\ t.hdr[o].length + Len(fill) <= n
    BY <1>4, <1>5
  <2> QED
    BY <2>1, VecGrownSlots
<1> HIDE DEF w
<1>9. \A i \in 1..n : VecAt(w, o)[i] = v
  <2> SUFFICES ASSUME NEW i \in 1..n PROVE VecAt(w, o)[i] = v
    OBVIOUS
  <2>1. i \in 1..Len(fill) /\ t.hdr[o].length + i = i
    BY <1>0, <1>4
  <2>2. VecAt(w, o)[t.hdr[o].length + i] = fill[i]
    BY <1>5, <1>8, <2>1
  <2> QED
    BY <1>4, <2>1, <2>2
<1>10. VecInv(w, W) /\ \A i \in 1..n : VecAt(w, o)[i] \in W
  BY <1>6, <1>9 DEF VecDone
<1>11. VecDone(w, W, o, u, n)
  BY <1>7, <1>10, VecSetLength
<1>12. \A i \in 1..n : VecAt(u, o)[i] = VecAt(w, o)[i]
  BY <1>7, <1>10, VecSetLength
<1> HIDE DEF u
<1>13. VecDone(t, W, o, u, n)
  BY <1>6, <1>11, VecThen
<1> QED
  BY <1>1, <1>9, <1>12, <1>13

(* A new ring is empty.                                                    *)
LEMMA RingConstruct ==
  ASSUME kind # "nested", NEW t, RingInv(t), NEW o \in Objects, Blocks \ t.live # {},
         t.hdr[o].ptr = Null, NEW depth \in Nat, depth > 0
  PROVE  RingInv(Ring!Construct(t, o, depth))
<1> DEFINE w == Vec!Resize(t, o, depth, Null)
           u == Ring!WithTokens(w, o, 0, 0)
<1>0. Null \in Entries /\ Null \notin Values
  BY BuffersAssumption DEF Entries
<1>1. Ring!Construct(t, o, depth) = u
  BY RingResize DEF Ring!Construct
<1>2. VecInv(t, Entries) /\ t.hdr[o].max = 0
  BY VecEmpty DEF RingInv
<1>3. VecDone(t, Entries, o, w, depth) /\ \A i \in 1..depth : VecAt(w, o)[i] = Null
  BY <1>0, <1>2, VecFill
<1> HIDE DEF w
<1>4. VecInv(w, Entries) /\ w.hdr[o].length = depth
  BY <1>3 DEF VecDone
<1>5. /\ VecDone(w, Entries, o, u, depth) /\ u.hdr[o] \in RingHeaders
      /\ u.hdr[o].head = 0 /\ u.hdr[o].tail = 0 /\ VecAt(u, o) = VecAt(w, o)
  BY <1>4, RingWith
<1> HIDE DEF u
<1>6. VecDone(t, Entries, o, u, depth)
  BY <1>3, <1>5, VecThen
<1>7. RingOk(u.hdr[o], VecAt(u, o))
  <2>1. u.hdr[o].length = depth
    BY <1>6 DEF VecDone
  <2>2. \A i \in 1..u.hdr[o].length : VecAt(u, o)[i] \notin Values
    BY <1>0, <1>3, <1>5, <2>1
  <2> QED
    BY <1>5, <2>2, RingEmpty
<1> QED
  BY <1>1, <1>6, <1>7, RingChange

(* So is one that was destroyed.                                           *)
LEMMA RingDestroy ==
  ASSUME kind # "nested", NEW t, RingInv(t), NEW o \in Objects
  PROVE  RingInv(Ring!ShmDestroy(t, o))
<1> DEFINE w == Vec!ShmDestroy(t, o)
           u == Ring!WithTokens(w, o, 0, 0)
<1>1. CASE t.hdr[o].ptr = Null
  BY <1>1 DEF Ring!ShmDestroy
<1>2. CASE t.hdr[o].ptr # Null
  <2>1. Ring!ShmDestroy(t, o) = u
    BY <1>2, RingVector DEF Ring!ShmDestroy
  <2>2. VecDone(t, Entries, o, w, 0)
    BY VecDestroy DEF RingInv
  <2> HIDE DEF w
  <2>3. VecInv(w, Entries) /\ w.hdr[o].length = 0
    BY <2>2 DEF VecDone
  <2>4. /\ VecDone(w, Entries, o, u, 0) /\ u.hdr[o] \in RingHeaders
        /\ u.hdr[o].head = 0 /\ u.hdr[o].tail = 0
    BY <2>3, RingWith
  <2> HIDE DEF u
  <2>5. VecDone(t, Entries, o, u, 0)
    BY <2>2, <2>4, VecThen
  <2>6. RingOk(u.hdr[o], VecAt(u, o))
    <3>1. \A i \in 1..u.hdr[o].length : VecAt(u, o)[i] \notin Values
      BY <2>5 DEF VecDone
    <3> QED
      BY <2>4, <3>1, RingEmpty
  <2> QED
    BY <2>1, <2>5, <2>6, RingChange
<1> QED
  BY <1>1, <1>2

(* A copy of a ring is one.                                                *)
LEMMA RingCopy ==
  ASSUME kind # "nested", NEW t, RingInv(t), NEW o \in Objects, NEW p \in Objects \ {o},
         Blocks \ t.live # {}
  PROVE  RingInv(Ring!Copy(t, o, p))
<1> DEFINE q == Vec!Contents(t, p)
           w == Vec!Assign(t, o, q)
           u == Ring!WithTokens(w, o, t.hdr[p].head, t.hdr[p].tail)
           g == t.hdr[p]
           s == VecAt(t, p)
<1>1. Ring!Copy(t, o, p) = u
  BY RingVector, RingCopies DEF Ring!Copy
<1>2. VecInv(t, Entries) /\ RingOk(g, s)
  BY DEF RingInv
<1>3. q \in Seq(Entries) /\ Len(q) = g.length /\ \A i \in 1..Len(q) : q[i] = s[i]
  BY <1>2, VecContents
<1>4. g.head \in Nat /\ g.tail \in Nat /\ g.length \in Nat
  BY <1>2, RingTokens
<1> HIDE DEF q
<1>5. VecDone(t, Entries, o, w, Len(q)) /\ \A i \in 1..Len(q) : VecAt(w, o)[i] = q[i]
  BY <1>2, <1>3, VecAssign
<1> HIDE DEF w
<1>6. VecInv(w, Entries) /\ w.hdr[o].length = Len(q)
  BY <1>5 DEF VecDone
<1>7. /\ VecDone(w, Entries, o, u, Len(q)) /\ u.hdr[o] \in RingHeaders
      /\ u.hdr[o].head = g.head /\ u.hdr[o].tail = g.tail /\ VecAt(u, o) = VecAt(w, o)
  <2> DEFINE n == w.hdr[o].length
  <2>1. /\ VecDone(w, Entries, o, u, n) /\ u.hdr[o] \in RingHeaders
        /\ u.hdr[o].head = g.head /\ u.hdr[o].tail = g.tail /\ VecAt(u, o) = VecAt(w, o)
    <3>1. VecInv(w, Entries)
      BY <1>6
    <3> QED
      BY <1>4, <3>1, RingWith
  <2> HIDE DEF u
  <2> QED
    BY <1>6, <2>1
<1> HIDE DEF u, g, s
<1>8. VecDone(t, Entries, o, u, Len(q)) /\ u.hdr[o].length = g.length
  <2>1. VecDone(t, Entries, o, u, Len(q))
    BY <1>5, <1>7, VecThen
  <2> QED
    BY <1>3, <2>1 DEF VecDone
<1>9. \A i \in 1..g.length : VecAt(u, o)[i] = s[i]
  BY <1>3, <1>5, <1>7
<1>10. RingOk(u.hdr[o], VecAt(u, o))
  BY <1>2, <1>7, <1>8, <1>9, RingSame
<1> QED
  BY <1>1, <1>8, <1>10, RingChange

(* A ring moves with its tokens, and leaves an empty one.                  *)
LEMMA RingMove ==
  ASSUME kind # "nested", NEW t, RingInv(t), NEW o \in Objects, NEW p \in Objects \ {o},
         Blocks \ t.live # {}
  PROVE  RingInv(Ring!Move(t, o, p))
<1> DEFINE w == Vec!Move(t, o, p)
           x == Ring!WithTokens(w, o, t.hdr[p].head, t.hdr[p].tail)
           u == Ring!WithTokens(x, p, 0, 0)
           g == t.hdr[p]
           s == VecAt(t, p)
<1>1. Ring!Move(t, o, p) = u
  BY RingCopies DEF Ring!Move
<1>2. VecInv(t, Entries) /\ RingOk(g, s)
  BY DEF RingInv
<1>4. g.head \in Nat /\ g.tail \in Nat /\ g.length \in Nat
  BY <1>2, RingTokens
<1>5. VecMoved(t, Entries, o, p, w)
  BY <1>2, VecMove
<1> HIDE DEF w
<1>6. /\ VecInv(w, Entries) /\ w.hdr[o].length = g.length
      /\ \A i \in 1..g.length : VecAt(w, o)[i] = s[i]
      /\ w.hdr[p].length = 0 /\ \A y \in Objects \ {o, p} : Kept(t, w, VecOwn, y)
  BY <1>5 DEF VecMoved
<1> DEFINE n == w.hdr[o].length
<1>7. /\ VecDone(w, Entries, o, x, n) /\ x.hdr[o] \in RingHeaders
      /\ x.hdr[o].head = g.head /\ x.hdr[o].tail = g.tail /\ VecAt(x, o) = VecAt(w, o)
  BY <1>4, <1>6, RingWith
<1> HIDE DEF x
<1>8. /\ VecInv(x, Entries) /\ x.hdr[o].length = n
      /\ \A y \in Objects \ {o} : x.hdr[y] = w.hdr[y] /\ VecAt(x, y) = VecAt(w, y)
  BY <1>7 DEF VecDone, Kept, VecAt
<1>9. x.hdr[p].length = 0
  BY <1>6, <1>8
<1>10. /\ VecDone(x, Entries, p, u, 0) /\ u.hdr[p] \in RingHeaders
       /\ u.hdr[p].head = 0 /\ u.hdr[p].tail = 0
  BY <1>8, <1>9, RingWith
<1> HIDE DEF u
<1>11. /\ VecInv(u, Entries) /\ u.hdr[p].length = 0
       /\ \A y \in Objects \ {p} : u.hdr[y] = x.hdr[y] /\ VecAt(u, y) = VecAt(x, y)
  BY <1>10 DEF VecDone, Kept, VecAt
<1> HIDE DEF g, s, n
<1>12. RingOk(u.hdr[o], VecAt(u, o))
  <2>1. u.hdr[o] = x.hdr[o] /\ VecAt(u, o) = VecAt(w, o) /\ n = g.length
    BY <1>6, <1>7, <1>11 DEF n
  <2>2. /\ u.hdr[o] \in RingHeaders /\ u.hdr[o].head = g.head /\ u.hdr[o].tail = g.tail
        /\ u.hdr[o].length = g.length
    BY <1>7, <1>8, <2>1
  <2>3. \A i \in 1..g.length : VecAt(u, o)[i] = s[i]
    BY <1>6, <2>1
  <2> QED
    BY <1>2, <2>2, <2>3, RingSame
<1>13. RingOk(u.hdr[p], VecAt(u, p))
  <2>1. \A i \in 1..u.hdr[p].length : VecAt(u, p)[i] \notin Values
    BY <1>11
  <2> QED
    BY <1>10, <2>1, RingEmpty
<1>14. ASSUME NEW y \in Objects \ {o, p} PROVE RingOk(u.hdr[y], VecAt(u, y))
  <2>1. w.hdr[y] = t.hdr[y] /\ VecAt(w, y) = VecAt(t, y)
    BY <1>6 DEF Kept, VecAt
  <2>2. u.hdr[y] = t.hdr[y] /\ VecAt(u, y) = VecAt(t, y)
    BY <1>8, <1>11, <2>1
  <2> QED
    BY <2>2 DEF RingInv
<1>15. \A y \in Objects : RingOk(u.hdr[y], VecAt(u, y))
  BY <1>12, <1>13, <1>14
<1> QED
  BY <1>1, <1>11, <1>15 DEF RingInv

-----------------------------------------------------------------------------
(* A ring with entries has an array.                                       *)
LEMMA RingArray ==
  ASSUME NEW t, RingInv(t), NEW o \in Objects, t.hdr[o].length > 0
  PROVE  /\ t.hdr[o].ptr \in t.live /\ t.hdr[o].ptr # Null /\ t.hdr[o].ptr \in Blocks
         /\ t.mem[t.hdr[o].ptr] = VecAt(t, o)
<1>1. VecInv(t, Entries)
  BY DEF RingInv
<1>2. t.hdr[o].max \in Nat /\ t.hdr[o].length \in Nat /\ t.hdr[o].length <= t.hdr[o].max
  BY <1>1, VecLength
<1>3. t.hdr[o].ptr # Null
  BY <1>1, <1>2, VecEmpty
<1>4. t.hdr[o].ptr \in t.live \cup {Null} /\ t.live \subseteq Blocks
  BY <1>1, VecPtr, VecStore
<1>5. t.mem[t.hdr[o].ptr] = VecAt(t, o)
  BY <1>1, <1>3, VecMem
<1> QED
  BY <1>3, <1>4, <1>5

(* Slot s receives v, and the header of o is h.                            *)
LEMMA RingSlot ==
  ASSUME NEW t, RingInv(t), NEW o \in Objects, t.hdr[o].length > 0,
         NEW s \in 1..t.hdr[o].length, NEW v \in Entries,
         NEW h \in RingHeaders, h.ptr = t.hdr[o].ptr, h.max = t.hdr[o].max,
         h.length = t.hdr[o].length, RingOk(h, [VecAt(t, o) EXCEPT ![s] = v]),
         NEW u, u.live = t.live, u.alloc = t.alloc, u.hdr = [t.hdr EXCEPT ![o] = h],
         u = [mem |-> u.mem, live |-> u.live, hdr |-> u.hdr, alloc |-> u.alloc],
         u.mem = [t.mem EXCEPT ![t.hdr[o].ptr] = [VecAt(t, o) EXCEPT ![s] = v]]
  PROVE  RingInv(u)
<1> DEFINE b == t.hdr[o].ptr
           q == VecAt(t, o)
           r == [q EXCEPT ![s] = v]
<1>1. b \in t.live /\ b # Null /\ b \in Blocks /\ t.mem[b] = q
  BY RingArray
<1>2. VecInv(t, Entries)
  BY DEF RingInv
<1>3. /\ t.hdr[o].max \in Nat /\ t.hdr[o].length \in Nat /\ t.hdr[o].length <= t.hdr[o].max
      /\ q \in Seq(WithRaw(Entries)) /\ Len(q) = t.hdr[o].max
      /\ \A i \in 1..t.hdr[o].length : q[i] \in Entries
  BY <1>2, VecLength, VecSlots, VecElements
<1>4. /\ t.mem \in [Blocks -> Seq(WithRaw(Entries))] /\ t.live \subseteq Blocks
      /\ t.hdr \in [Objects -> VecHeaders] /\ t.alloc \in [Objects -> Allocators]
  BY <1>2, VecStore
<1>5. v \in WithRaw(Entries) /\ h \in VecHeaders
  BY RingFields DEF WithRaw
<1> HIDE DEF q
<1>6. /\ r \in Seq(WithRaw(Entries)) /\ Len(r) = t.hdr[o].max
      /\ \A i \in 1..t.hdr[o].length : r[i] \in Entries
  BY <1>3, <1>5
<1>7. u.mem = [t.mem EXCEPT ![b] = r]
  BY DEF q
<1>8. RingOk(h, r)
  BY DEF q
<1> HIDE DEF r, b
<1>9. u \in HeapStores(WithRaw(Entries), VecHeaders)
  <2>1. u.mem \in [Blocks -> Seq(WithRaw(Entries))] /\ u.live \in SUBSET Blocks
        /\ u.hdr \in [Objects -> VecHeaders] /\ u.alloc \in [Objects -> Allocators]
    BY <1>1, <1>4, <1>5, <1>6, <1>7
  <2> QED
    BY <2>1 DEF HeapStores
<1>10. u.hdr[o] = h /\ \A x \in Objects \ {o} : u.hdr[x] = t.hdr[x]
  BY <1>4
<1>11. u.mem[b] = r /\ \A d \in t.live \ {b} : u.mem[d] = t.mem[d]
  BY <1>1, <1>4, <1>7
<1>12. /\ t.hdr[o].ptr # Null /\ u.mem[t.hdr[o].ptr] = r
       /\ \A d \in t.live \ {t.hdr[o].ptr} : u.mem[d] = t.mem[d]
  BY <1>1, <1>11 DEF b
<1> QED
  BY <1>6, <1>8, <1>9, <1>10, <1>12, RingWrite, ZenonT(60)

(* A value is stored at the tail.                                          *)
LEMMA RingStore ==
  ASSUME NEW t, RingInv(t), NEW o \in Objects, NEW v \in Values,
         t.hdr[o].tail < t.hdr[o].head + t.hdr[o].length
  PROVE  RingInv(Ring!Store(t, o, v))
<1> DEFINE g == t.hdr[o]
           q == VecAt(t, o)
           s == SlotOf(g.tail, g.length)
           h == [g EXCEPT !.tail = @ + 1]
           u == Ring!Store(t, o, v)
<1>1. RingOk(g, q) /\ VecInv(t, Entries)
  BY DEF RingInv
<1>2. g \in RingHeaders /\ g.head \in Nat /\ g.tail \in Nat /\ g.length \in Nat /\ g.head <= g.tail
  BY <1>1, RingTokens
<1>3. g.length > 0
  BY <1>2
<1>4. s \in 1..g.length
  BY <1>2, <1>3, SlotIn, Zenon
<1>5. /\ h \in RingHeaders /\ h.ptr = g.ptr /\ h.max = g.max /\ h.length = g.length
      /\ h.head = g.head /\ h.tail = g.tail + 1
  BY <1>2 DEF RingHeaders
<1>6. v \in Entries
  BY DEF Entries
<1>7. t.mem[g.ptr] = q /\ g.ptr \in Blocks
  BY <1>3, RingArray
<1>8. t \in HeapStores(WithRaw(Entries), VecHeaders)
  BY <1>1, VecStore
<1>9. Ring!Index(t, o, g.tail) = s
  BY DEF Ring!Index, SlotOf
<1>10. u = [t EXCEPT !.mem[g.ptr][s] = v, !.hdr[o].tail = @ + 1]
  BY <1>9 DEF Ring!Store
<1> HIDE DEF u, s
<1>11. /\ u.live = t.live /\ u.alloc = t.alloc /\ u.hdr = [t.hdr EXCEPT ![o] = h]
       /\ u = [mem |-> u.mem, live |-> u.live, hdr |-> u.hdr, alloc |-> u.alloc]
       /\ u.mem = [t.mem EXCEPT ![g.ptr] = [q EXCEPT ![s] = v]]
  <2>1. /\ u.live = t.live /\ u.alloc = t.alloc /\ u.hdr = [t.hdr EXCEPT ![o] = h]
        /\ u = [mem |-> u.mem, live |-> u.live, hdr |-> u.hdr, alloc |-> u.alloc]
        /\ u.mem = [t.mem EXCEPT ![g.ptr] = [@ EXCEPT ![s] = v]]
    BY <1>8, <1>10 DEF HeapStores
  <2> HIDE DEF q, h
  <2>2. [t.mem EXCEPT ![g.ptr] = [@ EXCEPT ![s] = v]]
        = [t.mem EXCEPT ![g.ptr] = [q EXCEPT ![s] = v]]
    BY <1>7
  <2> QED
    BY <2>1, <2>2
<1>12. g.length <= Len(q) /\ q \in Seq(WithRaw(Entries))
  BY <1>1, VecLength, VecSlots
<1>13. RingOk(h, [q EXCEPT ![s] = v])
  <2> HIDE DEF q, h, g
  <2>1. g.tail < g.head + g.length
    BY DEF g
  <2> QED
    BY <1>1, <1>5, <1>12, <2>1, RingPut DEF s
<1> HIDE DEF h
<1>14. RingInv(u)
  BY <1>3, <1>4, <1>5, <1>6, <1>11, <1>13, RingSlot
<1> QED
  BY <1>14 DEF u

(* The entry at the head is passed, or with marks taken.                   *)
LEMMA RingPop ==
  ASSUME NEW t, RingInv(t), NEW o \in Objects
  PROVE  /\ kind # "marked_ring" => RingInv(Ring!PopPlain(t, o))
         /\ RingInv(Ring!PopMarked(t, o))
<1> DEFINE g == t.hdr[o]
           q == VecAt(t, o)
           s == SlotOf(g.head, g.length)
           h == [g EXCEPT !.head = @ + 1]
<1>1. RingOk(g, q) /\ VecInv(t, Entries)
  BY DEF RingInv
<1>2. /\ g \in RingHeaders /\ g.head \in Nat /\ g.tail \in Nat /\ g.length \in Nat
      /\ g.head <= g.tail /\ g.tail <= g.head + g.length
  BY <1>1, RingTokens
<1>3. CASE g.tail - g.head = 0
  BY <1>3 DEF Ring!PopPlain, Ring!PopMarked, Ring!Size
<1>4. CASE g.tail - g.head # 0
  <2>1. g.head < g.tail /\ g.length > 0
    BY <1>2, <1>4
  <2>2. s \in 1..g.length
    BY <1>2, <2>1, SlotIn, Zenon
  <2>3. /\ h \in RingHeaders /\ h.ptr = g.ptr /\ h.max = g.max /\ h.length = g.length
        /\ h.head = g.head + 1 /\ h.tail = g.tail
    BY <1>2 DEF RingHeaders
  <2>4. t.mem[g.ptr] = q /\ g.ptr \in Blocks /\ g.ptr # Null /\ g.ptr \in t.live
    BY <2>1, RingArray
  <2>5. /\ t \in HeapStores(WithRaw(Entries), VecHeaders)
        /\ t.hdr \in [Objects -> VecHeaders]
    BY <1>1, VecStore
  <2>6. g.length <= Len(q) /\ q \in Seq(WithRaw(Entries)) /\ Len(q) = g.max
        /\ \A i \in 1..g.length : q[i] \in Entries
    BY <1>1, VecLength, VecSlots, VecElements
  <2>7. ASSUME kind # "marked_ring" PROVE RingInv(Ring!PopPlain(t, o))
    <3> DEFINE u == Ring!PopPlain(t, o)
    <3>1. u = [t EXCEPT !.hdr[o].head = @ + 1]
      BY <1>4 DEF Ring!PopPlain, Ring!Size
    <3> HIDE DEF u
    <3>2. /\ u \in HeapStores(WithRaw(Entries), VecHeaders) /\ u.hdr = [t.hdr EXCEPT ![o] = h]
          /\ u.live = t.live /\ u.mem = t.mem /\ u.alloc = t.alloc
      <4>1. h \in VecHeaders
        BY <2>3, RingFields
      <4> QED
        BY <2>5, <3>1, <4>1 DEF HeapStores
    <3> HIDE DEF h, g, q
    <3>3. u.hdr[o] = h /\ \A x \in Objects \ {o} : u.hdr[x] = t.hdr[x]
      BY <2>5, <3>2
    <3>4. RingOk(h, q)
      BY <1>1, <2>1, <2>3, <2>7, RingPass
    <3>5. u.mem[g.ptr] = q /\ \A d \in t.live \ {g.ptr} : u.mem[d] = t.mem[d]
      BY <2>4, <3>2
    <3>6. RingInv(u)
      BY <2>3, <2>4, <2>6, <3>2, <3>3, <3>4, <3>5, RingWrite DEF g
    <3> QED
      BY <3>6 DEF u
  <2>8. RingInv(Ring!PopMarked(t, o))
    <3> DEFINE u == Ring!PopMarked(t, o)
    <3>1. Ring!Index(t, o, g.head) = s
      BY DEF Ring!Index, SlotOf
    <3>2. u = IF Ring!V!Slots(t, o)[s] = Null THEN t
              ELSE [t EXCEPT !.mem[g.ptr][s] = Null, !.hdr[o].head = @ + 1]
      BY <1>4, <3>1 DEF Ring!PopMarked, Ring!Size
    <3> HIDE DEF u, s
    <3>3. CASE u = t
      BY <3>3 DEF u
    <3>4. CASE u # t
      <4>0. u = [t EXCEPT !.mem[g.ptr][s] = Null, !.hdr[o].head = @ + 1]
        BY <3>2, <3>4
      <4>1. /\ u.live = t.live /\ u.alloc = t.alloc /\ u.hdr = [t.hdr EXCEPT ![o] = h]
            /\ u = [mem |-> u.mem, live |-> u.live, hdr |-> u.hdr, alloc |-> u.alloc]
            /\ u.mem = [t.mem EXCEPT ![g.ptr] = [q EXCEPT ![s] = Null]]
        <5>1. /\ u.live = t.live /\ u.alloc = t.alloc /\ u.hdr = [t.hdr EXCEPT ![o] = h]
              /\ u = [mem |-> u.mem, live |-> u.live, hdr |-> u.hdr, alloc |-> u.alloc]
              /\ u.mem = [t.mem EXCEPT ![g.ptr] = [@ EXCEPT ![s] = Null]]
          BY <2>5, <4>0 DEF HeapStores
        <5> HIDE DEF q, h
        <5>2. [t.mem EXCEPT ![g.ptr] = [@ EXCEPT ![s] = Null]]
              = [t.mem EXCEPT ![g.ptr] = [q EXCEPT ![s] = Null]]
          BY <2>4
        <5> QED
          BY <5>1, <5>2
      <4>2. RingOk(h, [q EXCEPT ![s] = Null])
        <5> HIDE DEF q, h, g
        <5> QED
          BY <1>1, <2>1, <2>3, <2>6, RingTake DEF s
      <4>3. Null \in Entries
        BY DEF Entries
      <4> HIDE DEF h
      <4>4. RingInv(u)
        BY <2>1, <2>2, <2>3, <4>1, <4>2, <4>3, RingSlot
      <4> QED
        BY <4>4 DEF u
    <3> QED
      BY <3>3, <3>4
  <2> QED
    BY <2>7, <2>8
<1> QED
  BY <1>3, <1>4

(* Every call keeps the invariant of rings.                                *)
LEMMA RingStep ==
  ASSUME kind \in {"ring", "marked_ring"}, RingInv(store), Ring!Next
  PROVE  RingInv(store')
<1>0. kind # "nested" /\ MaxLength \in Nat
  BY BuffersAssumption
<1>a. ASSUME NEW u, Ring!Call(u) PROVE store' = u /\ Blocks \ store.live # {}
  <2>1. store' = u /\ Ring!Room(store) >= 1
    BY <1>a DEF Ring!Call, Ring!Becomes
  <2>2. Ring!Cardinality(Blocks \ store.live) = Cardinality(Blocks \ store.live)
    BY DEF Cardinality, Ring!Cardinality
  <2>3. Blocks \ store.live # {}
    BY <2>1, <2>2, FS_EmptySet DEF Ring!Room
  <2> QED
    BY <2>1, <2>3
<1>1. ASSUME NEW o \in Objects, NEW depth \in 1..(MaxLength - 1), Ring!ConstructCall(o, depth)
      PROVE  RingInv(store')
  <2> DEFINE u == Ring!Construct(store, o, depth)
  <2>1. Ring!Call(u) /\ store.hdr[o].ptr = Null
    BY <1>1, Zenon DEF Ring!ConstructCall
  <2>2. depth \in Nat /\ depth > 0
    BY <1>0
  <2> HIDE DEF u
  <2>3. store' = u /\ Blocks \ store.live # {}
    BY <1>a, <2>1
  <2> QED
    BY <1>0, <2>1, <2>2, <2>3, RingConstruct DEF u
<1>2. ASSUME NEW o \in Objects, Ring!DestroyCall(o)
      PROVE  RingInv(store')
  <2> DEFINE u == Ring!ShmDestroy(store, o)
  <2>1. Ring!Call(u)
    BY <1>2, Zenon DEF Ring!DestroyCall
  <2> HIDE DEF u
  <2>2. store' = u
    BY <1>a, <2>1
  <2> QED
    BY <1>0, <2>2, RingDestroy DEF u
<1>3. ASSUME NEW o \in Objects, NEW v \in Values, Ring!EmplaceCall(o, v)
      PROVE  RingInv(store')
  <2> DEFINE w == Ring!Store(store, o, v)
             e == Ring!EmplacePlain(store, o, v)
             m == Ring!EmplaceMarked(store, o, v)
             g == store.hdr[o]
  <2>1. g.head \in Nat /\ g.tail \in Nat /\ g.length \in Nat
    BY RingTokens DEF RingInv
  <2>2. g.tail - g.head < g.length => RingInv(w)
    BY <2>1, RingStore
  <2>3. e = IF g.tail - g.head >= g.length THEN store ELSE w
    BY DEF Ring!EmplacePlain, Ring!Size
  <2>4. m = w
    BY DEF Ring!EmplaceMarked
  <2>5. Ring!Call(e) \/ (g.tail - g.head < g.length /\ Ring!Call(m))
    BY <1>3, Zenon DEF Ring!EmplaceCall, Ring!Size
  <2> HIDE DEF w, e, m
  <2>6. store' = e \/ (g.tail - g.head < g.length /\ store' = m)
    BY <1>a, <2>5
  <2>7. RingInv(e)
    BY <2>1, <2>2, <2>3
  <2> QED
    BY <2>2, <2>4, <2>6, <2>7
<1>4. ASSUME NEW o \in Objects, Ring!PopCall(o)
      PROVE  RingInv(store')
  <2> DEFINE u == IF kind = "marked_ring" THEN Ring!PopMarked(store, o) ELSE Ring!PopPlain(store, o)
  <2>1. Ring!Call(u)
    BY <1>4, Zenon DEF Ring!PopCall
  <2> HIDE DEF u
  <2>2. store' = u
    BY <1>a, <2>1
  <2> QED
    BY <2>2, RingPop DEF u
<1>5. ASSUME NEW o \in Objects, NEW p \in Objects \ {o}, Ring!CopyAssign(o, p)
      PROVE  RingInv(store')
  <2> DEFINE u == Ring!Copy(store, o, p)
  <2>1. Ring!Call(u)
    BY <1>5, Zenon DEF Ring!CopyAssign
  <2> HIDE DEF u
  <2>2. store' = u /\ Blocks \ store.live # {}
    BY <1>a, <2>1
  <2> QED
    BY <1>0, <2>2, RingCopy DEF u
<1>6. ASSUME NEW o \in Objects, NEW p \in Objects \ {o}, Ring!MoveAssign(o, p)
      PROVE  RingInv(store')
  <2> DEFINE u == Ring!Move(store, o, p)
  <2>1. Ring!Call(u)
    BY <1>6, Zenon DEF Ring!MoveAssign
  <2> HIDE DEF u
  <2>2. store' = u /\ Blocks \ store.live # {}
    BY <1>a, <2>1
  <2> QED
    BY <1>0, <2>2, RingMove DEF u
<1> QED
  BY <1>1, <1>2, <1>3, <1>4, <1>5, <1>6 DEF Ring!Next

(* New rings have no array and no tokens.                                  *)
LEMMA RingInit ==
  ASSUME Ring!Init
  PROVE  RingInv(store)
<1> DEFINE h == Ring!EmptyHeader
<1>1. h \in RingHeaders /\ h.ptr = Null /\ h.max = 0 /\ h.length = 0 /\ h.head = 0 /\ h.tail = 0
  BY DEF RingHeaders, Ring!EmptyHeader
<1> HIDE DEF h
<1>2. PICK a \in [Objects -> Allocators] :
        store = [mem |-> [b \in Blocks |-> <<>>], live |-> {},
                 hdr |-> [o \in Objects |-> h], alloc |-> a]
  BY DEF Ring!Init, Ring!EmptyStore, h
<1>3. h \in VecHeaders
  BY <1>1, RingFields
<1>4. VecInv(store, Entries)
  BY <1>1, <1>2, <1>3, VecInit
<1>5. \A o \in Objects : store.hdr[o] = h
  BY <1>2
<1>6. \A q : RingOk(h, q)
  <2> SUFFICES ASSUME NEW q PROVE RingOk(h, q)
    OBVIOUS
  <2>1. \A i \in 1..h.length : q[i] \notin Values
    BY <1>1
  <2> QED
    BY <1>1, <2>1, RingEmpty
<1> QED
  BY <1>4, <1>5, <1>6 DEF RingInv

(* What the invariant says of the headers and of the arrays.               *)
LEMMA RingPromises ==
  ASSUME kind \in {"ring", "marked_ring"}, RingInv(store)
  PROVE  BlocksOwnedOnce /\ BlocksFit
<1>0. VecInv(store, Entries) /\ kind # "map" /\ kind # "nested"
  BY DEF RingInv
<1>1. BlocksOwnedOnce
  <2>1. \A o \in Objects : BufferOwned(o) = One(VecOwn[store.hdr[o]])
    <3> SUFFICES ASSUME NEW o \in Objects PROVE BufferOwned(o) = One(VecOwn[store.hdr[o]])
      OBVIOUS
    <3>1. BufferOwned(o) = Ring!Owned(o)
      BY DEF BufferOwned
    <3>2. VecOwn[store.hdr[o]] = store.hdr[o].ptr
      BY <1>0, VecPtr
    <3> QED
      BY <3>1, <3>2 DEF Ring!Owned, One
  <2> QED
    BY <1>0, <2>1, SoundOwnedOnce DEF VecInv
<1>2. BlocksFit
  <2>1. \A o \in Objects : Ring!Fits(o)
    <3> SUFFICES ASSUME NEW o \in Objects PROVE Ring!Fits(o)
      OBVIOUS
    <3> DEFINE g == store.hdr[o]
               q == VecAt(store, o)
               c == Ring!Contents(store, o)
    <3>1. RingOk(g, q)
      BY DEF RingInv
    <3>2. /\ g \in RingHeaders /\ g.head \in Nat /\ g.tail \in Nat /\ g.length \in Nat
          /\ g.head <= g.tail /\ g.tail <= g.head + g.length
      BY <3>1, RingTokens
    <3>3. Ring!V!Slots(store, o) = q
      BY <1>0, VecSlotsOf, RingVector
    <3>4. Len(q) = g.max
      BY <1>0, VecSlots
    <3>5. Ring!Size(store, o) = g.tail - g.head
      BY DEF Ring!Size
    <3>6. \A x \in Ring!Range(c) : x \in Values
      <4> DEFINE n == g.tail - g.head
      <4>1. n \in Nat
        BY <3>2
      <4>2. c = [i \in 1..n |-> q[SlotOf(g.head + i - 1, g.length)]]
        BY <3>3, <3>5 DEF Ring!Contents, Ring!Index, SlotOf
      <4>3. \A i \in 1..n : q[SlotOf(g.head + i - 1, g.length)] \in Values
        <5> SUFFICES ASSUME NEW i \in 1..n PROVE q[SlotOf(g.head + i - 1, g.length)] \in Values
          OBVIOUS
        <5>1. g.head + i - 1 \in g.head..(g.tail - 1)
          BY <3>2
        <5> QED
          BY <3>1, <5>1 DEF RingOk
      <4> HIDE DEF c, n, q, g
      <4>4. DOMAIN c = 1..n /\ \A i \in 1..n : c[i] \in Values
        BY <4>2, <4>3
      <4> QED
        BY <4>4 DEF Ring!Range
    <3>7. ASSUME kind = "marked_ring"
          PROVE  g.tail - g.head = Ring!Cardinality({i \in 1..g.length : q[i] \in Values})
      <4> DEFINE I == {i \in 1..g.length : q[i] \in Values}
      <4>1. g.tail - g.head = Cardinality(I)
        BY <3>1, <3>7, RingCount
      <4>2. Ring!Cardinality(I) = Cardinality(I)
        BY DEF Cardinality, Ring!Cardinality
      <4> QED
        BY <4>1, <4>2
    <3> HIDE DEF c, q, g
    <3>8. Ring!Range(c) \subseteq Values /\ g.tail - g.head \in 0..g.length
      BY <3>2, <3>6
    <3>9. kind = "marked_ring" => Ring!Size(store, o) = Ring!Cardinality(
            {i \in 1..store.hdr[o].length : Ring!V!Slots(store, o)[i] \in Values})
      BY <3>3, <3>5, <3>7 DEF g
    <3> QED
      BY <3>3, <3>4, <3>5, <3>8, <3>9 DEF Ring!Fits, c, g
  <2> QED
    BY <2>1 DEF BlocksFit, BufferFits
<1> QED
  BY <1>1, <1>2
=============================================================================

-------------------------- MODULE ContainersProofs --------------------------
(***************************************************************************)
(* The theorems about the containers that keep all they own in one block.  *)
(* A behaviour uses objects of one kind, so the inductive invariant is that*)
(* of the kind it is about: strings, arrays, pointers and charbufs have    *)
(* theirs here, vectors and rings in VectorProofs.                         *)
(***************************************************************************)
EXTENDS Containers, VectorProofs

(* string                                                                  *)
Slot == Values \cup {Raw}

StrHeaders == [length : Nat, ptr : Blocks \cup {Null}, sso : Seq(Slot)]

StrOwn == [h \in StrHeaders |-> IF h.length < SSO THEN Null ELSE h.ptr]

(* The bytes in the header are SSO, those in the block at least the length.*)
StrFit == {g \in StrHeaders \X Seq(Slot) :
  /\ Len(g[1].sso) = SSO
  /\ g[1].length >= SSO => g[1].ptr # Null /\ g[1].length <= Len(g[2])}

StrInv(t) == Sound(t, Slot, StrHeaders, StrOwn, StrFit, Objects)

(* When a header and the slots of its block fit.                           *)
LEMMA StrFitIs ==
  ASSUME NEW h \in StrHeaders, NEW q \in Seq(Slot)
  PROVE  <<h, q>> \in StrFit <=>
           /\ Len(h.sso) = SSO
           /\ h.length >= SSO => h.ptr # Null /\ h.length <= Len(q)
BY DEF StrFit

(* What the invariant says of the parts of the store.                      *)
LEMMA StrParts ==
  ASSUME NEW t, StrInv(t)
  PROVE  /\ t \in HeapStores(Slot, StrHeaders)
         /\ t.mem \in [Blocks -> Seq(Slot)] /\ t.live \subseteq Blocks
         /\ t.hdr \in [Objects -> StrHeaders] /\ t.alloc \in [Objects -> Allocators]
         /\ \A o \in Objects :
              /\ t.hdr[o].length \in Nat /\ t.hdr[o].sso \in Seq(Slot)
              /\ Len(t.hdr[o].sso) = SSO
              /\ t.hdr[o].length >= SSO => /\ t.hdr[o].ptr \in t.live
                                           /\ t.hdr[o].length <= Len(t.mem[t.hdr[o].ptr])
              /\ StrOwn[t.hdr[o]] = IF t.hdr[o].length < SSO THEN Null ELSE t.hdr[o].ptr
<1>1. /\ t \in HeapStores(Slot, StrHeaders)
      /\ t.mem \in [Blocks -> Seq(Slot)] /\ t.live \subseteq Blocks
      /\ t.hdr \in [Objects -> StrHeaders] /\ t.alloc \in [Objects -> Allocators]
  BY StoreParts DEF StrInv, Sound
<1> SUFFICES ASSUME NEW o \in Objects
             PROVE /\ t.hdr[o].length \in Nat /\ t.hdr[o].sso \in Seq(Slot)
                   /\ Len(t.hdr[o].sso) = SSO
                   /\ t.hdr[o].length >= SSO => /\ t.hdr[o].ptr \in t.live
                                                /\ t.hdr[o].length <= Len(t.mem[t.hdr[o].ptr])
                   /\ StrOwn[t.hdr[o]] = IF t.hdr[o].length < SSO THEN Null ELSE t.hdr[o].ptr
  BY <1>1
<1> DEFINE h == t.hdr[o]
           q == OwnSlots(t, StrOwn, o)
<1>2. h \in StrHeaders /\ <<h, q>> \in StrFit /\ StrOwn[h] \in t.live \cup {Null}
  BY <1>1 DEF StrInv, Sound
<1>3. q = IF StrOwn[h] = Null THEN <<>> ELSE t.mem[StrOwn[h]]
  BY DEF OwnSlots
<1> HIDE DEF h, q
<1>4. /\ h.length \in Nat /\ h.sso \in Seq(Slot)
      /\ StrOwn[h] = IF h.length < SSO THEN Null ELSE h.ptr
  BY <1>2 DEF StrHeaders, StrOwn
<1>5. q \in Seq(Slot) /\ SSO \in Nat
  BY <1>2, BuffersAssumption DEF StrFit
<1>6. Len(h.sso) = SSO /\ (h.length >= SSO => h.ptr # Null /\ h.length <= Len(q))
  BY <1>2, <1>5, StrFitIs
<1> QED
  BY <1>2, <1>3, <1>4, <1>5, <1>6 DEF h

(* The header of a string without contents or with short ones.             *)
LEMMA StrShort ==
  ASSUME NEW h \in StrHeaders, h.length < SSO, Len(h.sso) = SSO
  PROVE  StrOwn[h] = Null /\ <<h, <<>>>> \in StrFit
<1>1. SSO \in Nat /\ h.length \in Nat
  BY BuffersAssumption DEF StrHeaders
<1>2. <<>> \in Seq(Slot) /\ ~(h.length >= SSO)
  BY <1>1
<1>3. <<h, <<>>>> \in StrFit
  BY <1>2, StrFitIs
<1> QED
  BY <1>3 DEF StrOwn

(* The header of a string with long contents.                              *)
LEMMA StrLong ==
  ASSUME NEW h \in StrHeaders, NEW q \in Seq(Slot), Len(h.sso) = SSO,
         h.length >= SSO, h.ptr \in Blocks, h.length <= Len(q)
  PROVE  StrOwn[h] = h.ptr /\ <<h, q>> \in StrFit
<1>1. SSO \in Nat /\ h.length \in Nat /\ h.ptr # Null
  BY BuffersAssumption DEF StrHeaders
<1>2. <<h, q>> \in StrFit
  BY <1>1, StrFitIs
<1> QED
  BY <1>1, <1>2 DEF StrOwn

(* A null string: what SetNull leaves behind.                              *)
LEMMA StrSetNull ==
  ASSUME NEW o \in Objects, NEW t,
         Sound(t, Slot, StrHeaders, StrOwn, StrFit, Objects \ {o})
  PROVE  LET u == Str!SetNull(t, o) IN
         /\ StrInv(u) /\ u.hdr[o].length = 0
         /\ u.alloc = t.alloc /\ u.live = t.live
         /\ \A x \in Objects \ {o} : Kept(t, u, StrOwn, x)
<1> DEFINE h == Str!EmptyHeader
           u == Str!SetNull(t, o)
<1>1. t \in HeapStores(Slot, StrHeaders) /\ SSO \in Nat \ {0}
  BY BuffersAssumption DEF Sound
<1>2. h \in StrHeaders /\ h.length = 0 /\ Len(h.sso) = SSO
  BY <1>1 DEF StrHeaders, Str!EmptyHeader, Str!RawSlots, Slot
<1>3. u = [t EXCEPT !.hdr[o] = h]
  BY DEF Str!SetNull
<1> HIDE DEF u, h
<1>4. StrOwn[h] = Null /\ <<h, <<>>>> \in StrFit
  BY <1>1, <1>2, StrShort
<1>5. /\ u \in HeapStores(Slot, StrHeaders) /\ u.hdr = [t.hdr EXCEPT ![o] = h]
      /\ u.live = t.live /\ u.mem = t.mem /\ u.alloc = t.alloc
  BY <1>1, <1>2, <1>3 DEF HeapStores
<1>6. u.hdr[o] = h /\ \A x \in Objects \ {o} : u.hdr[x] = t.hdr[x]
  BY <1>1, <1>5, StoreParts
<1>7. /\ Sound(u, Slot, StrHeaders, StrOwn, StrFit, Objects)
      /\ \A x \in Objects \ {o} : Kept(t, u, StrOwn, x)
  BY <1>4, <1>5, <1>6, SoundNone
<1> QED
  BY <1>2, <1>5, <1>6, <1>7 DEF u, StrInv

(* shm_destroy                                                             *)
LEMMA StrDestroy ==
  ASSUME NEW t, StrInv(t), NEW o \in Objects
  PROVE  LET u == Str!ShmDestroy(t, o) IN
         /\ StrInv(u) /\ u.hdr[o].length = 0
         /\ u.alloc = t.alloc /\ u.live \subseteq t.live
         /\ \A x \in Objects \ {o} : Kept(t, u, StrOwn, x)
<1> DEFINE u == Str!ShmDestroy(t, o)
<1>1. CASE t.hdr[o].length = 0
  <2>1. u = t
    BY <1>1 DEF Str!ShmDestroy
  <2> QED
    BY <1>1, <2>1 DEF Kept
<1>2. CASE t.hdr[o].length # 0
  <2> DEFINE r == IF t.hdr[o].length >= SSO THEN Str!Release(t, t.hdr[o].ptr) ELSE t
  <2>1. u = Str!SetNull(r, o)
    BY <1>2 DEF Str!ShmDestroy
  <2>2. /\ t \in HeapStores(Slot, StrHeaders) /\ t.hdr[o].length \in Nat /\ SSO \in Nat
        /\ t.mem \in [Blocks -> Seq(Slot)] /\ t.live \subseteq Blocks /\ Null \notin Blocks
    BY StrParts, BuffersAssumption
  <2>3. /\ r \in HeapStores(Slot, StrHeaders) /\ r.hdr = t.hdr /\ r.alloc = t.alloc
        /\ r.live = t.live \ {StrOwn[t.hdr[o]]}
        /\ \A b \in r.live : r.mem[b] = t.mem[b]
    <3>1. CASE t.hdr[o].length >= SSO
      <4> DEFINE a == t.hdr[o].ptr
      <4>1. a \in Blocks /\ StrOwn[t.hdr[o]] = a
        BY <2>2, <3>1, StrParts
      <4>2. r = [t EXCEPT !.live = @ \ {a}, !.mem[a] = <<>>]
        BY <3>1 DEF Str!Release
      <4> HIDE DEF a, r
      <4> QED
        BY <2>2, <4>1, <4>2, EmptyIsSeq DEF HeapStores
    <3>2. CASE ~(t.hdr[o].length >= SSO)
      <4>1. StrOwn[t.hdr[o]] = Null
        BY <2>2, <3>2, StrParts
      <4> QED
        BY <2>2, <3>2, <4>1
    <3> QED
      BY <3>1, <3>2
  <2> HIDE DEF r, u
  <2>4. /\ Sound(r, Slot, StrHeaders, StrOwn, StrFit, Objects \ {o})
        /\ \A x \in Objects \ {o} : Kept(t, r, StrOwn, x)
    BY <2>3, SoundRelease DEF StrInv
  <2>5. /\ StrInv(u) /\ u.hdr[o].length = 0 /\ u.alloc = r.alloc /\ u.live = r.live
        /\ \A x \in Objects \ {o} : Kept(r, u, StrOwn, x)
    BY <2>1, <2>4, StrSetNull
  <2> QED
    BY <2>3, <2>4, <2>5 DEF u, Kept
<1> QED
  BY <1>1, <1>2

(* An allocation returns a block that is not live.                         *)
LEMMA StrFreeBlock ==
  ASSUME NEW t, Blocks \ t.live # {}
  PROVE  Str!FreeBlock(t) \in Blocks \ t.live
<1>1. Blocks \subseteq Nat
  BY BuffersAssumption
<1> QED
  BY <1>1, FreeIsFree DEF Str!FreeBlock

(* _create_str on a null string                                            *)
LEMMA StrCreate ==
  ASSUME NEW t, StrInv(t), NEW o \in Objects, t.hdr[o].length = 0,
         NEW q \in Seq(Slot), Blocks \ t.live # {}
  PROVE  LET u == Str!CreateStr(t, o, q) IN
         /\ StrInv(u) /\ u.alloc = t.alloc
         /\ \A x \in Objects \ {o} : Kept(t, u, StrOwn, x)
<1> DEFINE u == Str!CreateStr(t, o, q)
<1>0. /\ t \in HeapStores(Slot, StrHeaders) /\ t.hdr \in [Objects -> StrHeaders]
      /\ t.mem \in [Blocks -> Seq(Slot)] /\ t.live \subseteq Blocks /\ Null \notin Blocks
      /\ SSO \in Nat \ {0} /\ Len(q) \in Nat
      /\ t.hdr[o] \in StrHeaders /\ Len(t.hdr[o].sso) = SSO /\ StrOwn[t.hdr[o]] = Null
  BY StrParts, BuffersAssumption
<1>1. CASE Len(q) < SSO
  <2> DEFINE s == Str!Padded(q, SSO, Raw)
             h == [t.hdr[o] EXCEPT !.length = Len(q), !.sso = s]
  <2>1. s \in Seq(Slot) /\ Len(s) = SSO
    <3>1. Raw \in Slot
      BY DEF Slot
    <3> QED
      BY <1>0, <3>1, PaddedSlots DEF Str!Padded
  <2>2. u = [t EXCEPT !.hdr[o] = h]
    BY <1>1 DEF Str!CreateStr
  <2> HIDE DEF s
  <2>3. h \in StrHeaders /\ h.length = Len(q) /\ h.sso = s
    BY <1>0, <2>1 DEF StrHeaders
  <2> HIDE DEF u, h
  <2>4. StrOwn[h] = Null /\ <<h, <<>>>> \in StrFit
    BY <1>1, <2>1, <2>3, StrShort
  <2>5. /\ u \in HeapStores(Slot, StrHeaders) /\ u.hdr = [t.hdr EXCEPT ![o] = h]
        /\ u.live = t.live /\ u.mem = t.mem /\ u.alloc = t.alloc
    BY <1>0, <2>2, <2>3 DEF HeapStores
  <2>6. u.hdr[o] = h /\ \A x \in Objects \ {o} : u.hdr[x] = t.hdr[x]
    BY <1>0, <2>5
  <2>7. OwnSlots(u, StrOwn, o) = <<>>
    BY <2>4, <2>6 DEF OwnSlots
  <2>8. /\ Sound(u, Slot, StrHeaders, StrOwn, StrFit, Objects)
        /\ \A x \in Objects \ {o} : Kept(t, u, StrOwn, x)
    BY <1>0, <2>4, <2>5, <2>6, <2>7, SoundWrite DEF StrInv
  <2> QED
    BY <2>5, <2>8 DEF u, StrInv
<1>2. CASE ~(Len(q) < SSO)
  <2> DEFINE b == Str!FreeBlock(t)
             w == Str!Allocate(t, q)
             h == [t.hdr[o] EXCEPT !.length = Len(q), !.ptr = b]
  <2>1. b \in Blocks \ t.live
    BY StrFreeBlock
  <2>2. u = [w EXCEPT !.hdr[o] = [@ EXCEPT !.length = Len(q), !.ptr = b]]
    BY <1>2 DEF Str!CreateStr
  <2>3. /\ w \in HeapStores(Slot, StrHeaders) /\ w.hdr = t.hdr /\ w.alloc = t.alloc
        /\ w.live = t.live \cup {b} /\ w.mem = [t.mem EXCEPT ![b] = q]
    BY <1>0, <2>1 DEF Str!Allocate, HeapStores
  <2> HIDE DEF w, b, u
  <2>4. u = [w EXCEPT !.hdr[o] = h]
    BY <2>2, <2>3
  <2>5. /\ h \in StrHeaders /\ h.length = Len(q) /\ h.sso = t.hdr[o].sso /\ h.ptr = b
    BY <1>0, <2>1 DEF StrHeaders
  <2> HIDE DEF h
  <2>6. StrOwn[h] = b /\ <<h, q>> \in StrFit
    BY <1>0, <1>2, <2>1, <2>5, StrLong
  <2>7. /\ u \in HeapStores(Slot, StrHeaders) /\ u.hdr = [t.hdr EXCEPT ![o] = h]
        /\ u.live = w.live /\ u.mem = w.mem /\ u.alloc = t.alloc
    BY <2>3, <2>4, <2>5 DEF HeapStores
  <2>8. u.hdr[o] = h /\ \A x \in Objects \ {o} : u.hdr[x] = t.hdr[x]
    BY <1>0, <2>7
  <2>9. /\ u.mem[b] = q /\ \A d \in t.live \ {StrOwn[t.hdr[o]]} : u.mem[d] = t.mem[d]
        /\ u.live = (t.live \cup {b}) \ {StrOwn[t.hdr[o]]}
    BY <1>0, <2>1, <2>3, <2>7
  <2>10. /\ Sound(u, Slot, StrHeaders, StrOwn, StrFit, Objects)
         /\ \A x \in Objects \ {o} : Kept(t, u, StrOwn, x)
    <3>1. /\ StrOwn[u.hdr[o]] = b /\ OwnSlots(u, StrOwn, o) = q
          /\ <<u.hdr[o], OwnSlots(u, StrOwn, o)>> \in StrFit
      BY <1>0, <2>1, <2>6, <2>8, <2>9 DEF OwnSlots
    <3> QED
      BY <2>1, <2>7, <2>8, <2>9, <3>1, SoundReplace DEF StrInv
  <2> QED
    BY <2>7, <2>10 DEF u, StrInv
<1> QED
  BY <1>1, <1>2

(* The contents of a string are values, as many as its length.             *)
LEMMA StrContents ==
  ASSUME NEW t, StrInv(t), NEW o \in Objects
  PROVE  Str!Contents(t, o) \in Seq(Slot)
<1>1. /\ t.hdr[o].length \in Nat /\ t.hdr[o].sso \in Seq(Slot) /\ Len(t.hdr[o].sso) = SSO
      /\ t.hdr[o].length >= SSO => /\ t.hdr[o].ptr \in Blocks
                                   /\ t.hdr[o].length <= Len(t.mem[t.hdr[o].ptr])
      /\ t.mem \in [Blocks -> Seq(Slot)] /\ SSO \in Nat
  BY StrParts, BuffersAssumption
<1>2. /\ Str!Data(t, o) \in Seq(Slot)
      /\ t.hdr[o].length <= Len(Str!Data(t, o))
  BY <1>1 DEF Str!Data
<1> QED
  BY <1>1, <1>2 DEF Str!Contents

(* An assignment gives the old block back and takes a new one.             *)
LEMMA StrAssign ==
  ASSUME NEW t, StrInv(t), NEW o \in Objects, NEW q \in Seq(Slot), Blocks \ t.live # {}
  PROVE  LET u == Str!Assign(t, o, q) IN
         /\ StrInv(u) /\ \A x \in Objects \ {o} : Kept(t, u, StrOwn, x)
<1> DEFINE d == Str!ShmDestroy(t, o)
           u == Str!CreateStr(d, o, q)
<1>1. /\ StrInv(d) /\ d.hdr[o].length = 0 /\ Blocks \ d.live # {}
      /\ \A x \in Objects \ {o} : Kept(t, d, StrOwn, x)
  BY StrDestroy
<1> HIDE DEF d
<1>2. StrInv(u) /\ \A x \in Objects \ {o} : Kept(d, u, StrOwn, x)
  BY <1>1, StrCreate
<1> HIDE DEF u
<1> QED
  BY <1>1, <1>2 DEF Kept, Str!Assign, u, d

(* shm_strong_move_op: the header moves, or the contents do.               *)
LEMMA StrMove ==
  ASSUME NEW t, StrInv(t), NEW o \in Objects, NEW p \in Objects \ {o}, Blocks \ t.live # {}
  PROVE  LET u == Str!Move(t, o, p) IN
         /\ StrInv(u) /\ \A x \in Objects \ {o, p} : Kept(t, u, StrOwn, x)
<1> DEFINE d == Str!ShmDestroy(t, o)
           u == Str!Move(t, o, p)
<1>1. /\ StrInv(d) /\ d.hdr[o].length = 0 /\ Blocks \ d.live # {}
      /\ \A x \in Objects \ {o} : Kept(t, d, StrOwn, x)
  BY StrDestroy
<1>2. CASE t.alloc[o] = t.alloc[p]
  <2> DEFINE h == Str!EmptyHeader
             w == [d EXCEPT !.hdr[o] = t.hdr[p]]
  <2>1. u = [w EXCEPT !.hdr[p] = h]
    BY <1>2 DEF Str!Move, Str!SetNull
  <2>2. /\ h \in StrHeaders /\ h.length = 0 /\ Len(h.sso) = SSO /\ SSO \in Nat \ {0}
    BY BuffersAssumption DEF StrHeaders, Str!EmptyHeader, Str!RawSlots, Slot
  <2> HIDE DEF d, u, h
  <2>3. /\ d \in HeapStores(Slot, StrHeaders) /\ d.hdr \in [Objects -> StrHeaders]
        /\ t.hdr[p] = d.hdr[p] /\ d.hdr[p] \in StrHeaders
        /\ StrOwn[d.hdr[o]] = Null
    BY <1>1, StrParts, BuffersAssumption DEF Kept
  <2>4. Sound(d, Slot, StrHeaders, StrOwn, StrFit, Objects \ {o})
    BY <1>1, <2>3, SoundDrop DEF StrInv
  <2>5. /\ w \in HeapStores(Slot, StrHeaders) /\ w.hdr = [d.hdr EXCEPT ![o] = d.hdr[p]]
        /\ w.live = d.live /\ w.mem = d.mem
    BY <2>3 DEF HeapStores
  <2> HIDE DEF w
  <2>6. /\ u \in HeapStores(Slot, StrHeaders) /\ u.hdr = [w.hdr EXCEPT ![p] = h]
        /\ u.live = d.live /\ u.mem = d.mem
    BY <2>1, <2>2, <2>5 DEF HeapStores
  <2>7. /\ u.hdr[o] = d.hdr[p] /\ u.hdr[p] = h
        /\ \A x \in Objects \ {o, p} : u.hdr[x] = d.hdr[x]
    BY <2>3, <2>5, <2>6
  <2>8. StrOwn[h] = Null /\ <<h, <<>>>> \in StrFit
    BY <2>2, StrShort
  <2>9. /\ Sound(u, Slot, StrHeaders, StrOwn, StrFit, Objects)
        /\ \A x \in Objects \ {o, p} : Kept(d, u, StrOwn, x)
    BY <2>4, <2>6, <2>7, <2>8, SoundMove
  <2> QED
    BY <1>1, <2>9 DEF Kept, StrInv, u
<1>3. CASE t.alloc[o] # t.alloc[p]
  <2> DEFINE q == Str!Contents(t, p)
             w == Str!CreateStr(d, o, q)
  <2>1. u = Str!ShmDestroy(w, p)
    BY <1>3 DEF Str!Move
  <2>2. q \in Seq(Slot)
    BY StrContents
  <2> HIDE DEF d, q, u
  <2>3. StrInv(w) /\ \A x \in Objects \ {o} : Kept(d, w, StrOwn, x)
    BY <1>1, <2>2, StrCreate
  <2> HIDE DEF w
  <2>4. StrInv(u) /\ \A x \in Objects \ {p} : Kept(w, u, StrOwn, x)
    BY <2>1, <2>3, StrDestroy
  <2> QED
    BY <1>1, <2>3, <2>4 DEF Kept, u
<1> QED
  BY <1>2, <1>3

(* A resize of long contents takes a larger block.                         *)
LEMMA StrReallocate ==
  ASSUME NEW t, StrInv(t), NEW o \in Objects, t.hdr[o].length >= SSO,
         NEW n \in Nat, n > t.hdr[o].length, NEW v \in Values, Blocks \ t.live # {}
  PROVE  LET u == [Str!Reallocate(t, o, n, v) EXCEPT !.hdr[o].length = n] IN
         /\ StrInv(u) /\ \A x \in Objects \ {o} : Kept(t, u, StrOwn, x)
<1> DEFINE a == t.hdr[o].ptr
           q == Str!Padded(t.mem[a], n, v)
           b == Str!FreeBlock(t)
           w == Str!Allocate(t, q)
           r == Str!Release(w, a)
           z == [r EXCEPT !.hdr[o].ptr = b]
           u == [z EXCEPT !.hdr[o].length = n]
           h == [t.hdr[o] EXCEPT !.ptr = b, !.length = n]
<1>0. /\ t \in HeapStores(Slot, StrHeaders) /\ t.hdr \in [Objects -> StrHeaders]
      /\ t.mem \in [Blocks -> Seq(Slot)] /\ t.live \subseteq Blocks /\ Null \notin Blocks
      /\ SSO \in Nat \ {0} /\ t.hdr[o] \in StrHeaders /\ Len(t.hdr[o].sso) = SSO
      /\ t.hdr[o].length \in Nat /\ a \in t.live /\ a \in Blocks /\ a # Null
      /\ StrOwn[t.hdr[o]] = a
  BY StrParts, BuffersAssumption
<1>1. Str!Reallocate(t, o, n, v) = z
  BY <1>0 DEF Str!Reallocate
<1>2. b \in Blocks \ t.live /\ b # a
  BY <1>0, StrFreeBlock
<1>3. q \in Seq(Slot) /\ Len(q) = n
  <2>1. t.mem[a] \in Seq(Slot) /\ v \in Slot
    BY <1>0 DEF Slot
  <2> HIDE DEF a
  <2> QED
    BY <2>1, PaddedSlots DEF Str!Padded
<1> HIDE DEF q, b
<1>4. /\ w \in HeapStores(Slot, StrHeaders) /\ w.hdr = t.hdr
      /\ w.live = t.live \cup {b} /\ w.mem = [t.mem EXCEPT ![b] = q]
  BY <1>0, <1>2, <1>3 DEF Str!Allocate, HeapStores, b
<1> HIDE DEF w, a
<1>5. r = [w EXCEPT !.live = @ \ {a}, !.mem[a] = <<>>]
  BY DEF Str!Release
<1> HIDE DEF r
<1>6. /\ r \in HeapStores(Slot, StrHeaders) /\ r.hdr = t.hdr
      /\ r.live = w.live \ {a} /\ r.mem = [w.mem EXCEPT ![a] = <<>>]
  BY <1>0, <1>4, <1>5, EmptyIsSeq DEF HeapStores
<1>7. /\ h \in StrHeaders /\ h.length = n /\ h.ptr = b /\ h.sso = t.hdr[o].sso
  BY <1>0, <1>2 DEF StrHeaders
<1>8. u = [r EXCEPT !.hdr[o] = h]
  <2>1. z = [r EXCEPT !.hdr[o] = [@ EXCEPT !.ptr = b]]
    OBVIOUS
  <2> DEFINE g == [t.hdr[o] EXCEPT !.ptr = b]
  <2>2. z.hdr = [t.hdr EXCEPT ![o] = g] /\ g \in StrHeaders
    BY <1>0, <1>2, <1>6, <2>1 DEF HeapStores, StrHeaders
  <2>3. z = [r EXCEPT !.hdr = [t.hdr EXCEPT ![o] = g]]
    BY <1>6, <2>1
  <2>4. h = [g EXCEPT !.length = n]
    BY <1>0 DEF StrHeaders
  <2> HIDE DEF z, g, h
  <2>5. u = [z EXCEPT !.hdr = [z.hdr EXCEPT ![o] = [g EXCEPT !.length = n]]]
    BY <1>0, <2>2
  <2>6. [z.hdr EXCEPT ![o] = h] = [t.hdr EXCEPT ![o] = h]
    BY <1>0, <2>2
  <2> HIDE DEF u
  <2> QED
    BY <1>0, <1>6, <2>3, <2>4, <2>5, <2>6 DEF HeapStores
<1> HIDE DEF z, h, u
<1>9. StrOwn[h] = b /\ <<h, q>> \in StrFit
  <2>1. h.length >= SSO /\ h.length <= Len(q)
    BY <1>0, <1>3, <1>7
  <2> QED
    BY <1>0, <1>2, <1>3, <1>7, <2>1, StrLong
<1>10. /\ u \in HeapStores(Slot, StrHeaders) /\ u.hdr = [t.hdr EXCEPT ![o] = h]
       /\ u.live = r.live /\ u.mem = r.mem
  BY <1>6, <1>7, <1>8 DEF HeapStores
<1>11. u.hdr[o] = h /\ \A x \in Objects \ {o} : u.hdr[x] = t.hdr[x]
  BY <1>0, <1>10
<1>12. /\ u.mem[b] = q /\ \A d \in t.live \ {StrOwn[t.hdr[o]]} : u.mem[d] = t.mem[d]
       /\ u.live = (t.live \cup {b}) \ {StrOwn[t.hdr[o]]}
  BY <1>0, <1>2, <1>4, <1>6, <1>10
<1>13. /\ StrOwn[u.hdr[o]] = b /\ OwnSlots(u, StrOwn, o) = q
       /\ <<u.hdr[o], OwnSlots(u, StrOwn, o)>> \in StrFit
  BY <1>0, <1>2, <1>9, <1>11, <1>12 DEF OwnSlots
<1>14. /\ Sound(u, Slot, StrHeaders, StrOwn, StrFit, Objects)
       /\ \A x \in Objects \ {o} : Kept(t, u, StrOwn, x)
  BY <1>2, <1>10, <1>11, <1>12, <1>13, SoundReplace DEF StrInv
<1> QED
  BY <1>1, <1>14 DEF StrInv, u

(* A change of the header or the bytes of a string, which keeps its block. *)
LEMMA StrWrite ==
  ASSUME NEW t, StrInv(t), NEW o \in Objects, NEW u \in HeapStores(Slot, StrHeaders),
         u.live = t.live, Len(u.hdr[o].sso) = SSO, u.hdr[o].ptr = t.hdr[o].ptr,
         u.hdr[o].length < SSO <=> t.hdr[o].length < SSO,
         t.hdr[o].length >= SSO => u.hdr[o].length <= Len(u.mem[t.hdr[o].ptr]),
         \A x \in Objects \ {o} : u.hdr[x] = t.hdr[x],
         \A b \in t.live : (t.hdr[o].length >= SSO => b # t.hdr[o].ptr) => u.mem[b] = t.mem[b]
  PROVE  /\ StrInv(u) /\ \A x \in Objects \ {o} : Kept(t, u, StrOwn, x)
<1>0. /\ t.live \subseteq Blocks /\ Null \notin Blocks /\ SSO \in Nat \ {0}
      /\ t.hdr[o].length \in Nat /\ u.mem \in [Blocks -> Seq(Slot)]
      /\ u.hdr[o] \in StrHeaders /\ u.hdr[o].length \in Nat
      /\ t.hdr[o].length >= SSO => t.hdr[o].ptr \in t.live
      /\ StrOwn[t.hdr[o]] = IF t.hdr[o].length < SSO THEN Null ELSE t.hdr[o].ptr
  <2>1. u.mem \in [Blocks -> Seq(Slot)] /\ u.hdr[o] \in StrHeaders
    BY StoreParts
  <2>2. u.hdr[o].length \in Nat
    BY <2>1 DEF StrHeaders
  <2> QED
    BY <2>1, <2>2, StrParts, BuffersAssumption
<1>1. CASE t.hdr[o].length < SSO
  <2>1. StrOwn[u.hdr[o]] = Null /\ <<u.hdr[o], <<>>>> \in StrFit
    BY <1>0, <1>1, StrShort
  <2>2. OwnSlots(u, StrOwn, o) = <<>>
    BY <2>1 DEF OwnSlots
  <2>3. /\ <<u.hdr[o], OwnSlots(u, StrOwn, o)>> \in StrFit
        /\ StrOwn[u.hdr[o]] = StrOwn[t.hdr[o]]
        /\ \A d \in t.live \ {StrOwn[t.hdr[o]]} : u.mem[d] = t.mem[d]
    BY <1>0, <1>1, <2>1, <2>2
  <2> QED
    BY <2>3, SoundWrite DEF StrInv
<1>2. CASE ~(t.hdr[o].length < SSO)
  <2> DEFINE a == t.hdr[o].ptr
             q == u.mem[a]
  <2>0. a \in t.live /\ q \in Seq(Slot) /\ u.hdr[o].ptr \in Blocks /\ u.hdr[o].length >= SSO
    BY <1>0, <1>2
  <2>4. u.hdr[o].length <= Len(q)
    BY <1>0, <1>2
  <2> HIDE DEF q
  <2>1. StrOwn[u.hdr[o]] = u.hdr[o].ptr /\ <<u.hdr[o], q>> \in StrFit
    BY <1>0, <2>0, <2>4, StrLong
  <2>2. OwnSlots(u, StrOwn, o) = q
    BY <1>0, <2>0, <2>1 DEF OwnSlots, q
  <2>3. /\ <<u.hdr[o], OwnSlots(u, StrOwn, o)>> \in StrFit
        /\ StrOwn[u.hdr[o]] = StrOwn[t.hdr[o]]
        /\ \A d \in t.live \ {StrOwn[t.hdr[o]]} : u.mem[d] = t.mem[d]
    BY <1>0, <1>2, <2>1, <2>2
  <2> QED
    BY <2>3, SoundWrite DEF StrInv
<1> QED
  BY <1>1, <1>2

(* Every call keeps the invariant.                                         *)
LEMMA StrStep ==
  ASSUME StrInv(store), Str!Next
  PROVE  StrInv(store')
<1>0. /\ store \in HeapStores(Slot, StrHeaders)
      /\ store.hdr \in [Objects -> StrHeaders] /\ store.mem \in [Blocks -> Seq(Slot)]
      /\ store.live \subseteq Blocks /\ SSO \in Nat \ {0} /\ MaxLength \in Nat
  BY StrParts, BuffersAssumption
<1>a. ASSUME NEW u, Str!Call(u) PROVE store' = u /\ Blocks \ store.live # {}
  <2>1. Str!Room(store) >= 1 /\ store' = u
    BY <1>a DEF Str!Call, Str!Becomes
  <2>2. Str!Cardinality(Blocks \ store.live) = Cardinality(Blocks \ store.live)
    BY DEF Cardinality, Str!Cardinality
  <2> QED
    BY <2>1, <2>2, FS_EmptySet DEF Str!Room
<1>1. ASSUME NEW o \in Objects, NEW q \in Literals, Str!AssignStd(o, q)
      PROVE  StrInv(store')
  <2>1. q \in Seq(Slot)
    BY <1>1, BuffersAssumption DEF Slot
  <2> QED
    BY <1>1, <1>a, <2>1, StrAssign DEF Str!AssignStd
<1>2. ASSUME NEW o \in Objects, NEW p \in Objects, Str!CopyAssign(o, p)
      PROVE  StrInv(store')
  BY <1>2, <1>a, StrContents, StrAssign DEF Str!CopyAssign
<1>3. ASSUME NEW o \in Objects, NEW p \in Objects \ {o}, Str!MoveAssign(o, p)
      PROVE  StrInv(store')
  BY <1>3, <1>a, StrMove DEF Str!MoveAssign
<1>4. ASSUME NEW o \in Objects, NEW n \in Str!SoundSizes(o), NEW v \in Values,
             Str!ResizeCall(o, n, v)
      PROVE  StrInv(store')
  <2>0. /\ store' = Str!Resize(store, o, n, v) /\ Blocks \ store.live # {}
        /\ n \in Nat /\ store.hdr[o].length \in Nat
    BY <1>0, <1>4, <1>a, StrParts DEF Str!ResizeCall, Str!SoundSizes
  <2>1. CASE store.hdr[o].length = 0
    <3> DEFINE q == [i \in 1..n |-> v]
    <3>1. q \in Seq(Slot)
      BY <2>0 DEF Slot
    <3>2. store' = Str!CreateStr(store, o, q)
      BY <2>0, <2>1 DEF Str!Resize
    <3> HIDE DEF q
    <3> QED
      BY <2>0, <2>1, <3>1, <3>2, StrCreate
  <2>2. CASE store.hdr[o].length # 0 /\ store.hdr[o].length < n
    <3>1. store.hdr[o].length >= SSO
      BY <1>0, <2>0, <2>2 DEF Str!SoundSizes, Str!Length
    <3>2. store' = [Str!Reallocate(store, o, n, v) EXCEPT !.hdr[o].length = n]
      BY <2>0, <2>2 DEF Str!Resize
    <3> QED
      BY <2>0, <2>2, <3>1, <3>2, StrReallocate
  <2>3. CASE store.hdr[o].length # 0 /\ ~(store.hdr[o].length < n)
    <3> DEFINE h == [store.hdr[o] EXCEPT !.length = n]
               u == [store EXCEPT !.hdr[o] = h]
    <3>1. store' = u
      BY <2>0, <2>3 DEF Str!Resize
    <3>2. /\ h \in StrHeaders /\ h.length = n
          /\ h.ptr = store.hdr[o].ptr /\ h.sso = store.hdr[o].sso
      BY <1>0, <2>0 DEF StrHeaders
    <3> HIDE DEF h
    <3>3. /\ u \in HeapStores(Slot, StrHeaders) /\ u.hdr = [store.hdr EXCEPT ![o] = h]
          /\ u.live = store.live /\ u.mem = store.mem
      BY <1>0, <3>2 DEF HeapStores
    <3>4. u.hdr[o] = h /\ \A x \in Objects \ {o} : u.hdr[x] = store.hdr[x]
      BY <1>0, <3>3
    <3> HIDE DEF u
    <3>5. /\ Len(store.hdr[o].sso) = SSO
          /\ store.hdr[o].length >= SSO =>
               store.hdr[o].length <= Len(store.mem[store.hdr[o].ptr])
          /\ store.hdr[o].length >= SSO => store.hdr[o].ptr \in Blocks
      BY <1>0, StrParts
    <3>6. n < SSO <=> store.hdr[o].length < SSO
      BY <1>0, <2>0, <2>3 DEF Str!SoundSizes, Str!Length
    <3>7. store.hdr[o].length >= SSO => n <= Len(store.mem[store.hdr[o].ptr])
      <4>1. store.hdr[o].length >= SSO => store.mem[store.hdr[o].ptr] \in Seq(Slot)
        BY <1>0, <3>5
      <4> QED
        BY <2>0, <2>3, <3>5, <4>1
    <3>8. StrInv(u)
      BY <3>2, <3>3, <3>4, <3>5, <3>6, <3>7, StrWrite
    <3> QED
      BY <3>1, <3>8
  <2> QED
    BY <2>1, <2>2, <2>3
<1>5. ASSUME NEW o \in Objects, NEW i \in 1..Str!Length(o), NEW v \in Values,
             Str!Modify(o, i, v)
      PROVE  StrInv(store')
  <2>0. /\ store.hdr[o].length \in Nat /\ i \in 1..store.hdr[o].length /\ v \in Slot
        /\ store.hdr[o] \in StrHeaders /\ store.hdr[o].sso \in Seq(Slot)
        /\ Len(store.hdr[o].sso) = SSO
        /\ store.hdr[o].length >= SSO =>
             /\ store.hdr[o].ptr \in Blocks
             /\ store.hdr[o].length <= Len(store.mem[store.hdr[o].ptr])
    BY <1>0, StrParts DEF Str!Length, Slot
  <2>1. CASE store.hdr[o].length < SSO
    <3> DEFINE s == [store.hdr[o].sso EXCEPT ![i] = v]
               h == [store.hdr[o] EXCEPT !.sso = s]
               u == [store EXCEPT !.hdr[o] = h]
    <3>0. Str!Call(u)
      BY <1>5, <2>1, Zenon DEF Str!Modify, Str!Length
    <3> HIDE DEF u
    <3>1. store' = u
      BY <1>a, <3>0
    <3> USE DEF u
    <3>2. s \in Seq(Slot) /\ Len(s) = SSO
      BY <1>0, <2>0, <2>1
    <3> HIDE DEF s
    <3>3. /\ h \in StrHeaders /\ h.length = store.hdr[o].length
          /\ h.ptr = store.hdr[o].ptr /\ h.sso = s
      BY <1>0, <2>0, <3>2 DEF StrHeaders
    <3> HIDE DEF h
    <3>4. /\ u \in HeapStores(Slot, StrHeaders) /\ u.hdr = [store.hdr EXCEPT ![o] = h]
          /\ u.live = store.live /\ u.mem = store.mem
      BY <1>0, <3>3 DEF HeapStores
    <3>5. u.hdr[o] = h /\ \A x \in Objects \ {o} : u.hdr[x] = store.hdr[x]
      BY <1>0, <3>4
    <3> HIDE DEF u
    <3>6. StrInv(u)
      BY <2>0, <3>2, <3>3, <3>4, <3>5, StrWrite
    <3> QED
      BY <3>1, <3>6
  <2>2. CASE ~(store.hdr[o].length < SSO)
    <3> DEFINE b == store.hdr[o].ptr
               q == [store.mem[b] EXCEPT ![i] = v]
               u == [store EXCEPT !.mem[b] = q]
    <3>1. store' = u
      BY <1>5, <1>a, <2>2 DEF Str!Modify, Str!Length
    <3>2. b \in Blocks /\ store.mem[b] \in Seq(Slot) /\ i \in 1..Len(store.mem[b])
          /\ store.hdr[o].length >= SSO
      BY <1>0, <2>0, <2>2
    <3>3. q \in Seq(Slot) /\ Len(q) = Len(store.mem[b])
      BY <2>0, <3>2
    <3> HIDE DEF q, b
    <3>4. /\ u \in HeapStores(Slot, StrHeaders) /\ u.hdr = store.hdr /\ u.live = store.live
          /\ u.mem = [store.mem EXCEPT ![b] = q]
      BY <1>0, <3>2, <3>3 DEF HeapStores
    <3> HIDE DEF u
    <3>5. u.mem[b] = q /\ \A d \in store.live \ {b} : u.mem[d] = store.mem[d]
      BY <1>0, <3>2, <3>4
    <3>6. /\ \A d \in store.live : (store.hdr[o].length >= SSO => d # store.hdr[o].ptr)
                                     => u.mem[d] = store.mem[d]
          /\ u.hdr[o].length <= Len(u.mem[store.hdr[o].ptr])
      BY <2>0, <3>2, <3>3, <3>4, <3>5 DEF b
    <3>8. /\ u.hdr[o].ptr = store.hdr[o].ptr /\ Len(u.hdr[o].sso) = SSO
          /\ u.hdr[o].length < SSO <=> store.hdr[o].length < SSO
          /\ \A x \in Objects \ {o} : u.hdr[x] = store.hdr[x]
      BY <2>0, <3>4
    <3>7. StrInv(u)
      BY <2>0, <3>4, <3>6, <3>8, StrWrite
    <3> QED
      BY <3>1, <3>7
  <2> QED
    BY <2>1, <2>2
<1> QED
  BY <1>1, <1>2, <1>3, <1>4, <1>5 DEF Str!Next

(* New strings own nothing.                                                *)
LEMMA StrInit ==
  ASSUME Str!Init
  PROVE  StrInv(store)
<1> DEFINE h == Str!EmptyHeader
<1>1. SSO \in Nat \ {0}
  BY BuffersAssumption
<1>2. h \in StrHeaders /\ h.length = 0 /\ Len(h.sso) = SSO
  BY <1>1 DEF StrHeaders, Str!EmptyHeader, Str!RawSlots, Slot
<1> HIDE DEF h
<1>3. StrOwn[h] = Null /\ <<h, <<>>>> \in StrFit
  BY <1>1, <1>2, StrShort
<1>4. PICK a \in [Objects -> Allocators] :
        store = [mem |-> [b \in Blocks |-> <<>>], live |-> {},
                 hdr |-> [o \in Objects |-> h], alloc |-> a]
  BY DEF Str!Init, Str!EmptyStore, h
<1>5. /\ store \in HeapStores(Slot, StrHeaders) /\ store.live = {}
      /\ \A o \in Objects : store.hdr[o] = h
  BY <1>2, <1>4, EmptyIsSeq DEF HeapStores
<1>6. Sound(store, Slot, StrHeaders, StrOwn, StrFit, Objects)
  BY <1>3, <1>5, SoundNothing
<1> QED
  BY <1>6 DEF StrInv

(* What the invariant says of the headers and of the blocks.               *)
LEMMA StrPromises ==
  ASSUME kind = "string", StrInv(store)
  PROVE  BlocksOwnedOnce /\ BlocksFit
<1>1. /\ store.live \subseteq Blocks /\ Null \notin Blocks /\ SSO \in Nat
      /\ \A o \in Objects :
           /\ store.hdr[o].length \in Nat
           /\ store.hdr[o].length >= SSO => store.hdr[o].ptr \in Blocks
           /\ StrOwn[store.hdr[o]] =
                IF store.hdr[o].length < SSO THEN Null ELSE store.hdr[o].ptr
  BY StrParts, BuffersAssumption
<1>2. BlocksOwnedOnce
  <2>1. \A o \in Objects : BufferOwned(o) = One(StrOwn[store.hdr[o]])
    <3> SUFFICES ASSUME NEW o \in Objects PROVE BufferOwned(o) = One(StrOwn[store.hdr[o]])
      OBVIOUS
    <3>1. BufferOwned(o) = Str!Owned(o)
      BY DEF BufferOwned
    <3> QED
      BY <1>1, <3>1 DEF Str!Owned, Str!Length, One
  <2> QED
    BY <2>1, SoundOwnedOnce DEF StrInv
<1>3. BlocksFit
  <2>1. \A o \in Objects : Str!Fits(o)
    BY <1>1, StrParts DEF Str!Fits, Str!Length, Str!Data
  <2> QED
    BY <2>1 DEF BlocksFit, BufferFits
<1> QED
  BY <1>2, <1>3

-----------------------------------------------------------------------------
(* array                                                                   *)
ArrHeaders == [ptr : Blocks \cup {Null}, local : Blocks \cup {Null}, size : Nat]

ArrOwn == [h \in ArrHeaders |-> h.ptr]

(* Both addresses and the size are those of the block, which holds objects.*)
ArrFit == {g \in ArrHeaders \X Seq(Values) : g[1].local = g[1].ptr /\ g[1].size = Len(g[2])}

ArrInv(t) == Sound(t, Slot, ArrHeaders, ArrOwn, ArrFit, Objects)

(* When the header of an array and its block fit.                          *)
LEMMA ArrFitIs ==
  ASSUME NEW h \in ArrHeaders, NEW q \in Seq(Values)
  PROVE  <<h, q>> \in ArrFit <=> h.local = h.ptr /\ h.size = Len(q)
BY DEF ArrFit

(* What the invariant says of the parts of the store.                      *)
LEMMA ArrParts ==
  ASSUME NEW t, ArrInv(t)
  PROVE  /\ t \in HeapStores(Slot, ArrHeaders)
         /\ t.mem \in [Blocks -> Seq(Slot)] /\ t.live \subseteq Blocks
         /\ t.hdr \in [Objects -> ArrHeaders]
         /\ \A o \in Objects :
              /\ ArrOwn[t.hdr[o]] = t.hdr[o].ptr /\ t.hdr[o].ptr \in t.live \cup {Null}
              /\ OwnSlots(t, ArrOwn, o) \in Seq(Values)
              /\ t.hdr[o].local = t.hdr[o].ptr
              /\ t.hdr[o].size = Len(OwnSlots(t, ArrOwn, o))
<1>1. /\ t \in HeapStores(Slot, ArrHeaders)
      /\ t.mem \in [Blocks -> Seq(Slot)] /\ t.live \subseteq Blocks
      /\ t.hdr \in [Objects -> ArrHeaders]
  BY StoreParts DEF ArrInv, Sound
<1> SUFFICES ASSUME NEW o \in Objects
             PROVE /\ ArrOwn[t.hdr[o]] = t.hdr[o].ptr /\ t.hdr[o].ptr \in t.live \cup {Null}
                   /\ OwnSlots(t, ArrOwn, o) \in Seq(Values)
                   /\ t.hdr[o].local = t.hdr[o].ptr
                   /\ t.hdr[o].size = Len(OwnSlots(t, ArrOwn, o))
  BY <1>1
<1> DEFINE h == t.hdr[o]
           q == OwnSlots(t, ArrOwn, o)
<1>2. h \in ArrHeaders /\ <<h, q>> \in ArrFit /\ ArrOwn[h] \in t.live \cup {Null}
  BY <1>1 DEF ArrInv, Sound
<1> HIDE DEF h, q
<1>3. q \in Seq(Values) /\ ArrOwn[h] = h.ptr
  BY <1>2 DEF ArrFit, ArrOwn
<1>4. h.local = h.ptr /\ h.size = Len(q)
  BY <1>2, <1>3, ArrFitIs
<1> QED
  BY <1>2, <1>3, <1>4 DEF h, q

(* An allocation returns a block that is not live.                         *)
LEMMA ObjFreeBlock ==
  ASSUME NEW t, Blocks \ t.live # {}
  PROVE  Obj!FreeBlock(t) \in Blocks \ t.live
<1>1. Blocks \subseteq Nat
  BY BuffersAssumption
<1> QED
  BY <1>1, FreeIsFree DEF Obj!FreeBlock

(* The first old slots are kept, the others constructed.                   *)
LEMMA Constructed ==
  ASSUME NEW q \in Seq(Slot), NEW old \in Nat, NEW v \in Values,
         \A i \in 1..Len(q) : i <= old => q[i] \in Values
  PROVE  LET r == IF old >= Len(q) THEN q ELSE Obj!Padded(SubSeq(q, 1, old), Len(q), v)
         IN  r \in Seq(Values) /\ Len(r) = Len(q)
<1>1. CASE old >= Len(q)
  <2>1. q \in Seq(Values)
    <3>1. \A i \in 1..Len(q) : q[i] \in Values
      BY <1>1
    <3> QED
      BY <3>1, SeqOver
  <2> QED
    BY <1>1, <2>1
<1>2. CASE ~(old >= Len(q))
  <2> DEFINE s == SubSeq(q, 1, old)
  <2>1. s \in Seq(Slot) /\ Len(s) = old /\ \A i \in 1..old : s[i] = q[i]
    BY <1>2
  <2>2. s \in Seq(Values)
    <3>1. \A i \in 1..Len(s) : s[i] \in Values
      BY <1>2, <2>1
    <3> HIDE DEF s
    <3> QED
      BY <2>1, <3>1, SeqOver
  <2> HIDE DEF s
  <2>3. Obj!Padded(s, Len(q), v) \in Seq(Values) /\ Len(Obj!Padded(s, Len(q), v)) = Len(q)
    BY <2>2, PaddedSlots DEF Obj!Padded
  <2> QED
    BY <1>2, <2>3 DEF s
<1> QED
  BY <1>1, <1>2

(* A block with the slots q, the first old of them objects, takes the place*)
(* of what the array had, and the other objects are constructed.           *)
LEMMA ArrConstruct ==
  ASSUME NEW t, ArrInv(t), NEW o \in Objects, Blocks \ t.live # {},
         NEW q \in Seq(Slot), NEW old \in Nat, NEW v \in Values,
         \A i \in 1..Len(q) : i <= old => q[i] \in Values
  PROVE  LET x == Obj!AllocatePtr(t, o, q)
             y == IF t.hdr[o].ptr = Null THEN x ELSE Obj!Release(x, t.hdr[o].ptr)
             u == Obj!ConstructObjs(y, o, old, v)
         IN  ArrInv(u) /\ \A p \in Objects \ {o} : Kept(t, u, ArrOwn, p)
<1> DEFINE a == t.hdr[o].ptr
           b == Obj!FreeBlock(t)
           w == Obj!Allocate(t, q)
           h == [ptr |-> b, local |-> b, size |-> Len(q)]
           x == [w EXCEPT !.hdr[o] = h]
           y == IF a = Null THEN x ELSE Obj!Release(x, a)
           r == IF old >= Len(q) THEN q ELSE Obj!Padded(SubSeq(q, 1, old), Len(q), v)
           u == [y EXCEPT !.mem[b] = r]
<1>0. /\ t \in HeapStores(Slot, ArrHeaders) /\ t.hdr \in [Objects -> ArrHeaders]
      /\ t.mem \in [Blocks -> Seq(Slot)] /\ t.live \subseteq Blocks /\ Null \notin Blocks
      /\ t.hdr[o] \in ArrHeaders /\ a \in t.live \cup {Null} /\ ArrOwn[t.hdr[o]] = a
  BY ArrParts, BuffersAssumption
<1>1. b \in Blocks \ t.live /\ b # a /\ b # Null
  BY <1>0, ObjFreeBlock
<1>2. x = Obj!AllocatePtr(t, o, q)
  BY DEF Obj!AllocatePtr, Obj!Convert
<1>3. r \in Seq(Values) /\ r \in Seq(Slot) /\ Len(r) = Len(q)
  <2>1. r \in Seq(Values) /\ Len(r) = Len(q)
    BY Constructed
  <2> HIDE DEF r
  <2> QED
    BY <2>1 DEF Slot
<1>4. h \in ArrHeaders /\ h.ptr = b /\ h.local = b /\ h.size = Len(q)
  BY <1>1 DEF ArrHeaders
<1> HIDE DEF b, h
<1>5. /\ w \in HeapStores(Slot, ArrHeaders) /\ w.hdr = t.hdr
      /\ w.live = t.live \cup {b} /\ w.mem = [t.mem EXCEPT ![b] = q]
  BY <1>0, <1>1 DEF Obj!Allocate, HeapStores, b
<1> HIDE DEF w
<1>6. /\ x \in HeapStores(Slot, ArrHeaders) /\ x.hdr = [t.hdr EXCEPT ![o] = h]
      /\ x.live = t.live \cup {b} /\ x.mem = [t.mem EXCEPT ![b] = q]
  BY <1>4, <1>5 DEF HeapStores
<1> HIDE DEF x, a
<1>7. /\ y \in HeapStores(Slot, ArrHeaders) /\ y.hdr = x.hdr
      /\ y.live = x.live \ {a} /\ \A d \in x.live \ {a} : y.mem[d] = x.mem[d]
  <2>1. CASE a = Null
    BY <1>0, <1>1, <1>6, <2>1
  <2>2. CASE a # Null
    <3>1. y = [x EXCEPT !.live = @ \ {a}, !.mem[a] = <<>>]
      BY <2>2 DEF Obj!Release
    <3> HIDE DEF y
    <3> QED
      BY <1>0, <1>6, <2>2, <3>1, EmptyIsSeq DEF HeapStores
  <2> QED
    BY <2>1, <2>2
<1> HIDE DEF y, r
<1>8. /\ u \in HeapStores(Slot, ArrHeaders) /\ u.hdr = x.hdr
      /\ u.live = y.live /\ u.mem = [y.mem EXCEPT ![b] = r]
  BY <1>1, <1>3, <1>7 DEF HeapStores
<1>9. u = Obj!ConstructObjs(y, o, old, v)
  <2>1. y.hdr[o].local = b /\ y.mem[b] = q
    BY <1>0, <1>1, <1>4, <1>6, <1>7
  <2> QED
    BY <2>1 DEF Obj!ConstructObjs, r
<1> HIDE DEF u
<1>10. /\ u.hdr[o] = h /\ \A p \in Objects \ {o} : u.hdr[p] = t.hdr[p]
       /\ u.mem[b] = r
       /\ \A d \in t.live \ {a} : u.mem[d] = t.mem[d]
  <2>1. y.mem \in [Blocks -> Seq(Slot)]
    BY <1>7, StoreParts
  <2> QED
    BY <1>0, <1>1, <1>6, <1>7, <1>8, <2>1
<1>11. ArrOwn[u.hdr[o]] = b /\ OwnSlots(u, ArrOwn, o) = r
  BY <1>1, <1>4, <1>10 DEF ArrOwn, OwnSlots
<1>12. <<u.hdr[o], OwnSlots(u, ArrOwn, o)>> \in ArrFit
  BY <1>3, <1>4, <1>10, <1>11, ArrFitIs
<1>13. u.live = (t.live \cup {b}) \ {ArrOwn[t.hdr[o]]}
  BY <1>0, <1>6, <1>7, <1>8
<1>14. /\ Sound(u, Slot, ArrHeaders, ArrOwn, ArrFit, Objects)
       /\ \A p \in Objects \ {o} : Kept(t, u, ArrOwn, p)
  BY <1>0, <1>1, <1>8, <1>10, <1>11, <1>12, <1>13, SoundReplace DEF ArrInv
<1> QED
  BY <1>2, <1>9, <1>14 DEF ArrInv, y, a

(* Every call keeps the invariant.                                         *)
LEMMA ArrStep ==
  ASSUME ArrInv(store), Obj!NextArray
  PROVE  ArrInv(store')
<1>0. /\ store \in HeapStores(Slot, ArrHeaders)
      /\ store.hdr \in [Objects -> ArrHeaders] /\ store.mem \in [Blocks -> Seq(Slot)]
      /\ store.live \subseteq Blocks /\ MaxLength \in Nat /\ Null \notin Blocks
  BY ArrParts, BuffersAssumption
<1>a. ASSUME NEW u, Obj!Becomes(u, 1) PROVE store' = u /\ Blocks \ store.live # {}
  <2>1. Obj!Room(store) >= 1 /\ store' = u
    BY <1>a DEF Obj!Becomes
  <2>2. Obj!Cardinality(Blocks \ store.live) = Cardinality(Blocks \ store.live)
    BY DEF Cardinality, Obj!Cardinality
  <2> QED
    BY <2>1, <2>2, FS_EmptySet DEF Obj!Room
<1>1. ASSUME NEW o \in Objects, NEW n \in 1..MaxLength, NEW v \in Values,
             store.hdr[o].ptr = Null, Obj!Becomes(Obj!NewObjs(store, o, n, v), 1)
      PROVE  ArrInv(store')
  <2> DEFINE q == Obj!RawSlots(n)
             x == Obj!AllocatePtr(store, o, q)
  <2>1. q \in Seq(Slot) /\ \A i \in 1..Len(q) : i <= 0 => q[i] \in Values
    BY <1>0 DEF Obj!RawSlots, Slot
  <2>2. store' = Obj!ConstructObjs(x, o, 0, v) /\ Blocks \ store.live # {}
    BY <1>1, <1>a DEF Obj!NewObjs, Obj!AllocateObjs
  <2> HIDE DEF q
  <2>3. ArrInv(Obj!ConstructObjs(IF store.hdr[o].ptr = Null THEN x
                 ELSE Obj!Release(x, store.hdr[o].ptr), o, 0, v))
    BY <2>1, <2>2, ArrConstruct
  <2> QED
    BY <1>1, <2>2, <2>3
<1>2. ASSUME NEW o \in Objects, NEW n \in 1..MaxLength, NEW v \in Values,
             Obj!Becomes(Obj!ReallocateObjs(store, o, n, v), 1)
      PROVE  ArrInv(store')
  <2> DEFINE s == OwnSlots(store, ArrOwn, o)
             old == store.hdr[o].size
             q == Obj!Padded(s, n, Raw)
             x == Obj!AllocatePtr(store, o, q)
  <2>1. s = Obj!Slots(store, o) /\ s \in Seq(Values) /\ s \in Seq(Slot)
        /\ old = Len(s) /\ old \in Nat
    BY <1>0, ArrParts DEF OwnSlots, Obj!Slots, Slot
  <2>2. store' = Obj!ConstructObjs(Obj!ReallocatePtr(store, o, n), o, old, v)
        /\ Blocks \ store.live # {}
    BY <1>2, <1>a DEF Obj!ReallocateObjs
  <2> HIDE DEF s
  <2>3. Obj!ReallocatePtr(store, o, n) =
          IF store.hdr[o].ptr = Null THEN x ELSE Obj!Release(x, store.hdr[o].ptr)
    BY <2>1 DEF Obj!ReallocatePtr
  <2>4. n \in Nat /\ Raw \in Slot
    BY <1>0 DEF Slot
  <2>5. q \in Seq(Slot) /\ Len(q) = n
    BY <2>1, <2>4, PaddedSlots DEF Obj!Padded
  <2>6. \A i \in 1..n : q[i] = IF i <= Len(s) THEN s[i] ELSE Raw
    BY <2>1, <2>4, PaddedSlots DEF Obj!Padded
  <2> HIDE DEF q
  <2>7. \A i \in 1..Len(q) : i <= old => q[i] \in Values
    BY <2>1, <2>4, <2>5, <2>6
  <2> HIDE DEF old
  <2>8. ArrInv(Obj!ConstructObjs(IF store.hdr[o].ptr = Null THEN x
                 ELSE Obj!Release(x, store.hdr[o].ptr), o, old, v))
    BY <2>1, <2>2, <2>5, <2>7, ArrConstruct
  <2> QED
    BY <2>2, <2>3, <2>8
<1>3. ASSUME NEW o \in Objects, store.hdr[o].ptr # Null,
             Obj!Becomes(Obj!FreeObjs(store, o), 0)
      PROVE  ArrInv(store')
  <2> DEFINE a == store.hdr[o].ptr
             r == Obj!Release(store, a)
             h == Obj!Array
             u == [r EXCEPT !.hdr[o] = h]
  <2>1. store' = u
    BY <1>3 DEF Obj!Becomes, Obj!FreeObjs, Obj!FreePtr
  <2>2. a \in Blocks /\ ArrOwn[store.hdr[o]] = a
    BY <1>0, <1>3, ArrParts
  <2>3. h \in ArrHeaders /\ h.ptr = Null /\ h.local = Null /\ h.size = 0
    BY DEF ArrHeaders, Obj!Array
  <2> HIDE DEF a, h
  <2>4. r = [store EXCEPT !.live = @ \ {a}, !.mem[a] = <<>>]
    BY DEF Obj!Release
  <2> HIDE DEF r
  <2>5. /\ r \in HeapStores(Slot, ArrHeaders) /\ r.hdr = store.hdr
        /\ r.live = store.live \ {a} /\ r.mem = [store.mem EXCEPT ![a] = <<>>]
    BY <1>0, <2>2, <2>4, EmptyIsSeq DEF HeapStores
  <2>6. \A d \in r.live : r.mem[d] = store.mem[d]
    BY <1>0, <2>5
  <2>7. Sound(r, Slot, ArrHeaders, ArrOwn, ArrFit, Objects \ {o})
    BY <2>2, <2>5, <2>6, SoundRelease DEF ArrInv
  <2>8. /\ u \in HeapStores(Slot, ArrHeaders) /\ u.hdr = [r.hdr EXCEPT ![o] = h]
        /\ u.live = r.live /\ u.mem = r.mem
    BY <2>3, <2>5 DEF HeapStores
  <2> HIDE DEF u
  <2>9. u.hdr[o] = h /\ \A p \in Objects \ {o} : u.hdr[p] = r.hdr[p]
    BY <1>0, <2>5, <2>8
  <2>10. ArrOwn[u.hdr[o]] = Null /\ <<u.hdr[o], <<>>>> \in ArrFit
    <3>1. ArrOwn[h] = Null /\ Len(<<>>) = 0 /\ <<>> \in Seq(Values)
      BY <2>3 DEF ArrOwn
    <3>2. <<h, <<>>>> \in ArrFit
      BY <2>3, <3>1, ArrFitIs
    <3> QED
      BY <2>9, <3>1, <3>2
  <2>11. Sound(u, Slot, ArrHeaders, ArrOwn, ArrFit, Objects)
    BY <2>7, <2>8, <2>9, <2>10, SoundNone
  <2> QED
    BY <2>1, <2>11 DEF ArrInv
<1> QED
  BY <1>1, <1>2, <1>3 DEF Obj!NextArray

(* New arrays have no block.                                               *)
LEMMA ArrInit ==
  ASSUME Obj!InitWith(Obj!Array)
  PROVE  ArrInv(store)
<1> DEFINE h == Obj!Array
<1>1. h \in ArrHeaders /\ h.ptr = Null /\ h.local = Null /\ h.size = 0
  BY DEF ArrHeaders, Obj!Array
<1> HIDE DEF h
<1>2. ArrOwn[h] = Null /\ Len(<<>>) = 0 /\ <<>> \in Seq(Values)
  BY <1>1 DEF ArrOwn
<1>3. <<h, <<>>>> \in ArrFit
  BY <1>1, <1>2, ArrFitIs
<1>4. PICK a \in [Objects -> Allocators] :
        store = [mem |-> [b \in Blocks |-> <<>>], live |-> {},
                 hdr |-> [o \in Objects |-> h], alloc |-> a]
  BY DEF Obj!InitWith, Obj!EmptyStore, h
<1>5. /\ store \in HeapStores(Slot, ArrHeaders) /\ store.live = {}
      /\ \A o \in Objects : store.hdr[o] = h
  BY <1>1, <1>4, EmptyIsSeq DEF HeapStores
<1>6. Sound(store, Slot, ArrHeaders, ArrOwn, ArrFit, Objects)
  BY <1>2, <1>3, <1>5, SoundNothing
<1> QED
  BY <1>6 DEF ArrInv

(* What the invariant says of the headers and of the blocks.               *)
LEMMA ArrPromises ==
  ASSUME kind = "array", ArrInv(store)
  PROVE  BlocksOwnedOnce /\ BlocksFit
<1>1. \A o \in Objects :
        /\ store.hdr[o] \in ArrHeaders /\ ArrOwn[store.hdr[o]] = store.hdr[o].ptr
        /\ Obj!Slots(store, o) = OwnSlots(store, ArrOwn, o)
  BY ArrParts DEF OwnSlots, Obj!Slots
<1>2. BlocksOwnedOnce
  <2>1. \A o \in Objects : BufferOwned(o) = One(ArrOwn[store.hdr[o]])
    <3> SUFFICES ASSUME NEW o \in Objects PROVE BufferOwned(o) = One(ArrOwn[store.hdr[o]])
      OBVIOUS
    <3>1. BufferOwned(o) = Obj!Owned(o)
      BY DEF BufferOwned
    <3>2. "owned" \notin DOMAIN store.hdr[o]
      BY <1>1 DEF ArrHeaders
    <3> QED
      BY <1>1, <3>1, <3>2 DEF Obj!Owned, Obj!Owner, One
  <2> QED
    BY <2>1, SoundOwnedOnce DEF ArrInv
<1>3. BlocksFit
  <2>1. \A o \in Objects : Obj!FitsArray(o)
    <3> SUFFICES ASSUME NEW o \in Objects PROVE Obj!FitsArray(o)
      OBVIOUS
    <3> DEFINE q == OwnSlots(store, ArrOwn, o)
    <3>1. q \in Seq(Values) /\ store.hdr[o].local = store.hdr[o].ptr
          /\ store.hdr[o].size = Len(q)
      BY ArrParts
    <3> HIDE DEF q
    <3>2. Obj!Range(q) \subseteq Values
      BY <3>1 DEF Obj!Range
    <3> QED
      BY <1>1, <3>1, <3>2 DEF Obj!FitsArray, q
  <2> QED
    BY <2>1 DEF BlocksFit, BufferFits
<1> QED
  BY <1>2, <1>3

-----------------------------------------------------------------------------
(* pointer                                                                 *)
PtrHeaders == [ptr : Blocks \cup {Null}, owned : BOOLEAN]

(* A pointer and its aliases lead to one object, which is live; one of them*)
(* owns it.                                                                *)
PtrInv(t) ==
  /\ t \in HeapStores(Values, PtrHeaders)
  /\ \A o \in Objects : t.hdr[o].ptr \in t.live \cup {Null}
  /\ \A o \in Objects : t.hdr[o].owned => t.hdr[o].ptr # Null
  /\ \A b \in t.live : Len(t.mem[b]) = 1
  /\ \A b \in t.live : \E o \in Objects : t.hdr[o].owned /\ t.hdr[o].ptr = b
  /\ \A o, p \in Objects :
       t.hdr[o].owned /\ t.hdr[p].owned /\ t.hdr[o].ptr = t.hdr[p].ptr => o = p

(* What the invariant says of the parts of the store.                      *)
LEMMA PtrParts ==
  ASSUME NEW t, PtrInv(t)
  PROVE  /\ t \in HeapStores(Values, PtrHeaders) /\ Null \notin Blocks
         /\ t.mem \in [Blocks -> Seq(Values)] /\ t.live \subseteq Blocks
         /\ t.hdr \in [Objects -> PtrHeaders]
BY StoreParts, BuffersAssumption DEF PtrInv

(* The pointer o, which owned nothing, gets the object v.                  *)
LEMMA PtrShmInit ==
  ASSUME NEW t, PtrInv(t), NEW o \in Objects, ~t.hdr[o].owned, NEW v \in Values,
         Blocks \ t.live # {}
  PROVE  PtrInv(Obj!ShmInit(t, o, v))
<1> DEFINE b == Obj!FreeBlock(t)
           q == <<v>>
           h == [ptr |-> b, owned |-> TRUE]
           w == Obj!Allocate(t, q)
           u == [w EXCEPT !.hdr[o] = h]
<1>0. /\ t \in HeapStores(Values, PtrHeaders) /\ Null \notin Blocks
      /\ t.mem \in [Blocks -> Seq(Values)] /\ t.live \subseteq Blocks
      /\ t.hdr \in [Objects -> PtrHeaders]
  BY PtrParts
<1>1. b \in Blocks \ t.live
  <2>1. Blocks \subseteq Nat
    BY BuffersAssumption
  <2> QED
    BY <2>1, FreeIsFree DEF Obj!FreeBlock
<1>2. q \in Seq(Values) /\ Len(q) = 1
  OBVIOUS
<1>3. h \in PtrHeaders /\ h.ptr = b /\ h.owned
  BY <1>1 DEF PtrHeaders
<1> HIDE DEF b, q, h
<1>4. /\ w \in HeapStores(Values, PtrHeaders) /\ w.hdr = t.hdr
      /\ w.live = t.live \cup {b} /\ w.mem = [t.mem EXCEPT ![b] = q]
  BY <1>0, <1>1, <1>2 DEF Obj!Allocate, HeapStores, b
<1> HIDE DEF w
<1>5. /\ u \in HeapStores(Values, PtrHeaders) /\ u.hdr = [t.hdr EXCEPT ![o] = h]
      /\ u.live = t.live \cup {b} /\ u.mem = [t.mem EXCEPT ![b] = q]
  BY <1>3, <1>4 DEF HeapStores
<1>6. u = Obj!ShmInit(t, o, v)
  BY DEF Obj!ShmInit, w, b, q, h
<1> HIDE DEF u
<1>7. /\ u.hdr[o] = h /\ \A x \in Objects \ {o} : u.hdr[x] = t.hdr[x]
      /\ u.mem[b] = q /\ \A d \in t.live : u.mem[d] = t.mem[d]
  BY <1>0, <1>1, <1>5
<1>8. \A x \in Objects : u.hdr[x].ptr \in u.live \cup {Null}
  BY <1>3, <1>5, <1>7 DEF PtrInv
<1>9. \A x \in Objects : u.hdr[x].owned => u.hdr[x].ptr # Null
  BY <1>0, <1>1, <1>3, <1>7 DEF PtrInv
<1>10. \A d \in u.live : Len(u.mem[d]) = 1
  BY <1>2, <1>5, <1>7 DEF PtrInv
<1>11. \A d \in u.live : \E x \in Objects : u.hdr[x].owned /\ u.hdr[x].ptr = d
  <2> SUFFICES ASSUME NEW d \in u.live
               PROVE  \E x \in Objects : u.hdr[x].owned /\ u.hdr[x].ptr = d
    OBVIOUS
  <2>1. CASE d = b
    BY <1>3, <1>7, <2>1
  <2>2. CASE d # b
    <3>1. PICK x \in Objects : t.hdr[x].owned /\ t.hdr[x].ptr = d
      BY <1>5, <2>2 DEF PtrInv
    <3>2. u.hdr[x] = t.hdr[x]
      BY <1>7, <3>1
    <3> QED
      BY <3>1, <3>2
  <2> QED
    BY <2>1, <2>2
<1>12. ASSUME NEW x \in Objects, NEW y \in Objects, u.hdr[x].owned, u.hdr[y].owned,
              u.hdr[x].ptr = u.hdr[y].ptr
       PROVE  x = y
  <2>1. \A z \in Objects \ {o} : u.hdr[z].ptr # b
    BY <1>0, <1>1, <1>7 DEF PtrInv
  <2> QED
    BY <1>3, <1>7, <1>12, <2>1 DEF PtrInv
<1>13. PtrInv(u)
  BY <1>5, <1>8, <1>9, <1>10, <1>11, <1>12 DEF PtrInv
<1> QED
  BY <1>6, <1>13

(* The pointer o, which owned nothing, gets the address that p has.        *)
LEMMA PtrAlias ==
  ASSUME NEW t, PtrInv(t), NEW o \in Objects, ~t.hdr[o].owned, NEW p \in Objects \ {o},
         NEW u \in HeapStores(Values, PtrHeaders), u.live = t.live, u.mem = t.mem,
         u.hdr[o].ptr = t.hdr[p].ptr, ~u.hdr[o].owned,
         \A x \in Objects \ {o} : u.hdr[x] = t.hdr[x]
  PROVE  PtrInv(u)
<1>1. \A x \in Objects : u.hdr[x].ptr \in u.live \cup {Null}
  BY DEF PtrInv
<1>2. \A x \in Objects : u.hdr[x].owned => u.hdr[x].ptr # Null
  BY DEF PtrInv
<1>3. \A b \in u.live : \E x \in Objects : u.hdr[x].owned /\ u.hdr[x].ptr = b
  <2> SUFFICES ASSUME NEW b \in u.live
               PROVE  \E x \in Objects : u.hdr[x].owned /\ u.hdr[x].ptr = b
    OBVIOUS
  <2>1. PICK x \in Objects : t.hdr[x].owned /\ t.hdr[x].ptr = b
    BY DEF PtrInv
  <2>2. u.hdr[x] = t.hdr[x]
    BY <2>1
  <2> QED
    BY <2>1, <2>2
<1>4. ASSUME NEW x \in Objects, NEW y \in Objects, u.hdr[x].owned, u.hdr[y].owned,
             u.hdr[x].ptr = u.hdr[y].ptr
      PROVE  x = y
  BY <1>4 DEF PtrInv
<1>5. \A b \in u.live : Len(u.mem[b]) = 1
  BY DEF PtrInv
<1> QED
  BY <1>1, <1>2, <1>3, <1>4, <1>5 DEF PtrInv

(* In a move it gets with it what p owns.                                  *)
LEMMA PtrMove ==
  ASSUME NEW t, PtrInv(t), NEW o \in Objects, ~t.hdr[o].owned, NEW p \in Objects \ {o},
         NEW u \in HeapStores(Values, PtrHeaders), u.live = t.live, u.mem = t.mem,
         u.hdr[o] = t.hdr[p], u.hdr[p].ptr = t.hdr[p].ptr, ~u.hdr[p].owned,
         \A x \in Objects \ {o, p} : u.hdr[x] = t.hdr[x]
  PROVE  PtrInv(u)
<1>1. \A x \in Objects : u.hdr[x].ptr \in u.live \cup {Null}
  BY DEF PtrInv
<1>2. \A x \in Objects : u.hdr[x].owned => u.hdr[x].ptr # Null
  BY DEF PtrInv
<1>3. \A b \in u.live : \E x \in Objects : u.hdr[x].owned /\ u.hdr[x].ptr = b
  <2> SUFFICES ASSUME NEW b \in u.live
               PROVE  \E x \in Objects : u.hdr[x].owned /\ u.hdr[x].ptr = b
    OBVIOUS
  <2>1. PICK x \in Objects : t.hdr[x].owned /\ t.hdr[x].ptr = b
    BY DEF PtrInv
  <2>2. CASE x = p
    BY <2>1, <2>2
  <2>3. CASE x # p
    BY <2>1, <2>3
  <2> QED
    BY <2>2, <2>3
<1>4. ASSUME NEW x \in Objects, NEW y \in Objects, u.hdr[x].owned, u.hdr[y].owned,
             u.hdr[x].ptr = u.hdr[y].ptr
      PROVE  x = y
  BY <1>4 DEF PtrInv
<1>5. \A b \in u.live : Len(u.mem[b]) = 1
  BY DEF PtrInv
<1> QED
  BY <1>1, <1>2, <1>3, <1>4, <1>5 DEF PtrInv

(* The destructor of an owner takes the object away from its aliases too.  *)
LEMMA PtrDestruct ==
  ASSUME NEW t, PtrInv(t), NEW o \in Objects
  PROVE  PtrInv(Obj!Destruct(t, o))
<1> DEFINE g == Obj!Pointer
           a == t.hdr[o].ptr
           u == Obj!Destruct(t, o)
<1>0. /\ t \in HeapStores(Values, PtrHeaders) /\ Null \notin Blocks
      /\ t.mem \in [Blocks -> Seq(Values)] /\ t.live \subseteq Blocks
      /\ t.hdr \in [Objects -> PtrHeaders]
  BY PtrParts
<1>1. g \in PtrHeaders /\ g.ptr = Null /\ ~g.owned
  BY DEF PtrHeaders, Obj!Pointer
<1>2. CASE ~t.hdr[o].owned
  <2>1. u = [t EXCEPT !.hdr[o] = g]
    BY <1>2 DEF Obj!Destruct
  <2> HIDE DEF u, g
  <2>2. /\ u \in HeapStores(Values, PtrHeaders) /\ u.hdr = [t.hdr EXCEPT ![o] = g]
        /\ u.live = t.live /\ u.mem = t.mem
    BY <1>0, <1>1, <2>1 DEF HeapStores
  <2>3. u.hdr[o] = g /\ \A x \in Objects \ {o} : u.hdr[x] = t.hdr[x]
    BY <1>0, <2>2
  <2>4. \A x \in Objects : u.hdr[x].ptr \in u.live \cup {Null}
    BY <1>1, <2>2, <2>3 DEF PtrInv
  <2>5. \A x \in Objects : u.hdr[x].owned => u.hdr[x].ptr # Null
    BY <1>1, <2>2, <2>3 DEF PtrInv
  <2>6. \A b \in u.live : \E x \in Objects : u.hdr[x].owned /\ u.hdr[x].ptr = b
    <3> SUFFICES ASSUME NEW b \in u.live
                 PROVE  \E x \in Objects : u.hdr[x].owned /\ u.hdr[x].ptr = b
      OBVIOUS
    <3>1. PICK x \in Objects : t.hdr[x].owned /\ t.hdr[x].ptr = b
      BY <2>2 DEF PtrInv
    <3>2. u.hdr[x] = t.hdr[x]
      BY <1>2, <2>3, <3>1
    <3> QED
      BY <3>1, <3>2
  <2>7. ASSUME NEW x \in Objects, NEW y \in Objects, u.hdr[x].owned, u.hdr[y].owned,
               u.hdr[x].ptr = u.hdr[y].ptr
        PROVE  x = y
    BY <1>1, <2>3, <2>7 DEF PtrInv
  <2>8. \A b \in u.live : Len(u.mem[b]) = 1
    BY <2>2 DEF PtrInv
  <2>9. PtrInv(u)
    BY <2>2, <2>4, <2>5, <2>6, <2>7, <2>8 DEF PtrInv
  <2> QED
    BY <2>9 DEF u
<1>3. CASE t.hdr[o].owned
  <2> DEFINE r == Obj!Release(t, a)
             hdr == [p \in Objects |-> IF t.hdr[p].ptr = a THEN g ELSE t.hdr[p]]
  <2>1. u = [r EXCEPT !.hdr = hdr]
    BY <1>3 DEF Obj!Destruct
  <2>2. a \in t.live /\ a \in Blocks /\ a # Null
    BY <1>0, <1>3 DEF PtrInv
  <2> HIDE DEF g, a, u
  <2>3. r = [t EXCEPT !.live = @ \ {a}, !.mem[a] = <<>>]
    BY DEF Obj!Release
  <2>4. hdr \in [Objects -> PtrHeaders]
    BY <1>0, <1>1
  <2>5. \A x \in Objects : hdr[x] = IF t.hdr[x].ptr = a THEN g ELSE t.hdr[x]
    OBVIOUS
  <2> HIDE DEF r, hdr
  <2>6. /\ r \in HeapStores(Values, PtrHeaders)
        /\ r.live = t.live \ {a} /\ r.mem = [t.mem EXCEPT ![a] = <<>>]
    BY <1>0, <2>2, <2>3, EmptyIsSeq DEF HeapStores
  <2>7. /\ u \in HeapStores(Values, PtrHeaders) /\ u.hdr = hdr
        /\ u.live = t.live \ {a} /\ u.mem = [t.mem EXCEPT ![a] = <<>>]
    BY <2>1, <2>4, <2>6 DEF HeapStores
  <2>8. \A b \in u.live : u.mem[b] = t.mem[b]
    BY <1>0, <2>7
  <2>9. \A x \in Objects : u.hdr[x].ptr \in u.live \cup {Null}
    BY <1>1, <2>5, <2>7 DEF PtrInv
  <2>10. \A x \in Objects : u.hdr[x].owned => u.hdr[x].ptr # Null
    BY <1>1, <2>5, <2>7 DEF PtrInv
  <2>11. \A b \in u.live : \E x \in Objects : u.hdr[x].owned /\ u.hdr[x].ptr = b
    <3> SUFFICES ASSUME NEW b \in u.live
                 PROVE  \E x \in Objects : u.hdr[x].owned /\ u.hdr[x].ptr = b
      OBVIOUS
    <3>1. PICK x \in Objects : t.hdr[x].owned /\ t.hdr[x].ptr = b
      BY <2>7 DEF PtrInv
    <3>2. u.hdr[x] = t.hdr[x]
      BY <2>5, <2>7, <3>1
    <3> QED
      BY <3>1, <3>2
  <2>12. ASSUME NEW x \in Objects, NEW y \in Objects, u.hdr[x].owned, u.hdr[y].owned,
                u.hdr[x].ptr = u.hdr[y].ptr
         PROVE  x = y
    <3>1. u.hdr[x] = t.hdr[x] /\ u.hdr[y] = t.hdr[y]
      BY <1>1, <2>5, <2>7, <2>12
    <3> QED
      BY <2>12, <3>1 DEF PtrInv
  <2>13. \A b \in u.live : Len(u.mem[b]) = 1
    BY <2>7, <2>8 DEF PtrInv
  <2>14. PtrInv(u)
    BY <2>7, <2>9, <2>10, <2>11, <2>12, <2>13 DEF PtrInv
  <2> QED
    BY <2>14 DEF u
<1> QED
  BY <1>2, <1>3

(* Every call keeps the invariant.                                         *)
LEMMA PtrStep ==
  ASSUME PtrInv(store), Obj!NextPointer
  PROVE  PtrInv(store')
<1>0. /\ store \in HeapStores(Values, PtrHeaders) /\ Null \notin Blocks
      /\ store.mem \in [Blocks -> Seq(Values)] /\ store.live \subseteq Blocks
      /\ store.hdr \in [Objects -> PtrHeaders]
  BY PtrParts
<1>1. ASSUME NEW o \in Objects, ~store.hdr[o].owned, NEW v \in Values,
             Obj!Becomes(Obj!ShmInit(store, o, v), 1)
      PROVE  PtrInv(store')
  <2>1. Obj!Room(store) >= 1 /\ store' = Obj!ShmInit(store, o, v)
    BY <1>1 DEF Obj!Becomes
  <2>2. Obj!Cardinality(Blocks \ store.live) = Cardinality(Blocks \ store.live)
    BY DEF Cardinality, Obj!Cardinality
  <2>3. Blocks \ store.live # {}
    BY <2>1, <2>2, FS_EmptySet DEF Obj!Room
  <2> QED
    BY <1>1, <2>1, <2>3, PtrShmInit
<1>2. ASSUME NEW o \in Objects, ~store.hdr[o].owned, NEW p \in Objects \ {o},
             Obj!Becomes(Obj!Alias(store, o, p), 0)
      PROVE  PtrInv(store')
  <2> DEFINE h == [ptr |-> store.hdr[p].ptr, owned |-> FALSE]
             u == [store EXCEPT !.hdr[o] = h]
  <2>1. store' = u
    BY <1>2 DEF Obj!Becomes, Obj!Alias
  <2>2. store.hdr[p] \in PtrHeaders
    BY <1>0
  <2>3. h \in PtrHeaders /\ h.ptr = store.hdr[p].ptr /\ ~h.owned
    BY <2>2 DEF PtrHeaders
  <2> HIDE DEF h
  <2>4. /\ u \in HeapStores(Values, PtrHeaders) /\ u.hdr = [store.hdr EXCEPT ![o] = h]
        /\ u.live = store.live /\ u.mem = store.mem
    BY <1>0, <2>3 DEF HeapStores
  <2> HIDE DEF u
  <2>5. u.hdr[o] = h /\ \A x \in Objects \ {o} : u.hdr[x] = store.hdr[x]
    BY <1>0, <2>4
  <2>6. /\ u.hdr[o].ptr = store.hdr[p].ptr /\ u.hdr[p] = store.hdr[p] /\ ~u.hdr[o].owned
        /\ \A x \in Objects \ {o, p} : u.hdr[x] = store.hdr[x]
    BY <2>3, <2>5
  <2>7. PtrInv(u)
    <3>1. u \in HeapStores(Values, PtrHeaders) /\ u.live = store.live /\ u.mem = store.mem
      BY <2>4
    <3>2. u.hdr[o].ptr = store.hdr[p].ptr /\ ~u.hdr[o].owned /\ ~store.hdr[o].owned
      BY <1>2, <2>6
    <3>3. \A x \in Objects \ {o} : u.hdr[x] = store.hdr[x]
      BY <2>5
    <3> QED
      BY <3>1, <3>2, <3>3, PtrAlias
  <2> QED
    BY <2>1, <2>7
<1>3. ASSUME NEW o \in Objects, ~store.hdr[o].owned, NEW p \in Objects \ {o},
             Obj!Becomes(Obj!Move(store, o, p), 0)
      PROVE  PtrInv(store')
  <2> DEFINE h == store.hdr[p]
             w == [store EXCEPT !.hdr[o] = h]
             u == [w EXCEPT !.hdr[p] = [@ EXCEPT !.owned = FALSE]]
             g == [h EXCEPT !.owned = FALSE]
  <2>1. store' = u
    BY <1>3 DEF Obj!Becomes, Obj!Move
  <2>2. h \in PtrHeaders
    BY <1>0
  <2>3. g \in PtrHeaders /\ g.ptr = h.ptr /\ ~g.owned
    BY <2>2 DEF PtrHeaders
  <2> HIDE DEF h
  <2>4. /\ w \in HeapStores(Values, PtrHeaders) /\ w.hdr = [store.hdr EXCEPT ![o] = h]
        /\ w.live = store.live /\ w.mem = store.mem
    BY <1>0, <2>2 DEF HeapStores
  <2> HIDE DEF w
  <2>5. w.hdr[p] = h /\ w.hdr[o] = h /\ \A x \in Objects \ {o} : w.hdr[x] = store.hdr[x]
    BY <1>0, <2>4 DEF h
  <2>6. u = [w EXCEPT !.hdr[p] = g]
    BY <2>5
  <2> HIDE DEF u, g
  <2>7. /\ u \in HeapStores(Values, PtrHeaders) /\ u.hdr = [w.hdr EXCEPT ![p] = g]
        /\ u.live = store.live /\ u.mem = store.mem
    BY <2>3, <2>4, <2>6 DEF HeapStores
  <2>8. u.hdr[p] = g /\ u.hdr[o] = h /\ \A x \in Objects \ {o, p} : u.hdr[x] = store.hdr[x]
    <3>1. w.hdr \in [Objects -> PtrHeaders]
      BY <2>4, StoreParts
    <3> QED
      BY <2>5, <2>7, <3>1
  <2>9. /\ u.hdr[o].ptr = store.hdr[p].ptr /\ u.hdr[p].ptr = store.hdr[p].ptr
        /\ ~u.hdr[p].owned /\ u.hdr[o] = store.hdr[p]
    BY <2>3, <2>8 DEF h
  <2>10. PtrInv(u)
    <3>1. u \in HeapStores(Values, PtrHeaders) /\ u.live = store.live /\ u.mem = store.mem
      BY <2>7
    <3>2. u.hdr[o] = store.hdr[p] /\ ~u.hdr[p].owned /\ ~store.hdr[o].owned
      BY <1>3, <2>9
    <3> QED
      BY <2>8, <2>9, <3>1, <3>2, PtrMove
  <2> QED
    BY <2>1, <2>10
<1>4. ASSUME NEW o \in Objects, Obj!Becomes(Obj!Destruct(store, o), 0)
      PROVE  PtrInv(store')
  BY <1>4, PtrDestruct DEF Obj!Becomes
<1>5. ASSUME NEW o \in Objects, store.hdr[o].ptr # Null, NEW v \in Values,
             Obj!Becomes([store EXCEPT !.mem[store.hdr[o].ptr] = <<v>>], 0)
      PROVE  PtrInv(store')
  <2> DEFINE b == store.hdr[o].ptr
             q == <<v>>
             u == [store EXCEPT !.mem[b] = q]
  <2>1. store' = u
    BY <1>5 DEF Obj!Becomes
  <2>2. b \in Blocks /\ q \in Seq(Values) /\ Len(q) = 1
    BY <1>0, <1>5 DEF PtrInv
  <2> HIDE DEF b, q
  <2>3. /\ u \in HeapStores(Values, PtrHeaders) /\ u.hdr = store.hdr
        /\ u.live = store.live /\ u.mem = [store.mem EXCEPT ![b] = q]
    BY <1>0, <2>2 DEF HeapStores
  <2> HIDE DEF u
  <2>4. \A d \in u.live : Len(u.mem[d]) = 1
    BY <1>0, <2>2, <2>3 DEF PtrInv
  <2>5. PtrInv(u)
    BY <2>3, <2>4 DEF PtrInv
  <2> QED
    BY <2>1, <2>5
<1> QED
  BY <1>1, <1>2, <1>3, <1>4, <1>5 DEF Obj!NextPointer

(* New pointers are null.                                                  *)
LEMMA PtrInit ==
  ASSUME Obj!InitWith(Obj!Pointer)
  PROVE  PtrInv(store)
<1> DEFINE h == Obj!Pointer
<1>1. h \in PtrHeaders /\ h.ptr = Null /\ ~h.owned
  BY DEF PtrHeaders, Obj!Pointer
<1> HIDE DEF h
<1>2. PICK a \in [Objects -> Allocators] :
        store = [mem |-> [b \in Blocks |-> <<>>], live |-> {},
                 hdr |-> [o \in Objects |-> h], alloc |-> a]
  BY DEF Obj!InitWith, Obj!EmptyStore, h
<1>3. /\ store \in HeapStores(Values, PtrHeaders) /\ store.live = {}
      /\ \A o \in Objects : store.hdr[o] = h
  BY <1>1, <1>2, EmptyIsSeq DEF HeapStores
<1> QED
  BY <1>1, <1>3 DEF PtrInv

(* What the invariant says of the headers and of the blocks.               *)
LEMMA PtrPromises ==
  ASSUME kind = "pointer", PtrInv(store)
  PROVE  BlocksOwnedOnce /\ BlocksFit
<1> DEFINE own == [o \in Objects |-> IF store.hdr[o].owned THEN store.hdr[o].ptr ELSE Null]
<1>0. /\ store.live \subseteq Blocks /\ Null \notin Blocks
      /\ \A o \in Objects : store.hdr[o] \in PtrHeaders
  BY PtrParts
<1>1. BlocksOwnedOnce
  <2>1. \A o \in Objects : BufferOwned(o) = One(own[o])
    <3> SUFFICES ASSUME NEW o \in Objects PROVE BufferOwned(o) = One(own[o])
      OBVIOUS
    <3>1. BufferOwned(o) = Obj!Owned(o)
      BY DEF BufferOwned
    <3>2. Obj!Owner(o) <=> store.hdr[o].owned
      BY <1>0 DEF PtrHeaders, Obj!Owner
    <3> QED
      BY <3>1, <3>2 DEF Obj!Owned, One
  <2>2. \A o \in Objects : own[o] # Null => own[o] \in store.live
    BY DEF PtrInv
  <2>3. \A b \in store.live : b # Null /\ \E o \in Objects : own[o] = b
    BY <1>0 DEF PtrInv
  <2>4. \A o, p \in Objects : o # p /\ own[o] = own[p] => own[o] = Null
    BY DEF PtrInv
  <2> HIDE DEF own
  <2> QED
    BY <2>1, <2>2, <2>3, <2>4, OneBlockEach
<1>2. BlocksFit
  <2>1. \A o \in Objects : Obj!FitsPointer(o)
    BY DEF PtrInv, Obj!FitsPointer, Obj!Slots
  <2> QED
    BY <2>1 DEF BlocksFit, BufferFits
<1> QED
  BY <1>1, <1>2

-----------------------------------------------------------------------------
(* charbuf                                                                 *)
CharHeaders == [ptr : Blocks \cup {Null}, outside : Seq(Values), size : Nat,
                total : Nat, destructable : BOOLEAN]

(* A charbuf that owns a block has one of its capacity, that is not empty; *)
(* one that does not is no longer than the bytes it refers to.             *)
CharFits(t, o) ==
  LET h == t.hdr[o] IN
  /\ h.size <= h.total
  /\ h.destructable  => /\ h.ptr \in t.live /\ h.total > 0
                        /\ Len(t.mem[h.ptr]) = h.total
  /\ ~h.destructable => h.total <= Len(h.outside)

(* What holds of all objects but those in X, which are being assigned to.  *)
CharInvBut(t, X) ==
  /\ t \in HeapStores(Values, CharHeaders)
  /\ \A o \in Objects \ X : CharFits(t, o)
  /\ \A b \in t.live : \E o \in Objects \ X : t.hdr[o].destructable /\ t.hdr[o].ptr = b
  /\ \A o, p \in Objects \ X :
       t.hdr[o].destructable /\ t.hdr[p].destructable /\ t.hdr[o].ptr = t.hdr[p].ptr => o = p

CharInv(t) == CharInvBut(t, {})

(* An allocation returns a block that is not live.                         *)
LEMMA CharFreeBlock ==
  ASSUME NEW t, Blocks \ t.live # {}
  PROVE  Char!FreeBlock(t) \in Blocks \ t.live
<1>1. Blocks \subseteq Nat
  BY BuffersAssumption
<1> QED
  BY <1>1, FreeIsFree DEF Char!FreeBlock

(* Free takes the block of the buffer away.                                *)
LEMMA CharFree ==
  ASSUME NEW t, CharInv(t), NEW o \in Objects
  PROVE  LET u == Char!Free(t, o) IN
         /\ CharInvBut(u, {o}) /\ u.hdr = t.hdr /\ u.alloc = t.alloc
         /\ u.live = IF t.hdr[o].destructable THEN t.live \ {t.hdr[o].ptr} ELSE t.live
         /\ \A b \in u.live : u.mem[b] = t.mem[b]
<1> DEFINE u == Char!Free(t, o)
<1>0. t \in HeapStores(Values, CharHeaders) /\ t.hdr[o] \in CharHeaders
  BY StoreParts DEF CharInv, CharInvBut
<1>1. CASE t.hdr[o].destructable
  <2> DEFINE b == t.hdr[o].ptr
  <2>1. b \in Blocks /\ t.hdr[o].total # 0
    BY <1>0, <1>1, StoreParts DEF CharInv, CharInvBut, CharFits, CharHeaders
  <2>2. u = [t EXCEPT !.live = @ \ {b}, !.mem[b] = <<>>]
    BY <1>1, <2>1 DEF Char!Free, Char!Release
  <2> HIDE DEF u, b
  <2>3. /\ u \in HeapStores(Values, CharHeaders) /\ u.hdr = t.hdr /\ u.alloc = t.alloc
        /\ u.live = t.live \ {b} /\ u.mem = [t.mem EXCEPT ![b] = <<>>]
    BY <1>0, <2>1, <2>2, EmptyIsSeq DEF HeapStores
  <2>4. \A d \in u.live : u.mem[d] = t.mem[d]
    BY <1>0, <2>3, StoreParts
  <2>5. \A x \in Objects \ {o} : CharFits(u, x)
    BY <1>1, <2>3, <2>4 DEF CharInv, CharInvBut, CharFits, b
  <2>6. CharInvBut(u, {o})
    BY <1>1, <2>3, <2>5 DEF CharInv, CharInvBut, b
  <2> QED
    BY <1>1, <2>3, <2>4, <2>6 DEF u, b
<1>2. CASE ~t.hdr[o].destructable
  BY <1>0, <1>2 DEF Char!Free, CharInv, CharInvBut, CharFits
<1> QED
  BY <1>1, <1>2

(* The buffer o refers to bytes of its caller, or to none.                 *)
LEMMA CharRefers ==
  ASSUME NEW o \in Objects, NEW t, CharInvBut(t, {o}),
         NEW h \in CharHeaders, ~h.destructable, h.size <= h.total, h.total <= Len(h.outside)
  PROVE  CharInv([t EXCEPT !.hdr[o] = h])
<1> DEFINE u == [t EXCEPT !.hdr[o] = h]
<1>1. /\ u \in HeapStores(Values, CharHeaders) /\ u.hdr = [t.hdr EXCEPT ![o] = h]
      /\ u.live = t.live /\ u.mem = t.mem /\ t.hdr \in [Objects -> CharHeaders]
  BY DEF CharInvBut, HeapStores
<1> HIDE DEF u
<1>2. \A x \in Objects : CharFits(u, x)
  BY <1>1 DEF CharInvBut, CharFits
<1>3. CharInv(u)
  BY <1>1, <1>2 DEF CharInv, CharInvBut
<1> QED
  BY <1>3 DEF u

(* The buffer o gets a block of its own, with the slots q.                 *)
LEMMA CharGets ==
  ASSUME NEW o \in Objects, NEW t, CharInvBut(t, {o}), Blocks \ t.live # {},
         NEW q \in Seq(Values), q # <<>>
  PROVE  CharInv([Char!Allocate(t, q) EXCEPT !.hdr[o] =
           [ptr |-> Char!FreeBlock(t), outside |-> <<>>, size |-> Len(q),
            total |-> Len(q), destructable |-> TRUE]])
<1> DEFINE b == Char!FreeBlock(t)
           h == [ptr |-> b, outside |-> <<>>, size |-> Len(q),
                 total |-> Len(q), destructable |-> TRUE]
           w == Char!Allocate(t, q)
           u == [w EXCEPT !.hdr[o] = h]
<1>1. b \in Blocks \ t.live
  BY CharFreeBlock
<1>2. h \in CharHeaders /\ h.destructable /\ h.ptr = b /\ h.size = h.total
      /\ h.total = Len(q) /\ Len(q) > 0
  BY <1>1 DEF CharHeaders
<1>3. t \in HeapStores(Values, CharHeaders)
  BY DEF CharInvBut
<1>4. /\ w \in HeapStores(Values, CharHeaders) /\ w.hdr = t.hdr
      /\ w.live = t.live \cup {b} /\ w.mem = [t.mem EXCEPT ![b] = q]
  BY <1>1, <1>3 DEF Char!Allocate, HeapStores
<1> HIDE DEF h, w, b
<1>5. /\ u \in HeapStores(Values, CharHeaders) /\ u.hdr = [t.hdr EXCEPT ![o] = h]
      /\ u.live = w.live /\ u.mem = w.mem
  BY <1>2, <1>4 DEF HeapStores
<1>6. t.hdr \in [Objects -> CharHeaders] /\ t.mem \in [Blocks -> Seq(Values)]
  BY <1>3, StoreParts
<1> HIDE DEF u
<1>7. \A x \in Objects \ {o} : CharFits(u, x)
  BY <1>1, <1>4, <1>5, <1>6 DEF CharInvBut, CharFits
<1>8. CharFits(u, o)
  BY <1>1, <1>2, <1>4, <1>5, <1>6 DEF CharFits
<1>9. \A d \in u.live : \E x \in Objects : u.hdr[x].destructable /\ u.hdr[x].ptr = d
  BY <1>1, <1>2, <1>4, <1>5, <1>6 DEF CharInvBut
<1>10. \A x, y \in Objects :
         u.hdr[x].destructable /\ u.hdr[y].destructable /\ u.hdr[x].ptr = u.hdr[y].ptr => x = y
  BY <1>1, <1>2, <1>4, <1>5, <1>6 DEF CharInvBut, CharFits
<1>11. CharInv(u)
  BY <1>5, <1>7, <1>8, <1>9, <1>10 DEF CharInv, CharInvBut
<1> QED
  BY <1>11 DEF u, h, w, b

(* The block and the bytes of p become those of o, and p owns nothing.     *)
LEMMA CharMoves ==
  ASSUME NEW o \in Objects, NEW p \in Objects \ {o}, NEW t, CharInvBut(t, {o}),
         NEW h \in CharHeaders, h = t.hdr[p],
         NEW g \in CharHeaders, ~g.destructable, g.size = 0, g.total = 0
  PROVE  CharInv([t EXCEPT !.hdr[o] = h, !.hdr[p] = g])
<1> DEFINE u == [t EXCEPT !.hdr[o] = h, !.hdr[p] = g]
<1>1. t \in HeapStores(Values, CharHeaders)
  BY DEF CharInvBut
<1>2. /\ u \in HeapStores(Values, CharHeaders)
      /\ u.hdr = [t.hdr EXCEPT ![o] = h, ![p] = g]
      /\ u.live = t.live /\ u.mem = t.mem
  BY <1>1 DEF HeapStores
<1>3. t.hdr \in [Objects -> CharHeaders]
  BY <1>1, StoreParts
<1> HIDE DEF u
<1>4. /\ u.hdr[o] = t.hdr[p] /\ u.hdr[p] = g
      /\ \A x \in Objects \ {o, p} : u.hdr[x] = t.hdr[x]
  BY <1>2, <1>3
<1>5. \A x \in Objects : CharFits(u, x)
  <2>1. CharFits(u, p)
    <3>1. Len(g.outside) >= 0
      BY DEF CharHeaders
    <3> QED
      BY <1>4, <3>1 DEF CharFits
  <2>2. CharFits(u, o)
    BY <1>2, <1>4 DEF CharFits, CharInvBut
  <2>3. \A x \in Objects \ {o, p} : CharFits(u, x)
    BY <1>2, <1>4 DEF CharFits, CharInvBut
  <2> QED
    BY <2>1, <2>2, <2>3
<1>6. \A b \in u.live : \E x \in Objects : u.hdr[x].destructable /\ u.hdr[x].ptr = b
  <2> SUFFICES ASSUME NEW b \in u.live
               PROVE  \E x \in Objects : u.hdr[x].destructable /\ u.hdr[x].ptr = b
    OBVIOUS
  <2>1. PICK x \in Objects \ {o} : t.hdr[x].destructable /\ t.hdr[x].ptr = b
    BY <1>2 DEF CharInvBut
  <2> QED
    BY <1>4, <2>1
<1>7. \A x, y \in Objects :
        u.hdr[x].destructable /\ u.hdr[y].destructable /\ u.hdr[x].ptr = u.hdr[y].ptr => x = y
  BY <1>4 DEF CharInvBut
<1>8. CharInv(u)
  BY <1>2, <1>5, <1>6, <1>7 DEF CharInv, CharInvBut
<1> QED
  BY <1>8 DEF u

(* A new block of n slots takes the place of an own one.                   *)
LEMMA CharGrows ==
  ASSUME NEW t, CharInv(t), NEW o \in Objects, Blocks \ t.live # {},
         NEW n \in Nat, n > 0, NEW v \in Values
  PROVE  CharInv(Char!Grow(t, o, n, v))
<1> DEFINE old == IF t.hdr[o].destructable THEN Char!Data(t, o) ELSE <<>>
           q == Char!Padded(old, n, v)
           b == Char!FreeBlock(t)
           w == Char!Allocate(t, q)
           r == IF t.hdr[o].destructable THEN Char!Release(w, t.hdr[o].ptr) ELSE w
           h == [ptr |-> b, outside |-> <<>>, size |-> n, total |-> n, destructable |-> TRUE]
           u == [r EXCEPT !.hdr[o] = h]
<1>0. u = Char!Grow(t, o, n, v)
  BY DEF Char!Grow
<1>1. b \in Blocks \ t.live
  BY CharFreeBlock
<1>2. /\ t \in HeapStores(Values, CharHeaders)
      /\ t.hdr \in [Objects -> CharHeaders] /\ t.mem \in [Blocks -> Seq(Values)]
      /\ t.live \subseteq Blocks
  BY StoreParts DEF CharInv, CharInvBut
<1>3. t.hdr[o].destructable => t.hdr[o].ptr \in t.live
  BY DEF CharInv, CharInvBut, CharFits
<1>4. old \in Seq(Values)
  BY <1>2, <1>3 DEF Char!Data
<1>5. q \in Seq(Values) /\ Len(q) = n
  <2> HIDE DEF old
  <2> QED
    BY <1>4, PaddedSlots DEF Char!Padded
<1>6. /\ h \in CharHeaders /\ h.destructable /\ h.ptr = b
      /\ h.size = n /\ h.total = n
  BY <1>1 DEF CharHeaders
<1> HIDE DEF h, q, b, old
<1>7. /\ w \in HeapStores(Values, CharHeaders) /\ w.hdr = t.hdr
      /\ w.live = t.live \cup {b} /\ w.mem = [t.mem EXCEPT ![b] = q]
  BY <1>1, <1>2, <1>5 DEF Char!Allocate, HeapStores, b
<1> HIDE DEF w
<1>8. /\ r \in HeapStores(Values, CharHeaders) /\ r.hdr = t.hdr
      /\ r.live = IF t.hdr[o].destructable THEN w.live \ {t.hdr[o].ptr} ELSE w.live
      /\ \A d \in r.live : r.mem[d] = w.mem[d]
  <2>1. CASE t.hdr[o].destructable
    <3> DEFINE a == t.hdr[o].ptr
    <3>1. a \in Blocks /\ r = [w EXCEPT !.live = @ \ {a}, !.mem[a] = <<>>]
      BY <1>2, <1>3, <2>1 DEF Char!Release
    <3> HIDE DEF a, r
    <3>2. /\ r \in HeapStores(Values, CharHeaders) /\ r.hdr = w.hdr
          /\ r.live = w.live \ {a} /\ r.mem = [w.mem EXCEPT ![a] = <<>>]
      BY <1>7, <3>1, EmptyIsSeq DEF HeapStores
    <3>3. w.mem \in [Blocks -> Seq(Values)] /\ w.live \subseteq Blocks
      BY <1>7, StoreParts
    <3> QED
      BY <1>7, <2>1, <3>1, <3>2, <3>3 DEF a
  <2>2. CASE ~t.hdr[o].destructable
    BY <1>7, <2>2
  <2> QED
    BY <2>1, <2>2
<1> HIDE DEF r
<1>9. /\ u \in HeapStores(Values, CharHeaders) /\ u.hdr = [r.hdr EXCEPT ![o] = h]
      /\ u.live = r.live /\ u.mem = r.mem
  BY <1>6, <1>8 DEF HeapStores
<1> HIDE DEF u
<1>10. u.hdr[o] = h /\ \A x \in Objects \ {o} : u.hdr[x] = t.hdr[x]
  BY <1>2, <1>8, <1>9
<1>11. b \in u.live /\ u.mem[b] = q
  <2>1. b # t.hdr[o].ptr \/ ~t.hdr[o].destructable
    BY <1>1, <1>3
  <2>2. b \in w.live /\ b \in r.live
    BY <1>7, <1>8, <2>1
  <2>3. w.mem[b] = q
    BY <1>1, <1>2, <1>7
  <2> QED
    BY <1>8, <1>9, <2>2, <2>3
<1>12. \A x \in Objects \ {o} : t.hdr[x].destructable =>
         /\ t.hdr[x].ptr \in u.live /\ t.hdr[x].ptr # b
         /\ u.mem[t.hdr[x].ptr] = t.mem[t.hdr[x].ptr]
  <2> SUFFICES ASSUME NEW x \in Objects \ {o}, t.hdr[x].destructable
               PROVE  /\ t.hdr[x].ptr \in u.live /\ t.hdr[x].ptr # b
                      /\ u.mem[t.hdr[x].ptr] = t.mem[t.hdr[x].ptr]
    OBVIOUS
  <2> DEFINE a == t.hdr[x].ptr
  <2>1. a \in t.live
    BY DEF CharInv, CharInvBut, CharFits
  <2>2. t.hdr[o].destructable => a # t.hdr[o].ptr
    BY DEF CharInv, CharInvBut
  <2> HIDE DEF a
  <2>3. a # b /\ a \in w.live /\ w.mem[a] = t.mem[a]
    BY <1>1, <1>2, <1>7, <2>1
  <2>4. a \in r.live /\ r.mem[a] = t.mem[a]
    BY <1>8, <2>2, <2>3
  <2> QED
    BY <1>9, <2>3, <2>4 DEF a
<1>13. \A x \in Objects : CharFits(u, x)
  <2>1. CharFits(u, o)
    BY <1>5, <1>6, <1>10, <1>11 DEF CharFits
  <2>2. \A x \in Objects \ {o} : CharFits(u, x)
    <3> SUFFICES ASSUME NEW x \in Objects \ {o} PROVE CharFits(u, x)
      OBVIOUS
    <3>1. u.hdr[x] = t.hdr[x] /\ CharFits(t, x)
      BY <1>10 DEF CharInv, CharInvBut
    <3> QED
      BY <1>12, <3>1 DEF CharFits
  <2> QED
    BY <2>1, <2>2
<1>14. \A d \in u.live : \E x \in Objects : u.hdr[x].destructable /\ u.hdr[x].ptr = d
  BY <1>6, <1>7, <1>8, <1>9, <1>10 DEF CharInv, CharInvBut
<1>15. \A x, y \in Objects :
        u.hdr[x].destructable /\ u.hdr[y].destructable /\ u.hdr[x].ptr = u.hdr[y].ptr => x = y
  BY <1>6, <1>10, <1>12 DEF CharInv, CharInvBut
<1>16. CharInv(u)
  BY <1>9, <1>13, <1>14, <1>15 DEF CharInv, CharInvBut
<1> QED
  BY <1>0, <1>16

(* Every call keeps the invariant.                                         *)
LEMMA CharStep ==
  ASSUME CharInv(store), Char!Next
  PROVE  CharInv(store')
<1>0. /\ store \in HeapStores(Values, CharHeaders)
      /\ store.hdr \in [Objects -> CharHeaders] /\ store.mem \in [Blocks -> Seq(Values)]
      /\ store.live \subseteq Blocks
  BY StoreParts DEF CharInv, CharInvBut
<1>a. ASSUME NEW u, Char!Call(u) PROVE store' = u /\ Blocks \ store.live # {}
  <2>1. Char!Room(store) >= 1 /\ store' = u
    BY <1>a DEF Char!Call, Char!Becomes
  <2>2. Char!Cardinality(Blocks \ store.live) = Cardinality(Blocks \ store.live)
    BY DEF Cardinality, Char!Cardinality
  <2> QED
    BY <2>1, <2>2, FS_EmptySet DEF Char!Room
<1>b. ASSUME NEW o \in Objects PROVE Char!Contents(store, o) \in Seq(Values)
  <2>1. /\ store.hdr[o].size \in Nat /\ store.hdr[o].total \in Nat
        /\ store.hdr[o].outside \in Seq(Values)
        /\ store.hdr[o].size <= store.hdr[o].total
    BY <1>0 DEF CharInv, CharInvBut, CharFits, CharHeaders
  <2>2. Char!Data(store, o) \in Seq(Values) /\ store.hdr[o].size <= Len(Char!Data(store, o))
    BY <1>0, <2>1 DEF CharInv, CharInvBut, CharFits, Char!Data
  <2> QED
    BY <2>1, <2>2 DEF Char!Contents
<1>c. ASSUME NEW o \in Objects, NEW q \in Seq(Values), Blocks \ store.live # {}
      PROVE  CharInv(Char!Create(Char!Free(store, o), o, q))
  <2> DEFINE t == Char!Free(store, o)
  <2>1. CharInvBut(t, {o}) /\ Blocks \ t.live # {}
    BY <1>c, CharFree
  <2> HIDE DEF t
  <2>2. CASE q = <<>>
    <3> DEFINE h == Char!EmptyHeader
    <3>1. /\ h \in CharHeaders /\ ~h.destructable
          /\ h.size <= h.total /\ h.total <= Len(h.outside)
      BY DEF CharHeaders, Char!EmptyHeader
    <3>2. Char!Create(t, o, q) = [t EXCEPT !.hdr[o] = h]
      BY <2>2 DEF Char!Create
    <3> HIDE DEF h
    <3>3. CharInv([t EXCEPT !.hdr[o] = h])
      BY <2>1, <3>1, CharRefers
    <3> QED
      BY <3>2, <3>3 DEF t
  <2>3. CASE q # <<>>
    <3>1. CharInv([Char!Allocate(t, q) EXCEPT !.hdr[o] =
           [ptr |-> Char!FreeBlock(t), outside |-> <<>>, size |-> Len(q),
            total |-> Len(q), destructable |-> TRUE]])
      BY <1>c, <2>1, <2>3, CharGets
    <3> QED
      BY <2>3, <3>1 DEF Char!Create, t
  <2> QED
    BY <2>2, <2>3 DEF t
<1>1. ASSUME NEW o \in Objects, NEW q \in Literals, Char!Refer(o, q) PROVE CharInv(store')
  <2> DEFINE h == [ptr |-> Null, outside |-> q, size |-> Len(q), total |-> Len(q),
                   destructable |-> FALSE]
             t == Char!Free(store, o)
  <2>1. q \in Seq(Values)
    BY <1>1, BuffersAssumption
  <2>2. /\ h \in CharHeaders /\ ~h.destructable
        /\ h.size <= h.total /\ h.total <= Len(h.outside)
    BY <2>1 DEF CharHeaders
  <2>3. CharInvBut(t, {o})
    BY CharFree
  <2>4. store' = [t EXCEPT !.hdr[o] = h]
    BY <1>1, <1>a DEF Char!Refer
  <2> HIDE DEF h, t
  <2> QED
    BY <2>2, <2>3, <2>4, CharRefers
<1>2. ASSUME NEW o \in Objects, NEW q \in Literals, Char!AssignStd(o, q)
      PROVE  CharInv(store')
  <2>1. q \in Seq(Values)
    BY <1>2, BuffersAssumption
  <2> QED
    BY <1>2, <1>a, <1>c, <2>1 DEF Char!AssignStd
<1>3. ASSUME NEW o \in Objects, NEW p \in Objects, Char!CopyAssign(o, p)
      PROVE  CharInv(store')
  BY <1>3, <1>a, <1>b, <1>c DEF Char!CopyAssign
<1>4. ASSUME NEW o \in Objects, NEW p \in Objects \ {o}, Char!MoveAssign(o, p)
      PROVE  CharInv(store')
  <2> DEFINE t == Char!Free(store, o)
             h == store.hdr[p]
             g == [h EXCEPT !.size = 0, !.total = 0, !.destructable = FALSE]
  <2>1. CharInvBut(t, {o}) /\ t.hdr = store.hdr
    BY CharFree
  <2>2. h \in CharHeaders /\ h = t.hdr[p]
    BY <1>0, <2>1
  <2>3. g \in CharHeaders /\ ~g.destructable /\ g.size = 0 /\ g.total = 0
    BY <2>2 DEF CharHeaders
  <2>4. Char!Move(store, o, p) = [t EXCEPT !.hdr[o] = h, !.hdr[p] = g]
    <3>1. t \in HeapStores(Values, CharHeaders) /\ t.hdr \in [Objects -> CharHeaders]
      BY <2>1, StoreParts DEF CharInvBut
    <3> HIDE DEF t
    <3> QED
      BY <3>1, <2>2, <2>1 DEF Char!Move, HeapStores, t
  <2>5. store' = [t EXCEPT !.hdr[o] = h, !.hdr[p] = g]
    BY <1>4, <1>a, <2>4 DEF Char!MoveAssign
  <2> HIDE DEF t, h, g
  <2> QED
    BY <2>1, <2>2, <2>3, <2>5, CharMoves
<1>5. ASSUME NEW o \in Objects, NEW n \in Char!SoundSizes(o), NEW v \in Values,
             Char!ResizeCall(o, n, v)
      PROVE  CharInv(store')
  <2>1. n \in Nat /\ store.hdr[o] \in CharHeaders
    BY <1>0, BuffersAssumption DEF Char!SoundSizes
  <2>2. store' = Char!Resize(store, o, n, v) /\ Blocks \ store.live # {}
    BY <1>5, <1>a DEF Char!ResizeCall
  <2>3. CASE n <= store.hdr[o].total
    <3> DEFINE u == [store EXCEPT !.hdr[o].size = n]
    <3>1. u = store'
      BY <2>2, <2>3 DEF Char!Resize
    <3>2. /\ u \in HeapStores(Values, CharHeaders) /\ u.mem = store.mem /\ u.live = store.live
          /\ \A x \in Objects :
               /\ u.hdr[x].ptr = store.hdr[x].ptr /\ u.hdr[x].total = store.hdr[x].total
               /\ u.hdr[x].outside = store.hdr[x].outside
               /\ u.hdr[x].destructable = store.hdr[x].destructable
               /\ u.hdr[x].size = IF x = o THEN n ELSE store.hdr[x].size
      BY <1>0, <2>1 DEF HeapStores, CharHeaders
    <3> HIDE DEF u
    <3> QED
      BY <2>3, <3>1, <3>2 DEF CharInv, CharInvBut, CharFits
  <2>4. CASE ~(n <= store.hdr[o].total)
    <3>1. n > 0
      BY <2>1, <2>4 DEF CharHeaders
    <3> QED
      BY <2>1, <2>2, <2>4, <3>1, CharGrows DEF Char!Resize
  <2> QED
    BY <2>3, <2>4
<1>6. ASSUME NEW o \in Objects, NEW i \in 1..store.hdr[o].size, NEW v \in Values,
             Char!Modify(o, i, v)
      PROVE  CharInv(store')
  <2> DEFINE b == store.hdr[o].ptr
             q == [store.mem[b] EXCEPT ![i] = v]
             u == [store EXCEPT !.mem[b] = q]
  <2>0. /\ store.hdr[o].destructable
        /\ store.hdr[o].size \in Nat /\ store.hdr[o].total \in Nat
    BY <1>0, <1>6 DEF Char!Modify, CharHeaders
  <2>1. /\ store.hdr[o].destructable /\ b \in Blocks /\ i \in 1..Len(store.mem[b])
    BY <1>0, <2>0 DEF CharInv, CharInvBut, CharFits
  <2>2. store' = u
    BY <1>6, <1>a DEF Char!Modify
  <2>3. q \in Seq(Values) /\ Len(q) = Len(store.mem[b])
    BY <1>0, <2>1
  <2> HIDE DEF q, b
  <2>4. /\ u \in HeapStores(Values, CharHeaders) /\ u.hdr = store.hdr /\ u.live = store.live
        /\ u.mem = [store.mem EXCEPT ![b] = q]
    BY <1>0, <2>1, <2>3 DEF HeapStores
  <2> HIDE DEF u
  <2>5. \A x \in Objects : CharFits(u, x)
    BY <1>0, <2>1, <2>3, <2>4 DEF CharInv, CharInvBut, CharFits, b
  <2> QED
    BY <2>2, <2>4, <2>5 DEF CharInv, CharInvBut
<1> QED
  BY <1>1, <1>2, <1>3, <1>4, <1>5, <1>6 DEF Char!Next

(* A new charbuf owns nothing.                                             *)
LEMMA CharInit ==
  ASSUME Char!Init
  PROVE  CharInv(store)
<1> DEFINE h == Char!EmptyHeader
<1>1. h \in CharHeaders /\ ~h.destructable /\ h.size <= h.total /\ h.total <= Len(h.outside)
  BY DEF CharHeaders, Char!EmptyHeader
<1> HIDE DEF h
<1>2. PICK a \in [Objects -> Allocators] :
        store = [mem |-> [b \in Blocks |-> <<>>], live |-> {},
                 hdr |-> [o \in Objects |-> h], alloc |-> a]
  BY DEF Char!Init, Char!EmptyStore, h
<1> QED
  BY <1>1, <1>2, EmptyIsSeq DEF CharInv, CharInvBut, CharFits, HeapStores

(* What the invariant says of the headers and of the blocks.               *)
LEMMA CharPromises ==
  ASSUME kind = "charbuf", CharInv(store)
  PROVE  BlocksOwnedOnce /\ BlocksFit
<1>0. store.hdr \in [Objects -> CharHeaders] /\ store.live \subseteq Blocks
  BY StoreParts DEF CharInv, CharInvBut
<1> DEFINE own == [o \in Objects |-> IF store.hdr[o].destructable THEN store.hdr[o].ptr ELSE Null]
<1>1. \A o \in Objects : BufferOwned(o) = One(own[o])
  <2> SUFFICES ASSUME NEW o \in Objects PROVE BufferOwned(o) = One(own[o])
    OBVIOUS
  <2>1. BufferOwned(o) = Char!Owned(o)
    BY DEF BufferOwned
  <2>2. store.hdr[o].destructable => store.hdr[o].ptr # Null
    BY <1>0, BuffersAssumption DEF CharInv, CharInvBut, CharFits
  <2> QED
    BY <2>1, <2>2 DEF Char!Owned, One
<1>2. BlocksOwnedOnce
  <2>1. \A o \in Objects : own[o] # Null => own[o] \in store.live
    BY DEF CharInv, CharInvBut, CharFits
  <2>2. \A b \in store.live : b # Null /\ \E o \in Objects : own[o] = b
    BY <1>0, BuffersAssumption DEF CharInv, CharInvBut
  <2>3. \A o, p \in Objects : o # p /\ own[o] = own[p] => own[o] = Null
    BY DEF CharInv, CharInvBut
  <2> HIDE DEF own
  <2> QED
    BY <1>1, <2>1, <2>2, <2>3, OneBlockEach
<1>3. BlocksFit
  <2>1. \A o \in Objects : Char!Fits(o)
    BY DEF CharInv, CharInvBut, CharFits, Char!Fits, Char!Data
  <2> QED
    BY <2>1 DEF BlocksFit, BufferFits
<1> QED
  BY <1>2, <1>3

-----------------------------------------------------------------------------
(* The containers that keep all they own in one block.                     *)
BlockKinds == {"string", "charbuf", "array", "pointer", "vector", "ring", "marked_ring"}

(* The inductive invariant: that of the container the behaviour is about.  *)
KindInv ==
  /\ kind = "string"  => StrInv(store)
  /\ kind = "charbuf" => CharInv(store)
  /\ kind = "array"   => ArrInv(store)
  /\ kind = "pointer" => PtrInv(store)
  /\ kind = "vector"  => VecInv(store, Values)
  /\ kind \in {"ring", "marked_ring"} => RingInv(store)

(* The invariant holds when no object was constructed yet.                 *)
LEMMA KindInitially == ContainersInit => KindInv
<1> SUFFICES ASSUME ContainersInit PROVE KindInv
  OBVIOUS
<1>0. kind \in BlockKinds => BuffersInit
  BY DEF ContainersInit, BlockKinds, Linked!KindInit, Linked!Kinds
<1>1. CASE kind = "string"
  <2>1. Str!Init
    BY <1>0, <1>1 DEF BlockKinds, BuffersInit
  <2> QED
    BY <1>1, <2>1, StrInit DEF KindInv
<1>2. CASE kind = "charbuf"
  <2>1. Char!Init
    BY <1>0, <1>2 DEF BlockKinds, BuffersInit
  <2> QED
    BY <1>2, <2>1, CharInit DEF KindInv
<1>3. CASE kind = "array"
  <2>1. Obj!InitWith(Obj!Array)
    BY <1>0, <1>3 DEF BlockKinds, BuffersInit
  <2> QED
    BY <1>3, <2>1, ArrInit DEF KindInv
<1>4. CASE kind = "pointer"
  <2>1. Obj!InitWith(Obj!Pointer)
    BY <1>0, <1>4 DEF BlockKinds, BuffersInit
  <2> QED
    BY <1>4, <2>1, PtrInit DEF KindInv
<1>5. CASE kind = "vector"
  <2>1. Vec!Init
    BY <1>0, <1>5 DEF BlockKinds, BuffersInit
  <2> QED
    BY <1>5, <2>1, VecInitially DEF KindInv
<1>6. CASE kind \in {"ring", "marked_ring"}
  <2>1. Ring!Init
    BY <1>0, <1>6 DEF BlockKinds, BuffersInit
  <2>2. RingInv(store)
    BY <2>1, RingInit
  <2> QED
    BY <1>6, <2>2 DEF KindInv
<1>7. CASE kind \notin BlockKinds
  BY <1>7 DEF BlockKinds, KindInv
<1> QED
  BY <1>1, <1>2, <1>3, <1>4, <1>5, <1>6, <1>7 DEF BlockKinds

(* What kind of ring it is does not change.                                *)
LEMMA RingKept ==
  ASSUME kind' = kind, RingInv(store')
  PROVE  RingInv(store)'
BY DEF RingInv, RingOk

(* Every call keeps the invariant.                                         *)
LEMMA KindStep == KindInv /\ [ContainersNext]_containersVars => KindInv'
<1> SUFFICES ASSUME KindInv, [ContainersNext]_containersVars PROVE KindInv'
  OBVIOUS
<1>1. CASE UNCHANGED containersVars
  <2>1. store' = store /\ kind' = kind
    BY <1>1 DEF containersVars
  <2>2. kind \in {"ring", "marked_ring"} => RingInv(store)'
    BY <2>1, RingKept DEF KindInv
  <2> QED
    BY <2>1, <2>2 DEF KindInv
<1>2. CASE ContainersNext
  <2>0. kind' = kind /\ (kind \in BlockKinds => BuffersNext)
    BY <1>2 DEF ContainersNext, BlockKinds, Linked!Kinds
  <2>1. CASE kind = "string"
    BY <2>0, <2>1, StrStep DEF KindInv, BlockKinds, BuffersNext
  <2>2. CASE kind = "charbuf"
    BY <2>0, <2>2, CharStep DEF KindInv, BlockKinds, BuffersNext
  <2>3. CASE kind = "array"
    BY <2>0, <2>3, ArrStep DEF KindInv, BlockKinds, BuffersNext
  <2>4. CASE kind = "pointer"
    BY <2>0, <2>4, PtrStep DEF KindInv, BlockKinds, BuffersNext
  <2>5. CASE kind = "vector"
    BY <2>0, <2>5, VecStep DEF KindInv, BlockKinds, BuffersNext
  <2>6. CASE kind \in {"ring", "marked_ring"}
    <3>1. Ring!Next /\ RingInv(store)
      BY <2>0, <2>6 DEF KindInv, BlockKinds, BuffersNext
    <3>2. RingInv(store')
      BY <2>6, <3>1, RingStep
    <3>3. RingInv(store)'
      BY <2>0, <3>2, RingKept
    <3> QED
      BY <2>0, <2>6, <3>3 DEF KindInv
  <2>7. CASE kind \notin BlockKinds
    BY <2>0, <2>7 DEF BlockKinds, KindInv
  <2> QED
    BY <2>1, <2>2, <2>3, <2>4, <2>5, <2>6, <2>7 DEF BlockKinds
<1> QED
  BY <1>1, <1>2

(* It implies what is promised of the blocks.                              *)
LEMMA KindPromises == KindInv /\ kind \in BlockKinds => BlocksOwnedOnce /\ BlocksFit
BY StrPromises, CharPromises, ArrPromises, PtrPromises, VecPromises, RingPromises
   DEF KindInv, BlockKinds

(* No block of a string, charbuf, array, pointer, vector or ring leaks, is *)
(* given back while in use, or belongs to two objects, whatever calls are  *)
(* made, for any number of objects, blocks, values and allocators.         *)
THEOREM BlocksOwnedOnceAlways == ContainersSpec => [](kind \in BlockKinds => OwnedOnce)
<1>1. KindInv => (kind \in BlockKinds => OwnedOnce)
  <2> SUFFICES ASSUME KindInv, kind \in BlockKinds PROVE OwnedOnce
    OBVIOUS
  <2>1. BlocksOwnedOnce
    BY KindPromises
  <2>2. \A o : Owned(o) = BufferOwned(o)
    BY DEF Owned, BlockKinds, BufferKinds, Linked!Kinds
  <2> QED
    BY <2>1, <2>2 DEF OwnedOnce, BlocksOwnedOnce
<1> QED
  BY <1>1, KindInitially, KindStep, PTL DEF ContainersSpec

(* The header of such an object tells the truth of its block: the length   *)
(* fits the capacity, which is that of the block, both forms of an address *)
(* agree, and every slot up to the length was constructed.                 *)
THEOREM BlocksAgreeAlways == ContainersSpec => [](kind \in BlockKinds => HeadersAgree)
<1>1. KindInv => (kind \in BlockKinds => HeadersAgree)
  <2> SUFFICES ASSUME KindInv, kind \in BlockKinds PROVE HeadersAgree
    OBVIOUS
  <2>1. BlocksFit
    BY KindPromises
  <2> QED
    BY <2>1 DEF HeadersAgree, BlocksFit, BlockKinds, Linked!Kinds, BufferKinds
<1> QED
  BY <1>1, KindInitially, KindStep, PTL DEF ContainersSpec
=============================================================================

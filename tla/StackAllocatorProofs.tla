------------------------- MODULE StackAllocatorProofs -------------------------
(***************************************************************************)
(* StackAllocator hands out separate pages inside its heap, and implements  *)
(* the abstract allocator, for every number of threads, every size of heap  *)
(* and every set of request sizes.                                          *)
(***************************************************************************)
EXTENDS StackAllocator, FiniteSetTheorems, TLAPS

(* What each step of a call knows about its locals.                         *)
LocalsInStep ==
  \A t \in Threads :
    /\ q[t] \in DOMAIN page \cup {NoPage}
    /\ pc[t] # "mark" => p[t] \in DOMAIN page \cup {NoPage}
    /\ pc[t] = "idle" => q[t] = NoPage
    /\ pc[t] \in {"idle", "reserve"} => p[t] = NoPage
    /\ pc[t] \in {"count", "copy"} => p[t] # NoPage
    /\ pc[t] \in {"copy", "check", "unset", "uncount"} => q[t] # NoPage
    /\ pc[t] \in {"reserve", "mark"} => size[t] - Header \in Sizes

(* The pages with a header lie below heap_off_ and do not overlap.          *)
PagesInside ==
  /\ RegionOff <= heap_off
  /\ \A r \in DOMAIN page :
       /\ RegionOff <= r
       /\ r + page[r].page_size <= heap_off /\ r + page[r].page_size <= HeapSize
       /\ Payload(r) \in Sizes

PagesApart ==
  \A r, s \in DOMAIN page : r < s => r + page[r].page_size <= s

(* So do the pages whose header is not written yet.                         *)
MarksInside ==
  \A t \in Threads : pc[t] = "mark" =>
    /\ p[t] \in Nat /\ RegionOff <= p[t]
    /\ p[t] + size[t] <= heap_off /\ p[t] + size[t] <= HeapSize

MarksApart ==
  /\ \A t \in Threads : pc[t] = "mark" =>
       \A r \in DOMAIN page :
         r + page[r].page_size <= p[t] \/ p[t] + size[t] <= r
  /\ \A t, u \in Threads : pc[t] = "mark" /\ pc[u] = "mark" /\ t # u =>
       p[t] + size[t] <= p[u] \/ p[u] + size[u] <= p[t]

(* A page belongs to the callers or to one step of one thread.              *)
OneUser ==
  \A t \in Threads :
    /\ p[t] # NoPage => p[t] \notin held /\ p[t] # q[t]
    /\ q[t] # NoPage => q[t] \notin held
    /\ \A u \in Threads \ {t} :
         /\ p[t] # NoPage => p[t] # p[u] /\ p[t] # q[u]
         /\ q[t] # NoPage => q[t] # q[u]

(* A page that is not being freed has its allocated flag, so the free of a  *)
(* reallocated page is never taken for a second one.                        *)
KeptIsMarked ==
  /\ \A r \in held : page[r].allocated
  /\ \A t \in Threads :
       /\ p[t] # NoPage /\ pc[t] # "mark" => page[p[t]].allocated
       /\ \/ pc[t] \in {"reserve", "mark", "count", "copy"} /\ q[t] # NoPage
          \/ pc[t] = "check" /\ p[t] # NoPage
          => page[q[t]].allocated

IInv == /\ TypeOK /\ LocalsInStep /\ PagesInside /\ PagesApart
        /\ MarksInside /\ MarksApart /\ OneUser /\ KeptIsMarked

-----------------------------------------------------------------------------
(* An empty heap satisfies the invariant.                                   *)
LEMMA InitEstablishes == Init => IInv
BY StackAssumption DEF Init, IInv, TypeOK, LocalsInStep, PagesInside, PagesApart,
   MarksInside, MarksApart, OneUser, KeptIsMarked, Headers

(* Allocate starts.                                                         *)
LEMMA AllocateBeginPreserves ==
  ASSUME IInv, NEW t \in Threads, AllocateBegin(t)
  PROVE  IInv'
BY StackAssumption DEF AllocateBegin, Goto, IInv, TypeOK, LocalsInStep, PagesInside,
   PagesApart, MarksInside, MarksApart, OneUser, KeptIsMarked, Headers, Payload

(* Reallocate starts with a page that its caller owns.                      *)
LEMMA ReallocateBeginPreserves ==
  ASSUME IInv, NEW t \in Threads, ReallocateBegin(t)
  PROVE  IInv'
BY StackAssumption DEF ReallocateBegin, Goto, IInv, TypeOK, LocalsInStep, PagesInside,
   PagesApart, MarksInside, MarksApart, OneUser, KeptIsMarked, Headers, Payload

(* Free starts with a page that a caller owns or that was freed before.     *)
LEMMA FreeBeginPreserves ==
  ASSUME IInv, NEW t \in Threads, FreeBegin(t)
  PROVE  IInv'
BY StackAssumption DEF FreeBegin, Goto, InUse, IInv, TypeOK, LocalsInStep, PagesInside,
   PagesApart, MarksInside, MarksApart, OneUser, KeptIsMarked, Headers, Payload

(* fetch_add of heap_off_: the new page lies behind every other.            *)
LEMMA ReserveGrantedPreserves ==
  ASSUME IInv, NEW t \in Threads, ReserveGranted(t)
  PROVE  IInv'
<1>1. TypeOK'
  BY StackAssumption DEF ReserveGranted, Goto, IInv, TypeOK, Headers, LocalsInStep, OneUser, MarksInside
<1>2. LocalsInStep'
  BY StackAssumption DEF ReserveGranted, Goto, IInv, TypeOK, Headers, LocalsInStep, OneUser
<1>3. PagesInside'
  BY StackAssumption DEF ReserveGranted, Goto, IInv, TypeOK, Headers, LocalsInStep, PagesInside, Payload
<1>4. PagesApart'
  BY StackAssumption DEF ReserveGranted, Goto, IInv, TypeOK, Headers, LocalsInStep, PagesInside, PagesApart
<1>5. MarksInside'
  BY StackAssumption DEF ReserveGranted, Goto, IInv, TypeOK, Headers, LocalsInStep, MarksInside, PagesInside, Payload
<1>6. MarksApart'
  BY StackAssumption DEF ReserveGranted, Goto, IInv, TypeOK, Headers, LocalsInStep, MarksInside, MarksApart, PagesInside, Payload
<1>7. OneUser'
  <2>1. \A r \in DOMAIN page : r \in Nat /\ r < heap_off
    BY StackAssumption DEF IInv, TypeOK, Headers, PagesInside, Payload
  <2>2. \A u \in Threads : p[u] # NoPage => p[u] < heap_off
    BY <2>1, StackAssumption DEF IInv, TypeOK, LocalsInStep, MarksInside
  <2>3. /\ heap_off \in Nat /\ ~(heap_off < heap_off)
        /\ p[t] = NoPage
    BY DEF ReserveGranted, IInv, TypeOK, LocalsInStep
  <2>4. heap_off \notin held /\ \A u \in Threads : heap_off # q[u] /\ heap_off # p[u]
    BY <2>1, <2>2, <2>3, StackAssumption DEF IInv, TypeOK, LocalsInStep
  <2>5. /\ \A u \in Threads : p'[u] = IF u = t THEN heap_off ELSE p[u]
        /\ q' = q /\ held' = held
    BY DEF ReserveGranted, IInv, TypeOK
  <2> QED
    BY <2>3, <2>4, <2>5 DEF IInv, OneUser
<1>8. KeptIsMarked'
  BY StackAssumption DEF ReserveGranted, Goto, IInv, TypeOK, Headers, LocalsInStep, OneUser, KeptIsMarked
<1> QED
  BY <1>1, <1>2, <1>3, <1>4, <1>5, <1>6, <1>7, <1>8 DEF IInv

(* The offset moves although the request is refused; pages stay where they  *)
(* are.                                                                     *)
LEMMA ReserveRefusedPreserves ==
  ASSUME IInv, NEW t \in Threads, ReserveRefused(t)
  PROVE  IInv'
BY StackAssumption DEF ReserveRefused, Goto, Return, IInv, TypeOK, LocalsInStep, PagesInside,
   PagesApart, MarksInside, MarksApart, OneUser, KeptIsMarked, Headers, Payload

(* The header of the new page is written.                                   *)
LEMMA MarkHeaderPreserves ==
  ASSUME IInv, NEW t \in Threads, MarkHeader(t)
  PROVE  IInv'
BY StackAssumption DEF MarkHeader, Goto, IInv, TypeOK, LocalsInStep, PagesInside,
   PagesApart, MarksInside, MarksApart, OneUser, KeptIsMarked, Headers, Payload

(* The new page is counted and goes to its caller.                          *)
LEMMA CountAllocPreserves ==
  ASSUME IInv, NEW t \in Threads, CountAlloc(t)
  PROVE  IInv'
<1>1. TypeOK'
  <2>1. total_alloc' \in Int
    BY DEF CountAlloc, CountPage, IInv, TypeOK, Headers, LocalsInStep
  <2>2. held' \subseteq DOMAIN page'
    BY DEF CountAlloc, IInv, TypeOK, LocalsInStep
  <2>3. /\ pc' \in [Threads -> {"idle", "reserve", "mark", "count", "copy", "check",
                                "unset", "uncount"}]
        /\ size' \in [Threads -> Nat]
        /\ p' \in [Threads -> Nat \cup {NoPage}]
        /\ q' \in [Threads -> Nat \cup {NoPage}]
    BY DEF CountAlloc, Goto, Return, IInv, TypeOK
  <2> QED
    BY <2>1, <2>2, <2>3 DEF CountAlloc, IInv, TypeOK
<1>2. LocalsInStep'
  BY StackAssumption DEF CountAlloc, Goto, CountPage, Return, IInv, TypeOK, Headers, LocalsInStep, OneUser
<1>3. PagesInside'
  BY StackAssumption DEF CountAlloc, Goto, CountPage, Return, IInv, TypeOK, Headers, LocalsInStep, PagesInside, Payload
<1>4. PagesApart'
  BY StackAssumption DEF CountAlloc, Goto, CountPage, Return, IInv, TypeOK, Headers, LocalsInStep, PagesInside, PagesApart
<1>5. MarksInside'
  BY StackAssumption DEF CountAlloc, Goto, CountPage, Return, IInv, TypeOK, Headers, LocalsInStep, MarksInside, PagesInside, Payload
<1>6. MarksApart'
  BY StackAssumption DEF CountAlloc, Goto, CountPage, Return, IInv, TypeOK, Headers, LocalsInStep, MarksInside, MarksApart, PagesInside, Payload
<1>7. OneUser'
  BY StackAssumption DEF CountAlloc, Goto, CountPage, Return, IInv, TypeOK, Headers, LocalsInStep, OneUser, MarksInside
<1>8. KeptIsMarked'
  BY StackAssumption DEF CountAlloc, Goto, CountPage, Return, IInv, TypeOK, Headers, LocalsInStep, OneUser, KeptIsMarked
<1> QED
  BY <1>1, <1>2, <1>3, <1>4, <1>5, <1>6, <1>7, <1>8 DEF IInv

(* The old bytes are copied and the free of the old page starts.            *)
LEMMA CopyPreserves ==
  ASSUME IInv, NEW t \in Threads, Copy(t)
  PROVE  IInv'
BY StackAssumption DEF Copy, Goto, IInv, TypeOK, LocalsInStep, PagesInside,
   PagesApart, MarksInside, MarksApart, OneUser, KeptIsMarked, Headers, Payload

(* Free reads the allocated flag.                                           *)
LEMMA CheckAllocatedPreserves ==
  ASSUME IInv, NEW t \in Threads, CheckAllocated(t)
  PROVE  IInv'
BY StackAssumption DEF CheckAllocated, Goto, IInv, TypeOK, LocalsInStep, PagesInside,
   PagesApart, MarksInside, MarksApart, OneUser, KeptIsMarked, Headers, Payload

(* A second free is reported and changes nothing.                           *)
LEMMA ReportDoubleFreePreserves ==
  ASSUME IInv, NEW t \in Threads, ReportDoubleFree(t)
  PROVE  IInv'
BY StackAssumption DEF ReportDoubleFree, Return, Goto, IInv, TypeOK, LocalsInStep, PagesInside,
   PagesApart, MarksInside, MarksApart, OneUser, KeptIsMarked, Headers, Payload

(* The allocated flag is cleared.                                           *)
LEMMA UnsetAllocatedPreserves ==
  ASSUME IInv, NEW t \in Threads, UnsetAllocated(t)
  PROVE  IInv'
<1>1. TypeOK'
  <2>1. page' \in [DOMAIN page -> Headers]
    <3>1. page \in [DOMAIN page -> Headers] /\ q[t] \in DOMAIN page
      BY DEF IInv, TypeOK, LocalsInStep, UnsetAllocated
    <3>2. [page[q[t]] EXCEPT !.allocated = FALSE] \in Headers
      BY <3>1 DEF Headers
    <3> QED
      BY <3>1, <3>2 DEF UnsetAllocated
  <2> QED
    BY <2>1 DEF UnsetAllocated, Goto, IInv, TypeOK
<1>2. LocalsInStep'
  BY StackAssumption DEF UnsetAllocated, Goto, IInv, TypeOK, Headers, LocalsInStep, OneUser
<1>3. PagesInside'
  BY StackAssumption DEF UnsetAllocated, Goto, IInv, TypeOK, Headers, LocalsInStep, PagesInside, Payload
<1>4. PagesApart'
  BY StackAssumption DEF UnsetAllocated, Goto, IInv, TypeOK, Headers, LocalsInStep, PagesInside, PagesApart
<1>5. MarksInside'
  BY StackAssumption DEF UnsetAllocated, Goto, IInv, TypeOK, Headers, LocalsInStep, MarksInside, PagesInside, Payload
<1>6. MarksApart'
  BY StackAssumption DEF UnsetAllocated, Goto, IInv, TypeOK, Headers, LocalsInStep, MarksInside, MarksApart, PagesInside, Payload
<1>7. OneUser'
  BY StackAssumption DEF UnsetAllocated, Goto, IInv, TypeOK, Headers, LocalsInStep, OneUser, MarksInside
<1>8. KeptIsMarked'
  BY StackAssumption DEF UnsetAllocated, Goto, IInv, TypeOK, Headers, LocalsInStep, OneUser, KeptIsMarked
<1> QED
  BY <1>1, <1>2, <1>3, <1>4, <1>5, <1>6, <1>7, <1>8 DEF IInv

(* The freed page is taken off total_alloc_.                                *)
LEMMA UncountAllocPreserves ==
  ASSUME IInv, NEW t \in Threads, UncountAlloc(t)
  PROVE  IInv'
BY StackAssumption DEF UncountAlloc, Return, Goto, IInv, TypeOK, LocalsInStep, PagesInside,
   PagesApart, MarksInside, MarksApart, OneUser, KeptIsMarked, Headers, Payload

-----------------------------------------------------------------------------
(* Every reachable state satisfies the inductive invariant.                 *)
THEOREM StackInvariant == Spec => []IInv
<1>1. IInv /\ [Next]_vars => IInv'
  <2> SUFFICES ASSUME IInv, [Next]_vars PROVE IInv'
    OBVIOUS
  <2>1. ASSUME NEW t \in Threads, Step(t) PROVE IInv'
    BY <2>1, AllocateBeginPreserves, ReallocateBeginPreserves, FreeBeginPreserves,
       ReserveGrantedPreserves, ReserveRefusedPreserves, MarkHeaderPreserves,
       CountAllocPreserves, CopyPreserves, CheckAllocatedPreserves,
       ReportDoubleFreePreserves, UnsetAllocatedPreserves, UncountAllocPreserves
    DEF Step
  <2>2. CASE UNCHANGED vars
    BY <2>2 DEF vars, IInv, TypeOK, LocalsInStep, PagesInside, PagesApart,
       MarksInside, MarksApart, OneUser, KeptIsMarked, Payload
  <2> QED
    BY <2>1, <2>2 DEF Next
<1> QED
  BY InitEstablishes, <1>1, PTL DEF Spec

(* The variables keep their types, and callers own pages with a header only. *)
THEOREM StackTypeCorrect == Spec => []TypeOK
<1>1. IInv => TypeOK
  BY DEF IInv
<1> QED
  BY <1>1, StackInvariant, PTL

(* However the fetch_adds of the threads and their later steps interleave,  *)
(* no two pages overlap and none reaches behind the heap.                   *)
THEOREM StackPagesSeparate == Spec => []PagesSeparate
<1>1. IInv => PagesSeparate
  <2> SUFFICES ASSUME IInv PROVE PagesSeparate
    OBVIOUS
  <2>1. \A e \in Extents :
          \/ e[1] \in DOMAIN page /\ e[2] = page[e[1]].page_size
          \/ \E t \in Threads : pc[t] = "mark" /\ e[1] = p[t] /\ e[2] = size[t]
    BY DEF Extents
  <2>2. \A r \in DOMAIN page : r \in Nat /\ page[r].page_size \in Nat
    BY DEF IInv, TypeOK, Headers
  <2>3. \A t \in Threads : pc[t] = "mark" =>
          p[t] \in Nat /\ size[t] \in Nat /\ size[t] > 0
    BY StackAssumption DEF IInv, TypeOK, LocalsInStep, MarksInside
  <2>4. \A e \in Extents : RegionOff <= e[1] /\ e[1] + e[2] <= HeapSize
    BY <2>1 DEF IInv, PagesInside, MarksInside
  <2>5. \A e, f \in Extents : e[1] < f[1] => e[1] + e[2] <= f[1]
    <3> SUFFICES ASSUME NEW e \in Extents, NEW f \in Extents, e[1] < f[1]
                 PROVE  e[1] + e[2] <= f[1]
      OBVIOUS
    <3>1. CASE e[1] \in DOMAIN page /\ e[2] = page[e[1]].page_size
      BY <2>1, <2>2, <2>3, <3>1 DEF IInv, PagesApart, MarksApart
    <3>2. CASE \E t \in Threads : pc[t] = "mark" /\ e[1] = p[t] /\ e[2] = size[t]
      <4>1. PICK t \in Threads : pc[t] = "mark" /\ e[1] = p[t] /\ e[2] = size[t]
        BY <3>2
      <4>2. CASE f[1] \in DOMAIN page /\ f[2] = page[f[1]].page_size
        BY <2>2, <2>3, <4>1, <4>2 DEF IInv, MarksApart
      <4>3. CASE \E u \in Threads : pc[u] = "mark" /\ f[1] = p[u] /\ f[2] = size[u]
        BY <2>3, <4>1, <4>3 DEF IInv, MarksApart
      <4> QED
        BY <2>1, <4>2, <4>3
    <3> QED
      BY <2>1, <3>1, <3>2
  <2>6. \A t, u \in Threads : pc[t] = "mark" =>
          /\ p[t] \notin DOMAIN page
          /\ pc[u] = "mark" /\ p[t] = p[u] => t = u
    <3>1. \A r \in DOMAIN page : page[r].page_size > 0
      BY <2>2, StackAssumption DEF IInv, PagesInside, Payload
    <3> QED
      BY <2>2, <2>3, <3>1 DEF IInv, MarksApart
  <2> QED
    BY <2>4, <2>5, <2>6 DEF PagesSeparate
<1> QED
  BY <1>1, StackInvariant, PTL

-----------------------------------------------------------------------------
(* Refinement.  A step changes the set of pages in use by one page or not   *)
(* at all, and never the size of a page.                                    *)
Block(r) == [off |-> r + Header, size |-> Payload(r)]

(* No step moves a page or changes its size once it has a header.           *)
LEMMA SizesStay ==
  ASSUME IInv, NEW t \in Threads, Step(t), NEW r \in DOMAIN page
  PROVE  r \in DOMAIN page' /\ Block(r)' = Block(r)
<1>1. r \in DOMAIN page' /\ page'[r].page_size = page[r].page_size
  <2>1. CASE MarkHeader(t)
    <3>1. r # p[t]
      BY <2>1, StackAssumption DEF MarkHeader, IInv, TypeOK, Headers, LocalsInStep,
         MarksInside, MarksApart, PagesInside, Payload
    <3> QED
      BY <2>1, <3>1 DEF MarkHeader
  <2>2. CASE UnsetAllocated(t)
    BY <2>2 DEF UnsetAllocated, IInv, TypeOK, Headers
  <2>3. CASE page' = page
    BY <2>3
  <2> QED
    BY <2>1, <2>2, <2>3 DEF Step, AllocateBegin, ReallocateBegin, FreeBegin,
       ReserveGranted, ReserveRefused, CountAlloc, Copy, CheckAllocated,
       ReportDoubleFree, UncountAlloc
<1> QED
  BY <1>1 DEF Block, Payload

(* A step changes the locals of the thread that takes it and of no other.   *)
LEMMA OthersKeep ==
  ASSUME IInv, NEW t \in Threads, Step(t), NEW u \in Threads \ {t}, NEW r
  PROVE  Keeps(u, r)' = Keeps(u, r)
<1>1. pc'[u] = pc[u] /\ p'[u] = p[u] /\ q'[u] = q[u]
  BY DEF Step, AllocateBegin, ReallocateBegin, FreeBegin, ReserveGranted,
     ReserveRefused, MarkHeader, CountAlloc, Copy, CheckAllocated,
     ReportDoubleFree, UnsetAllocated, UncountAlloc, Goto, Return, IInv, TypeOK
<1> QED
  BY <1>1 DEF Keeps

(* So what is in use after a step depends on held and on that thread.       *)
LEMMA UsedAfterStep ==
  ASSUME IInv, NEW t \in Threads, Step(t), NEW r
  PROVE  r \in Used' <=> /\ r \in DOMAIN page'
                         /\ \/ r \in held'
                            \/ Keeps(t, r)'
                            \/ \E u \in Threads \ {t} : Keeps(u, r)
BY OthersKeep DEF Used

(* A page is in use because callers own it or because one thread or another *)
(* works on it.                                                             *)
LEMMA UsedBeforeStep ==
  ASSUME NEW t \in Threads, NEW r
  PROVE  r \in Used <=> /\ r \in DOMAIN page
                        /\ \/ r \in held
                           \/ Keeps(t, r)
                           \/ \E u \in Threads \ {t} : Keeps(u, r)
BY DEF Used

(* CountAlloc puts the page it has counted into use.                        *)
LEMMA CountAllocUses ==
  ASSUME IInv, NEW t \in Threads, CountAlloc(t)
  PROVE  Used' = Used \cup {p[t]} /\ p[t] \in DOMAIN page \ Used
<1>1. Step(t)
  BY DEF Step
<1>2. p[t] \in DOMAIN page \ Used
  BY DEF CountAlloc, Used, Keeps, IInv, LocalsInStep, OneUser
<1>3. ASSUME NEW r \in DOMAIN page, r # p[t]
      PROVE  (r \in held' \/ Keeps(t, r)') <=> (r \in held \/ Keeps(t, r))
  <2>1. CASE q[t] = NoPage
    BY <1>3, <2>1, StackAssumption
    DEF CountAlloc, Return, Goto, Keeps, IInv, TypeOK, LocalsInStep
  <2>2. CASE q[t] # NoPage
    BY <1>3, <2>2 DEF CountAlloc, Goto, Keeps, IInv, TypeOK
  <2> QED
    BY <2>1, <2>2
<1>4. ASSUME NEW r, r = p[t] PROVE r \in held' \/ Keeps(t, r)'
  BY <1>4 DEF CountAlloc, Goto, Keeps, IInv, TypeOK
<1>5. page' = page
  BY DEF CountAlloc
<1>6. ASSUME NEW r PROVE r \in Used' <=> r \in Used \cup {p[t]}
  <2>1. CASE r = p[t]
    BY <1>1, <1>2, <1>4, <1>5, <2>1, UsedAfterStep
  <2>2. CASE r # p[t]
    BY <1>1, <1>3, <1>5, <2>2, UsedBeforeStep, UsedAfterStep
  <2> QED
    BY <2>1, <2>2
<1> QED
  BY <1>2, <1>6

(* The free of a page begins when it is handed back or has been copied.     *)
LEMMA CopyReleases ==
  ASSUME IInv, NEW t \in Threads, Copy(t)
  PROVE  Used' = Used \ {q[t]} /\ q[t] \in Used
<1>1. Step(t)
  BY DEF Step
<1>2. page' = page /\ held' = held /\ q[t] \in DOMAIN page /\ q[t] # NoPage
  BY DEF Copy, IInv, LocalsInStep
<1>3. ASSUME NEW r
      PROVE  /\ Keeps(t, r) <=> (r = p[t] \/ r = q[t])
             /\ Keeps(t, r)' <=> r = p[t]
  BY DEF Copy, Goto, Keeps, IInv, TypeOK
<1>4. /\ q[t] \notin held /\ q[t] # p[t]
      /\ \A u \in Threads \ {t} : ~Keeps(u, q[t])
  BY <1>2 DEF Copy, Keeps, IInv, LocalsInStep, OneUser
<1> QED
  BY <1>1, <1>2, <1>3, <1>4, UsedBeforeStep, UsedAfterStep

(* The beginning of a free takes at most one block away from the callers.   *)
LEMMA FreeBeginReleases ==
  ASSUME IInv, NEW t \in Threads, FreeBegin(t)
  PROVE  Used' = Used \/ \E r \in Used : Used' = Used \ {r}
<1>1. Step(t)
  BY DEF Step
<1>2. PICK r \in DOMAIN page : /\ r \in held \/ ~InUse(r)
                              /\ q' = [q EXCEPT ![t] = r]
                              /\ held' = held \ {r}
  BY DEF FreeBegin
<1>3. ASSUME NEW s \in DOMAIN page PROVE ~Keeps(t, s) /\ ~Keeps(t, s)'
  BY <1>3, StackAssumption DEF FreeBegin, Goto, Keeps, IInv, TypeOK, LocalsInStep
<1>4. page' = page /\ \A u \in Threads \ {t} : ~Keeps(u, r)
  BY <1>2, StackAssumption DEF FreeBegin, InUse, Keeps, IInv, TypeOK, OneUser
<1> QED
  BY <1>1, <1>2, <1>3, <1>4, UsedBeforeStep, UsedAfterStep

(* No other step changes what is in use.                                    *)
LEMMA OthersKeepUsed ==
  ASSUME IInv, NEW t \in Threads, Step(t),
         ~CountAlloc(t), ~Copy(t), ~FreeBegin(t)
  PROVE  Used' = Used
<1>1. CASE MarkHeader(t)
  <2>1. ASSUME NEW r, r = p[t]
        PROVE  /\ r \in Nat /\ r \notin held /\ r \notin DOMAIN page
               /\ ~Keeps(t, r)' /\ \A u \in Threads \ {t} : ~Keeps(u, r)
    BY <1>1, <2>1, StackAssumption DEF MarkHeader, Goto, Keeps, IInv, TypeOK, LocalsInStep,
       MarksInside, MarksApart, PagesInside, OneUser, Headers, Payload
  <2>2. held' = held /\ DOMAIN page' = DOMAIN page \cup {p[t]}
    BY <1>1 DEF MarkHeader
  <2>3. ASSUME NEW r, r # p[t] PROVE Keeps(t, r)' <=> Keeps(t, r)
    BY <1>1, <2>3 DEF MarkHeader, Goto, Keeps, IInv, TypeOK
  <2>4. ASSUME NEW r PROVE r \in Used' <=> r \in Used
    <3>1. CASE r = p[t]
      BY <2>1, <2>2, <3>1, UsedBeforeStep, UsedAfterStep
    <3>2. CASE r # p[t]
      BY <2>2, <2>3, <3>2, UsedBeforeStep, UsedAfterStep
    <3> QED
      BY <3>1, <3>2
  <2> QED
    BY <2>4
<1>2. CASE ~MarkHeader(t)
  <2>1. DOMAIN page' = DOMAIN page
    BY <1>2 DEF Step, AllocateBegin, ReallocateBegin, ReserveGranted, ReserveRefused,
       CheckAllocated, ReportDoubleFree, UnsetAllocated, UncountAlloc
  <2>2. ASSUME NEW r \in DOMAIN page
        PROVE  (r \in held' \/ Keeps(t, r)') <=> (r \in held \/ Keeps(t, r))
    <3>1. r \in Nat
      BY DEF IInv, TypeOK
    <3>2. CASE AllocateBegin(t) \/ ReserveGranted(t) \/ CheckAllocated(t) \/ UnsetAllocated(t)
      BY <3>1, <3>2, StackAssumption
      DEF AllocateBegin, ReserveGranted, CheckAllocated, UnsetAllocated, Goto, Keeps,
          IInv, TypeOK, LocalsInStep
    <3>3. CASE ReallocateBegin(t)
      BY <3>1, <3>3, StackAssumption
      DEF ReallocateBegin, Goto, Keeps, IInv, TypeOK, LocalsInStep
    <3>4. CASE ReserveRefused(t)
      BY <3>1, <3>4, StackAssumption
      DEF ReserveRefused, Return, Goto, Keeps, IInv, TypeOK, LocalsInStep
    <3>5. CASE ReportDoubleFree(t)
      BY <3>1, <3>5, StackAssumption
      DEF ReportDoubleFree, Return, Goto, Keeps, IInv, TypeOK, LocalsInStep, KeptIsMarked
    <3>6. CASE UncountAlloc(t)
      BY <3>1, <3>6, StackAssumption
      DEF UncountAlloc, Return, Goto, Keeps, IInv, TypeOK, LocalsInStep
    <3> QED
      BY <1>2, <3>2, <3>3, <3>4, <3>5, <3>6 DEF Step
  <2> QED
    BY <2>1, <2>2, UsedBeforeStep, UsedAfterStep
<1> QED
  BY <1>1, <1>2

(* Distinct pages are distinct blocks, and their blocks are separate.       *)
LEMMA BlocksApart ==
  ASSUME IInv, NEW r \in DOMAIN page, NEW s \in DOMAIN page, r # s
  PROVE  Block(r) # Block(s) /\ Promise!Separate(Block(r), Block(s))
<1>1. /\ r \in Nat /\ s \in Nat
      /\ page[r].page_size \in Nat /\ page[s].page_size \in Nat
  BY DEF IInv, TypeOK, Headers
<1>2. /\ Block(r).off = r + Header /\ Block(r).size = page[r].page_size - Header
      /\ Block(s).off = s + Header /\ Block(s).size = page[s].page_size - Header
  BY DEF Block, Payload
<1>3. r + page[r].page_size <= s \/ s + page[s].page_size <= r
  BY <1>1 DEF IInv, PagesApart
<1>4. Block(r).off # Block(s).off
  BY <1>1, <1>2, StackAssumption
<1>5. Promise!Separate(Block(r), Block(s))
  BY <1>1, <1>2, <1>3, StackAssumption DEF Promise!Separate
<1> QED
  BY <1>4, <1>5

(* A block that a caller sees lies behind the first header and inside the   *)
(* heap.                                                                    *)
LEMMA BlockInRegion ==
  ASSUME IInv, NEW r \in DOMAIN page
  PROVE  /\ RegionOff + Header <= Block(r).off
         /\ Block(r).off + Block(r).size <= HeapSize
         /\ Block(r) \in [off : Nat, size : Nat]
<1>1. r \in Nat /\ page[r].page_size \in Nat
  BY DEF IInv, TypeOK, Headers
<1>2. /\ RegionOff <= r /\ r + page[r].page_size <= HeapSize
      /\ page[r].page_size - Header \in Sizes
  BY DEF IInv, PagesInside, Payload
<1>3. page[r].page_size - Header \in Nat
  BY <1>2, StackAssumption
<1> QED
  BY <1>1, <1>2, <1>3, StackAssumption DEF Block, Payload

(* Whatever the threads do, the callers see the abstract allocator.         *)
THEOREM StackRefinement == Spec => ImplementsAllocator
<1> DEFINE blocks == {[off |-> r + Header, size |-> Payload(r)] : r \in Used}
<1>1. Init => Promise!Init
  BY DEF Init, Promise!Init, Used
<1>2. IInv /\ [Next]_vars => [Promise!Next]_blocks
  <2> SUFFICES ASSUME IInv, [Next]_vars PROVE [Promise!Next]_blocks
    OBVIOUS
  <2>1. blocks = {Block(r) : r \in Used} /\ Used \subseteq DOMAIN page
    BY DEF Block, Used
  <2>2. ASSUME UNCHANGED vars PROVE blocks' = blocks
    BY <2>2 DEF vars, Used, Keeps, Payload
  <2>3. ASSUME NEW t \in Threads, Step(t) PROVE [Promise!Next]_blocks
    <3>1. \A r \in DOMAIN page : Block(r)' = Block(r)
      BY <2>3, SizesStay
    <3>2. ASSUME Used' \subseteq DOMAIN page
          PROVE  blocks' = {Block(r) : r \in Used'}
      BY <3>1, <3>2 DEF Block
    <3>3. CASE CountAlloc(t)
      <4>1. Used' = Used \cup {p[t]} /\ p[t] \in DOMAIN page /\ p[t] \notin Used
        BY <3>3, CountAllocUses
      <4>2. blocks' = blocks \cup {Block(p[t])}
        BY <2>1, <3>2, <4>1
      <4>3. \A c \in blocks : Promise!Separate(Block(p[t]), c)
        BY <2>1, <4>1, BlocksApart
      <4>4. Promise!Allocate(Block(p[t]))
        BY <4>1, <4>2, <4>3, BlockInRegion DEF Promise!Allocate
      <4>5. Block(p[t]) \in blocks' \ blocks
        BY <2>1, <4>1, <4>2, BlocksApart
      <4>6. PICK b \in blocks' \ blocks : b = Block(p[t])
        BY <4>5
      <4>7. Promise!Allocate(b)
        BY <4>4, <4>6 DEF Promise!Allocate
      <4> QED
        BY <4>7 DEF Promise!Next
    <3>4. ASSUME NEW r \in Used, Used' = Used \ {r}
          PROVE  Promise!Next
      <4>1. blocks' = blocks \ {Block(r)} /\ Block(r) \in blocks
        BY <2>1, <3>2, <3>4, BlocksApart
      <4> QED
        BY <4>1 DEF Promise!Next, Promise!Free
    <3>5. ASSUME Used' = Used PROVE blocks' = blocks
      BY <2>1, <3>2, <3>5
    <3>6. CASE Copy(t)
      BY <3>4, <3>6, CopyReleases
    <3>7. CASE FreeBegin(t)
      BY <3>4, <3>5, <3>7, FreeBeginReleases
    <3>8. CASE ~CountAlloc(t) /\ ~Copy(t) /\ ~FreeBegin(t)
      BY <2>3, <3>5, <3>8, OthersKeepUsed
    <3> QED
      BY <3>3, <3>6, <3>7, <3>8
  <2> QED
    BY <2>2, <2>3 DEF Next
<1> QED
  BY <1>1, <1>2, StackInvariant, PTL DEF Spec, ImplementsAllocator, Promise!Spec
-----------------------------------------------------------------------------
(* The bytes of a set of pages.  The sum is the one of the model, which     *)
(* takes the pages of the set in an order nobody knows.                     *)
TotalSize(f, S) == FoldFunctionOnSet(LAMBDA h, sum : h.page_size + sum, 0, f, S)

(* Of the sets of a family, one has no other of them inside of it.          *)
LEMMA Smallest ==
  ASSUME NEW S, NEW B, IsFiniteSet(S), B \subseteq SUBSET S, B # {}
  PROVE  \E T \in B : \A U \in B : U \subseteq T => U = T
<1> DEFINE R == StrictSubsetOrdering(S)
           F == FiniteSubsetsOf(S)
<1>1. IsWellFoundedOn(R, F)
  BY FS_StrictSubsetOrderingWellFounded
<1>2. B \subseteq F
  BY FS_Subset DEF FiniteSubsetsOf
<1>3. \A T, U \in B : U \subseteq T /\ U # T => <<U, T>> \in R
  BY DEF StrictSubsetOrdering
<1> HIDE DEF R, F
<1>4. PICK T \in B : \A U \in B : <<U, T>> \notin R
  BY <1>1, <1>2, WFMin
<1> QED
  BY <1>3, <1>4

(* A sum takes the pages one at a time.                                     *)
Chosen(s) == CHOOSE x \in s : TRUE
SumStep(f, g, s) ==
  IF s = {} THEN 0 ELSE f[Chosen(s)].page_size + g[s \ {Chosen(s)}]
Sums(f, g, S) == g = [s \in SUBSET S |-> SumStep(f, g, s)]

LEMMA ChosenIn ==
  ASSUME NEW s, s # {}
  PROVE  Chosen(s) \in s
  BY DEF Chosen

LEMMA TotalOfSums ==
  ASSUME NEW f, NEW S, \E g : Sums(f, g, S)
  PROVE  \E g : Sums(f, g, S) /\ TotalSize(f, S) = g[S]
<1> DEFINE g == CHOOSE g : Sums(f, g, S)
<1>1. TotalSize(f, S) = g[S]
  BY DEF TotalSize, FoldFunctionOnSet, MapThenFoldSet, Sums, SumStep, Chosen
<1>2. Sums(f, g, S)
  OBVIOUS
<1> QED
  BY <1>1, <1>2

(* Functions that sum agree where both do.                                  *)
LEMMA SumsAgree ==
  ASSUME NEW f, NEW S, NEW T \in SUBSET S, NEW g, NEW h, IsFiniteSet(S),
         Sums(f, g, S), Sums(f, h, T)
  PROVE  g[T] = h[T]
<1> DEFINE B == {s \in SUBSET T : g[s] # h[s]}
<1>1. \A s \in SUBSET T : g[s] = SumStep(f, g, s) /\ h[s] = SumStep(f, h, s)
  BY DEF Sums
<1>2. ASSUME B # {}
      PROVE  FALSE
  <2>1. PICK s \in B : \A u \in B : u \subseteq s => u = s
    <3>1. B \subseteq SUBSET S
      OBVIOUS
    <3> HIDE DEF B
    <3> QED
      BY <1>2, <3>1, Smallest
  <2>2. s # {}
    BY <1>1, <2>1 DEF SumStep
  <2> DEFINE u == s \ {Chosen(s)}
  <2>3. u \in SUBSET T /\ u # s /\ u \subseteq s
    BY <2>1, <2>2, ChosenIn
  <2>4. g[u] = h[u]
    BY <2>1, <2>3
  <2> QED
    BY <1>1, <2>1, <2>2, <2>4 DEF SumStep
<1> QED
  BY <1>2

LEMMA SumChosen ==
  ASSUME NEW f, NEW S, IsFiniteSet(S), S # {},
         \E g : Sums(f, g, S), \E g : Sums(f, g, S \ {Chosen(S)})
  PROVE  TotalSize(f, S) = f[Chosen(S)].page_size + TotalSize(f, S \ {Chosen(S)})
<1> DEFINE T == S \ {Chosen(S)}
<1>1. T \in SUBSET S
  OBVIOUS
<1>2. \E g : Sums(f, g, T)
  OBVIOUS
<1> HIDE DEF T
<1>3. PICK g : Sums(f, g, S) /\ TotalSize(f, S) = g[S]
  BY TotalOfSums
<1>4. PICK h : Sums(f, h, T) /\ TotalSize(f, T) = h[T]
  BY <1>2, TotalOfSums
<1>5. g[T] = h[T]
  BY <1>1, <1>3, <1>4, SumsAgree
<1>6. g[S] = f[Chosen(S)].page_size + g[T]
  BY <1>3 DEF Sums, SumStep, T
<1> QED
  BY <1>3, <1>4, <1>5, <1>6 DEF T

(* There is one for every finite set.                                       *)
LEMMA SumsExist ==
  ASSUME NEW f, NEW S, IsFiniteSet(S)
  PROVE  \E g : Sums(f, g, S)
<1> DEFINE B == {s \in SUBSET S : ~\E g : Sums(f, g, s)}
<1>1. ASSUME B # {}
      PROVE  FALSE
  <2>1. PICK T \in B : \A u \in B : u \subseteq T => u = T
    <3>1. B \subseteq SUBSET S
      OBVIOUS
    <3> HIDE DEF B
    <3> QED
      BY <1>1, <3>1, Smallest
  <2>2. T \in SUBSET S /\ IsFiniteSet(T)
    BY <2>1, FS_Subset
  <2>3. \A s \in SUBSET T : s # T => IsFiniteSet(s) /\ \E g : Sums(f, g, s)
    BY <2>1, <2>2, FS_Subset
  <2> DEFINE tot(s) == TotalSize(f, s)
             h == [s \in SUBSET T |-> IF s # T THEN tot(s)
                                      ELSE IF s = {} THEN 0
                                      ELSE f[Chosen(s)].page_size + tot(s \ {Chosen(s)})]
  <2>4. ASSUME NEW s \in SUBSET T
        PROVE  h[s] = SumStep(f, h, s)
    <3>1. CASE s = {}
      <4>1. CASE s # T
        <5>1. PICK g : Sums(f, g, s) /\ tot(s) = g[s]
          BY <2>3, <4>1, TotalOfSums
        <5> QED
          BY <3>1, <4>1, <5>1 DEF Sums, SumStep
      <4> QED
        BY <3>1, <4>1 DEF SumStep
    <3>2. CASE s # {}
      <4> DEFINE u == s \ {Chosen(s)}
      <4>1. u \in SUBSET T /\ u # T
        BY <3>2, ChosenIn
      <4>2. SumStep(f, h, s) = f[Chosen(s)].page_size + tot(u)
        BY <3>2, <4>1 DEF SumStep
      <4>3. CASE s # T
        <5>1. tot(s) = f[Chosen(s)].page_size + tot(u)
          BY <2>3, <3>2, <4>1, <4>3, SumChosen
        <5> QED
          BY <4>2, <4>3, <5>1
      <4>4. CASE s = T
        BY <3>2, <4>2, <4>4
      <4> QED
        BY <4>3, <4>4
    <3> QED
      BY <3>1, <3>2
  <2>5. h = [s \in SUBSET T |-> h[s]]
    OBVIOUS
  <2> HIDE DEF h
  <2>6. Sums(f, h, T)
    BY <2>4, <2>5 DEF Sums
  <2> QED
    BY <2>1, <2>6
<1> QED
  BY <1>1

(* An empty set of pages has no bytes.                                      *)
LEMMA TotalOfNone ==
  ASSUME NEW f
  PROVE  TotalSize(f, {}) = 0
<1>1. PICK g : Sums(f, g, {}) /\ TotalSize(f, {}) = g[{}]
  BY TotalOfSums, SumsExist, FS_EmptySet
<1> QED
  BY <1>1 DEF Sums, SumStep

(* A set with the page x has the bytes of x and those of the other pages.   *)
LEMMA TotalOfOthers ==
  ASSUME NEW f, NEW S, IsFiniteSet(S), \A x \in S : f[x].page_size \in Nat
  PROVE  /\ TotalSize(f, S) \in Nat
         /\ \A x \in S : TotalSize(f, S) = f[x].page_size + TotalSize(f, S \ {x})
<1> DEFINE tot(s) == TotalSize(f, s)
           Good(s) == tot(s) \in Nat /\ \A x \in s : tot(s) = f[x].page_size + tot(s \ {x})
           B == {s \in SUBSET S : ~Good(s)}
<1>1. ASSUME B # {}
      PROVE  FALSE
  <2>1. PICK s \in B : \A u \in B : u \subseteq s => u = s
    <3>1. B \subseteq SUBSET S
      OBVIOUS
    <3> HIDE DEF B
    <3> QED
      BY <1>1, <3>1, Smallest
  <2>2. s \in SUBSET S /\ IsFiniteSet(s) /\ ~Good(s)
    BY <2>1, FS_Subset
  <2>3. \A u \in SUBSET s : u # s => Good(u)
    BY <2>1, <2>2
  <2>4. s # {}
    <3>1. tot({}) = 0
      BY TotalOfNone
    <3>2. Good({})
      BY <3>1
    <3> QED
      BY <2>2, <3>2
  <2>5. PICK c \in s : tot(s) = f[c].page_size + tot(s \ {c})
    <3>1. IsFiniteSet(s \ {Chosen(s)})
      BY <2>2, FS_Subset
    <3> QED
      BY <2>2, <2>4, <3>1, ChosenIn, SumsExist, SumChosen
  <2>6. ASSUME NEW x \in s, x # c
        PROVE  tot(s) = f[x].page_size + tot(s \ {x})
    <3> DEFINE v == s \ {c}
               w == s \ {x}
               u == v \ {x}
    <3>1. /\ v \in SUBSET s /\ v # s /\ w \in SUBSET s /\ w # s /\ u \in SUBSET s /\ u # s
          /\ u = w \ {c} /\ x \in v /\ c \in w
      BY <2>6
    <3>2. Good(v) /\ Good(w) /\ Good(u)
      BY <2>3, <3>1
    <3> HIDE DEF u, v, w
    <3>3. tot(v) = f[x].page_size + tot(u) /\ tot(w) = f[c].page_size + tot(u) /\ tot(u) \in Nat
      BY <3>1, <3>2 DEF u
    <3>4. f[x].page_size \in Nat /\ f[c].page_size \in Nat
      BY <2>2
    <3>5. tot(s) = f[c].page_size + tot(v)
      BY <2>5 DEF v
    <3> QED
      BY <3>3, <3>4, <3>5 DEF w
  <2>7. tot(s) \in Nat
    <3>1. s \ {c} \in SUBSET s /\ s \ {c} # s
      OBVIOUS
    <3> QED
      BY <2>2, <2>3, <2>5, <3>1
  <2> QED
    BY <2>2, <2>5, <2>6, <2>7
<1> QED
  BY <1>1

(* Pages of the same sizes have as many bytes, whatever else changed.       *)
LEMMA TotalOfSame ==
  ASSUME NEW f, NEW h, NEW S, IsFiniteSet(S),
         \A x \in S : f[x].page_size \in Nat /\ h[x].page_size = f[x].page_size
  PROVE  TotalSize(h, S) = TotalSize(f, S)
<1> DEFINE B == {s \in SUBSET S : TotalSize(h, s) # TotalSize(f, s)}
<1>1. ASSUME B # {}
      PROVE  FALSE
  <2>1. PICK s \in B : \A u \in B : u \subseteq s => u = s
    <3>1. B \subseteq SUBSET S
      OBVIOUS
    <3> HIDE DEF B
    <3> QED
      BY <1>1, <3>1, Smallest
  <2>2. s \in SUBSET S /\ IsFiniteSet(s)
    BY <2>1, FS_Subset
  <2>3. PICK x \in s : TRUE
    BY <2>1, TotalOfNone
  <2>4. TotalSize(h, s \ {x}) = TotalSize(f, s \ {x})
    BY <2>1, <2>3
  <2>5. TotalSize(f, s) = f[x].page_size + TotalSize(f, s \ {x})
    BY <2>2, TotalOfOthers
  <2>6. TotalSize(h, s) = h[x].page_size + TotalSize(h, s \ {x})
    BY <2>2, TotalOfOthers
  <2> QED
    BY <2>1, <2>2, <2>4, <2>5, <2>6
<1> QED
  BY <1>1

-----------------------------------------------------------------------------
(* The accounting.  Between CheckAllocated and its last step a free knows   *)
(* the flag of its page, so a second free never takes it for its own.       *)
FlagsInFree ==
  \A t \in Threads : /\ pc[t] = "unset" => page[q[t]].allocated
                     /\ pc[t] = "uncount" => ~page[q[t]].allocated

SumInv == IsFiniteSet(DOMAIN page) /\ FlagsInFree /\ AccountingExact

CountedPages == {r \in DOMAIN page : Counted(r)}

(* Accounting is a statement about the bytes of the counted pages.          *)
Accounted == total_alloc = TotalSize(page, CountedPages)

LEMMA AccountingIsTotal == AccountingExact <=> Accounted
BY DEF AccountingExact, Accounted, TotalSize, CountedPages

LEMMA AccountingIsTotalNext == AccountingExact' <=> Accounted'
BY AccountingIsTotal, PTL

(* The pages have sizes to sum.                                             *)
LEMMA CountedAreFinite ==
  ASSUME IInv, SumInv
  PROVE  IsFiniteSet(CountedPages) /\ \A r \in CountedPages : page[r].page_size \in Nat
<1>1. CountedPages \subseteq DOMAIN page
  BY DEF CountedPages
<1>2. \A r \in DOMAIN page : page[r].page_size \in Nat
  BY DEF IInv, TypeOK, Headers
<1> QED
  BY <1>1, <1>2, FS_Subset DEF SumInv

(* An empty heap has nothing allocated.                                     *)
LEMMA InitSums == Init => SumInv
<1> SUFFICES ASSUME Init PROVE SumInv
  OBVIOUS
<1>1. DOMAIN page = {} /\ CountedPages = {}
  BY DEF Init, CountedPages
<1>2. AccountingExact
  BY <1>1, AccountingIsTotal, TotalOfNone DEF Init, Accounted
<1>3. FlagsInFree
  BY DEF Init, FlagsInFree
<1> QED
  BY <1>1, <1>2, <1>3, FS_EmptySet DEF SumInv

(* MarkHeader writes the header of a page nobody counts yet.                *)
LEMMA MarkHeaderSums ==
  ASSUME IInv, SumInv, NEW t \in Threads, MarkHeader(t)
  PROVE  SumInv'
<1>1. /\ p[t] \notin DOMAIN page /\ DOMAIN page' = DOMAIN page \cup {p[t]}
      /\ \A r \in DOMAIN page : page'[r] = page[r]
  BY StackAssumption DEF MarkHeader, IInv, TypeOK, LocalsInStep, PagesInside, MarksInside,
     MarksApart, Headers, Payload
<1>2. p[t] # NoPage
  BY StackAssumption DEF MarkHeader, IInv, MarksInside
<1>3. /\ pc[t] = "mark" /\ pc'[t] = "count" /\ p' = p /\ q' = q
      /\ \A u \in Threads \ {t} : pc'[u] = pc[u]
  BY DEF MarkHeader, Goto, IInv, TypeOK
<1>4. \A u \in Threads : q[u] # p[t] /\ (p[u] = p[t] => u = t)
  BY <1>2 DEF IInv, OneUser
<1>5. CountedPages' = CountedPages
  <2>1. ASSUME NEW r \in DOMAIN page PROVE Counted(r)' <=> Counted(r)
    BY <1>1, <1>3 DEF Counted
  <2>2. ~Counted(p[t])'
    BY <1>3, <1>4 DEF Counted
  <2> QED
    BY <1>1, <1>3, <2>1, <2>2 DEF CountedPages
<1>6. TotalSize(page', CountedPages) = TotalSize(page, CountedPages)
  <2>1. \A r \in CountedPages : /\ page[r].page_size \in Nat
                                /\ page'[r].page_size = page[r].page_size
    BY <1>1, CountedAreFinite DEF CountedPages
  <2> QED
    BY <2>1, CountedAreFinite, TotalOfSame
<1>7. total_alloc' = total_alloc
  BY DEF MarkHeader
<1>8. AccountingExact'
  BY <1>5, <1>6, <1>7, AccountingIsTotal, AccountingIsTotalNext DEF SumInv, Accounted
<1>9. FlagsInFree'
  BY <1>1, <1>3, StackAssumption DEF SumInv, FlagsInFree, IInv, LocalsInStep
<1>10. IsFiniteSet(DOMAIN page')
  BY <1>1, FS_AddElement DEF SumInv
<1> QED
  BY <1>8, <1>9, <1>10 DEF SumInv

(* CountAlloc counts one page more.                                         *)
LEMMA CountAllocSums ==
  ASSUME IInv, SumInv, NEW t \in Threads, CountAlloc(t)
  PROVE  SumInv'
<1>1. /\ pc[t] = "count" /\ pc'[t] \in {"idle", "copy"} /\ page' = page
      /\ \A u \in Threads \ {t} : pc'[u] = pc[u] /\ p'[u] = p[u] /\ q'[u] = q[u]
  BY DEF CountAlloc, Goto, Return, IInv, TypeOK
<1>2. /\ p[t] \in DOMAIN page /\ p[t] # NoPage /\ page[p[t]].allocated
      /\ \A u \in Threads : q[u] # p[t] /\ (p[u] = p[t] => u = t)
  BY <1>1 DEF IInv, LocalsInStep, OneUser, KeptIsMarked
<1>3. p[t] \notin CountedPages
  BY <1>1, <1>2 DEF CountedPages, Counted
<1>4. CountedPages' = CountedPages \cup {p[t]}
  <2>1. ASSUME NEW r \in DOMAIN page, r # p[t] PROVE Counted(r)' <=> Counted(r)
    BY <1>1, <2>1 DEF Counted
  <2>2. ASSUME NEW r, r = p[t] PROVE Counted(r)'
    BY <1>1, <1>2, <2>2 DEF Counted
  <2> QED
    BY <1>1, <1>2, <2>1, <2>2 DEF CountedPages
<1> DEFINE S == CountedPages \cup {p[t]}
<1>5. TotalSize(page, S) = page[p[t]].page_size + TotalSize(page, CountedPages)
  <2>1. IsFiniteSet(S) /\ S \ {p[t]} = CountedPages /\ p[t] \in S
    BY <1>3, CountedAreFinite, FS_AddElement
  <2>2. \A r \in S : page[r].page_size \in Nat
    BY <1>2, CountedAreFinite DEF IInv, TypeOK, Headers
  <2> HIDE DEF S
  <2> QED
    BY <2>1, <2>2, TotalOfOthers
<1>6. page[p[t]].page_size \in Nat /\ TotalSize(page, CountedPages) \in Nat
  BY <1>2, CountedAreFinite, TotalOfOthers DEF IInv, TypeOK, Headers
<1>7. total_alloc' = total_alloc + page[p[t]].page_size
  BY DEF CountAlloc, CountPage
<1>8. AccountingExact'
  BY <1>1, <1>4, <1>5, <1>6, <1>7, AccountingIsTotal, AccountingIsTotalNext DEF SumInv, Accounted
<1>9. FlagsInFree'
  BY <1>1 DEF SumInv, FlagsInFree
<1> QED
  BY <1>1, <1>8, <1>9 DEF SumInv

(* UnsetAllocated leaves its page counted until the free is over.           *)
LEMMA UnsetAllocatedSums ==
  ASSUME IInv, SumInv, NEW t \in Threads, UnsetAllocated(t)
  PROVE  SumInv'
<1>1. /\ pc[t] = "unset" /\ pc'[t] = "uncount" /\ p' = p /\ q' = q
      /\ \A u \in Threads \ {t} : pc'[u] = pc[u]
  BY DEF UnsetAllocated, Goto, IInv, TypeOK
<1>2. /\ q[t] \in DOMAIN page /\ q[t] # NoPage
      /\ \A u \in Threads : p[u] # q[t] /\ (q[u] = q[t] => u = t)
  BY <1>1 DEF IInv, LocalsInStep, OneUser
<1>3. /\ DOMAIN page' = DOMAIN page /\ ~page'[q[t]].allocated
      /\ \A r \in DOMAIN page : /\ page'[r].page_size = page[r].page_size
                                /\ r # q[t] => page'[r] = page[r]
  BY <1>2 DEF UnsetAllocated, IInv, TypeOK, Headers
<1>4. CountedPages' = CountedPages
  <2>1. ASSUME NEW r \in DOMAIN page, r # q[t] PROVE Counted(r)' <=> Counted(r)
    BY <1>1, <1>3, <2>1 DEF Counted
  <2>2. Counted(q[t]) /\ Counted(q[t])'
    BY <1>1, <1>2 DEF Counted, SumInv, FlagsInFree
  <2> QED
    BY <1>1, <1>3, <2>1, <2>2 DEF CountedPages
<1>5. TotalSize(page', CountedPages) = TotalSize(page, CountedPages)
  <2>1. \A r \in CountedPages : /\ page[r].page_size \in Nat
                                /\ page'[r].page_size = page[r].page_size
    BY <1>3, CountedAreFinite DEF CountedPages
  <2> QED
    BY <2>1, CountedAreFinite, TotalOfSame
<1>6. total_alloc' = total_alloc
  BY DEF UnsetAllocated
<1>7. AccountingExact'
  BY <1>4, <1>5, <1>6, AccountingIsTotal, AccountingIsTotalNext DEF SumInv, Accounted
<1>8. FlagsInFree'
  BY <1>1, <1>2, <1>3 DEF SumInv, FlagsInFree, IInv, LocalsInStep
<1> QED
  BY <1>3, <1>7, <1>8 DEF SumInv

(* UncountAlloc takes one counted page away.                                *)
LEMMA UncountAllocSums ==
  ASSUME IInv, SumInv, NEW t \in Threads, UncountAlloc(t)
  PROVE  SumInv'
<1>1. /\ pc[t] = "uncount" /\ pc'[t] = "idle" /\ page' = page
      /\ \A u \in Threads \ {t} : pc'[u] = pc[u] /\ p'[u] = p[u] /\ q'[u] = q[u]
  BY DEF UncountAlloc, Goto, Return, IInv, TypeOK
<1>2. /\ q[t] \in DOMAIN page /\ q[t] # NoPage /\ ~page[q[t]].allocated
      /\ \A u \in Threads : q[u] = q[t] => u = t
  BY <1>1 DEF IInv, LocalsInStep, OneUser, SumInv, FlagsInFree
<1>3. q[t] \in CountedPages
  BY <1>1, <1>2 DEF CountedPages, Counted
<1>4. CountedPages' = CountedPages \ {q[t]}
  <2>1. ASSUME NEW r \in DOMAIN page, r # q[t] PROVE Counted(r)' <=> Counted(r)
    BY <1>1, <2>1 DEF Counted
  <2>2. ASSUME NEW r, r = q[t] PROVE ~Counted(r)'
    BY <1>1, <1>2, <2>2 DEF Counted
  <2> QED
    BY <1>1, <1>2, <2>1, <2>2 DEF CountedPages
<1>5. TotalSize(page, CountedPages)
        = page[q[t]].page_size + TotalSize(page, CountedPages \ {q[t]})
  BY <1>3, CountedAreFinite, TotalOfOthers
<1>6. /\ page[q[t]].page_size \in Nat
      /\ TotalSize(page, CountedPages \ {q[t]}) \in Nat
  <2>1. IsFiniteSet(CountedPages \ {q[t]})
    BY CountedAreFinite, FS_Subset
  <2>2. \A r \in CountedPages \ {q[t]} : page[r].page_size \in Nat
    BY CountedAreFinite
  <2> QED
    BY <1>3, <2>1, <2>2, CountedAreFinite, TotalOfOthers
<1>7. total_alloc' = total_alloc - page[q[t]].page_size
  BY DEF UncountAlloc
<1>8. AccountingExact'
  <2>1. total_alloc = TotalSize(page, CountedPages)
    BY AccountingIsTotal DEF SumInv, Accounted
  <2>2. total_alloc' = TotalSize(page, CountedPages \ {q[t]})
    BY <1>5, <1>6, <1>7, <2>1
  <2> QED
    BY <1>1, <1>4, <2>2, AccountingIsTotalNext DEF Accounted
<1>9. FlagsInFree'
  BY <1>1 DEF SumInv, FlagsInFree
<1> QED
  BY <1>1, <1>8, <1>9 DEF SumInv

(* The other steps move no page into a count or out of it.                  *)
LEMMA OthersKeepSums ==
  ASSUME IInv, SumInv, NEW t \in Threads, Step(t),
         ~MarkHeader(t), ~CountAlloc(t), ~UnsetAllocated(t), ~UncountAlloc(t)
  PROVE  SumInv'
<1>1. /\ page' = page /\ total_alloc' = total_alloc
      /\ pc[t] \notin {"count", "uncount"} /\ pc'[t] \notin {"count", "uncount"}
      /\ \A u \in Threads \ {t} : pc'[u] = pc[u] /\ p'[u] = p[u] /\ q'[u] = q[u]
  BY DEF Step, AllocateBegin, ReallocateBegin, FreeBegin, ReserveGranted, ReserveRefused,
     Copy, CheckAllocated, ReportDoubleFree, Goto, Return, IInv, TypeOK
<1>2. CountedPages' = CountedPages
  BY <1>1 DEF CountedPages, Counted
<1>3. AccountingExact'
  BY <1>1, <1>2, AccountingIsTotal, AccountingIsTotalNext DEF SumInv, Accounted
<1>4. pc'[t] = "unset" => CheckAllocated(t)
  BY DEF Step, AllocateBegin, ReallocateBegin, FreeBegin, ReserveGranted, ReserveRefused,
     Copy, CheckAllocated, ReportDoubleFree, Goto, Return, IInv, TypeOK
<1>5. FlagsInFree'
  BY <1>1, <1>4 DEF SumInv, FlagsInFree, CheckAllocated
<1> QED
  BY <1>1, <1>3, <1>5 DEF SumInv

(* However the steps of allocations and frees interleave, what              *)
(* GetCurrentlyAllocatedSize returns is the size of the pages whose         *)
(* allocation has counted them and whose free has not.                      *)
THEOREM StackAccountingExact == Spec => []AccountingExact
<1>1. IInv /\ SumInv /\ [Next]_vars => SumInv'
  <2> SUFFICES ASSUME IInv, SumInv, [Next]_vars PROVE SumInv'
    OBVIOUS
  <2>1. ASSUME NEW t \in Threads, Step(t) PROVE SumInv'
    BY <2>1, MarkHeaderSums, CountAllocSums, UnsetAllocatedSums, UncountAllocSums,
       OthersKeepSums
  <2>2. CASE UNCHANGED vars
    <3>1. CountedPages' = CountedPages /\ FlagsInFree'
      BY <2>2 DEF vars, CountedPages, Counted, SumInv, FlagsInFree
    <3> QED
      BY <2>2, <3>1, AccountingIsTotal, AccountingIsTotalNext DEF vars, SumInv, Accounted
  <2> QED
    BY <2>1, <2>2 DEF Next
<1>2. SumInv => AccountingExact
  BY DEF SumInv
<1> QED
  BY InitSums, <1>1, <1>2, StackInvariant, PTL DEF Spec
=============================================================================
